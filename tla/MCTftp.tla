------------------------------- MODULE MCTftp -------------------------------
(* A small instance of Tftp for TLC. *)
EXTENDS Tftp

\* "xa" without its first character is "a".
MCNames   == {"a", "xa"}
MCFolders == {"root", "games"}
MCClipped == [n \in MCNames |-> "a"]

Upload(folder, name, slash, octet, length) ==
  [folder |-> folder, name |-> name, slash |-> slash, octet |-> octet, length |-> length]

MCRequests ==
  {Upload("games", "a", TRUE, TRUE, 2), Upload("root", "xa", TRUE, TRUE, 1),
   Upload("games", "a", TRUE, TRUE, 3), Upload("root", "xa", FALSE, TRUE, 1),
   Upload("nowhere", "xa", TRUE, TRUE, 2), Upload("root", "a", TRUE, FALSE, 1)}
=============================================================================
