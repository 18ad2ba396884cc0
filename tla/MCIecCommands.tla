-------------------------- MODULE MCIecCommands ----------------------------
(* Small instances of IecCommands for TLC. *)
EXTENDS IecCommands

Req(op, n1, n2, m) ==
  [op |-> op, name |-> n1, name2 |-> n2, name3 |-> NoName, mode |-> m]

CONSTANTS a, b, im

NoBytes == <<>>
ListingBlock == <<1>>

\* The folders the runs start from.
Holding(n, content) == {[m \in Names |-> IF m = n THEN content ELSE NoFile]}
EmptyFolder == Holding(NoName, <<>>)
ThreeBytes == Holding(a, <<1, 1, 1>>)
OneByte == Holding(a, <<1>>)

LoadRequests ==
  {Req("file", a, NoName, "R"), Req("file", a, NoName, "A"),
   Req("rel", a, NoName, "R"), Req("dir", NoName, NoName, ""),
   Req("direct", NoName, NoName, ""), Req("bootblock", NoName, NoName, "")}
FileRequests == LoadRequests \cup {Req("file", a, NoName, "W")}
CommandRequests ==
  {Req("scratch", b, NoName, ""), Req("rename", b, a, ""),
   [op |-> "copy", name |-> b, name2 |-> a, name3 |-> a, mode |-> ""],
   Req("file", b, NoName, "")}
ResetRequests == {Req("file", b, NoName, "W"), Req("cd", im, NoName, ""),
                  Req("cd", b, NoName, ""), Req("new", im, b, "")}
=============================================================================
