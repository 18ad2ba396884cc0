----------------------------- MODULE MCBrowser -----------------------------
(* A small instance of Browser for TLC: the card with a folder in /1541, and a *)
(* USB drive; windows of three and two rows.  22 is the folder /1541.          *)
EXTENDS Browser

CardAndUsb == <<31, 32>>
Paths == {<<31>>, <<31, 22>>, <<31, 22, 23>>, <<32>>}
Images0 == {File(11, "image", <<>>)}
Files0 == [d \in Paths |-> IF d = <<31, 22>> THEN Images0 \union {File(21, "list", <<24, 11>>)}
                           ELSE IF d = <<31, 22, 23>> THEN {File(11, "image", <<>>)} ELSE {}]
NewNames == <<15>>
TheRows == [v \in Views |-> IF v = "main" THEN 3 ELSE 2]
=============================================================================
