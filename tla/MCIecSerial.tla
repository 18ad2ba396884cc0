---------------------------- MODULE MCIecSerial -----------------------------
(* A small instance of IecSerial for TLC. *)
EXTENDS IecSerial

\* A C64 may lose about 40 microseconds to its video chip, a VIC-20 none.
Computers == [v \in BOOLEAN |-> IF v THEN 2 ELSE 4]
=============================================================================
