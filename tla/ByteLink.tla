------------------------------ MODULE ByteLink ------------------------------
(***************************************************************************)
(* What the serial bus promises of a byte: the talker offers it, the       *)
(* listener takes exactly that byte, with its end mark, once, and the      *)
(* talker learns of it.  A transfer may be broken off before the listener  *)
(* has taken the byte, not between the two ends' knowing of it.            *)
(***************************************************************************)
CONSTANTS Items, NoItem

VARIABLES phase, offer, taken

vars == <<phase, offer, taken>>

Init == phase = "idle" /\ offer = NoItem /\ taken = NoItem

Offer == /\ phase = "idle" /\ phase' = "offered"
         /\ offer' \in Items
         /\ UNCHANGED taken

Take == /\ phase = "offered" /\ phase' = "taken"
        /\ taken' = offer
        /\ UNCHANGED offer

Done == /\ phase = "taken" /\ phase' = "idle"
        /\ offer' = NoItem
        /\ UNCHANGED taken

Break == /\ phase = "offered" /\ phase' = "idle"
         /\ offer' = NoItem
         /\ UNCHANGED taken

Next == Offer \/ Take \/ Done \/ Break

Spec == Init /\ [][Next]_vars
=============================================================================
