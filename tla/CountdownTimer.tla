--------------------------- MODULE CountdownTimer ---------------------------
(***************************************************************************)
(* What a timer of the 8520 promises: each cycle it runs counts, none is   *)
(* lost or counted twice; it interrupts when its time is up and only then, *)
(* starts again from its latch, and stops there unless it repeats.         *)
(***************************************************************************)
EXTENDS Integers

VARIABLES
  left,     \* cycles to the next interrupt
  latch, repeats, running,
  raised,   \* the flag
  due       \* a cycle it should count comes next

countdownVars == <<left, latch, repeats, running, raised, due>>

CountdownInit == left = 1 /\ latch \in Nat /\ repeats \in BOOLEAN /\ ~running /\ ~raised /\ due = FALSE

Count   == left > 1 /\ left' = left - 1 /\ UNCHANGED <<raised, running>>
TimeOut == left = 1 /\ left' = latch + 1 /\ raised' /\ running' = repeats
Rest    == ~running /\ UNCHANGED <<left, raised, running>>
Cycle   == /\ due /\ ~due' /\ UNCHANGED <<latch, repeats>>
           /\ Rest \/ (running /\ (Count \/ TimeOut))

\* Between cycles it may be started, stopped, loaded, given another latch, and
\* its flag be read.  The cycle after it is loaded is not counted.
Loads  == left' = latch' + (IF running' /\ due' THEN 2 ELSE 1)
Access == ~due /\ (left' = left \/ Loads) /\ (raised' => raised)

CountdownSpec == CountdownInit /\ [][Cycle \/ Access]_countdownVars
=============================================================================
