---------------------------- MODULE IntervalTimer ---------------------------
(***************************************************************************)
(* What a timer of the 6522 promises: loaded with n it interrupts after    *)
(* First(n) cycles, not before and not again, or, when it runs free, again *)
(* each time its latch and two cycles more have gone by.  In a mode that   *)
(* counts something else than cycles it promises nothing.                  *)
(***************************************************************************)
EXTENDS Integers

CONSTANTS
  First(_),
  HasLatch    \* it reloads itself from a latch

VARIABLES
  left,     \* cycles to the next interrupt, Idle or Free; 0 when it is due to reload
  latch,    \* or what the counter is loaded with
  repeats,  \* runs free
  armed,    \* its next time-out sets the flag
  raised    \* the flag

timerVars == <<left, latch, repeats, armed, raised>>

Idle == -1    \* nothing is counted
Free == -2    \* something else is counted

TimerInit == left = Idle /\ ~repeats /\ ~raised /\ latch \in Nat /\ armed \in BOOLEAN

\* The counter is loaded: it starts, whatever it did before, with no flag set.
Load == left' = First(latch') /\ armed' /\ ~raised' /\ repeats' = repeats

\* A cycle.
Count == left > 1 /\ left' = left - 1 /\ UNCHANGED <<armed, raised>>
TimeOut ==
  /\ left = 1
  /\ left' = IF HasLatch THEN 0 ELSE Idle
  /\ raised' = (raised \/ armed) /\ armed' = (armed /\ repeats)
Again == left = 0 /\ left' = latch + 1 /\ UNCHANGED <<armed, raised>>
Rest  == left = Idle /\ left' = Idle /\ UNCHANGED <<armed, raised>>
Tick  == /\ Count \/ TimeOut \/ Again \/ Rest
         /\ HasLatch => latch' = latch
         /\ repeats' = repeats

\* The latch is written, the flag cleared, or both: the count goes on.  A timer
\* may be silenced on the way.
Adjust ==
  /\ left' = left /\ repeats' = repeats /\ latch' \in Nat
  /\ raised' => raised
  /\ armed' => armed

\* Its mode is changed: it may or may not run free, or count something else.
Switch ==
  /\ UNCHANGED <<left, latch, raised>>
  /\ repeats' \in BOOLEAN /\ armed' \in BOOLEAN
Elsewhere == left = Free \/ (left' = Free /\ raised' = raised)

TimerSpec == TimerInit /\ [][Load \/ Tick \/ Adjust \/ Switch \/ Elsewhere]_timerVars
=============================================================================
