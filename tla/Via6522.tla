------------------------------- MODULE Via6522 ------------------------------
(***************************************************************************)
(* One 6522 of the emulated 1541: m6522.cpp and m6522.h as functions on    *)
(* its state, a record v.  Of the ports the model keeps what can raise an  *)
(* interrupt.  In the 1541 that is CA1 and the pin PB6: CA2, CB1 and CB2   *)
(* are set once, at reset, without an edge.  The contents of the ports and *)
(* of the shift register are left out, its count and its clock are kept.   *)
(***************************************************************************)
EXTENDS Integers, FiniteSets

CONSTANT ByteMax    \* the greatest byte, 255

ASSUME ViaAssumption == ByteMax \in Nat /\ ByteMax > 1

Byte    == 0 .. ByteMax
Base    == ByteMax + 1
Word    == 0 .. Base * Base - 1
Low(w)  == w % Base
High(w) == w \div Base
Joined(h, l) == h * Base + l
Down(w)      == (w + Base * Base - 1) % (Base * Base)    \* unsigned short

\* The bits of IFR and IER below bit 7, the ones that can be set in the 1541;
\* bit 7 of IFR is the field irq.
Flags  == {"CA1", "SR", "T2", "T1"}
Bit7   == "IRQ"
Modes  == [freeRun : BOOLEAN, countPB6 : BOOLEAN, shift : 0 .. 7]    \* ACR
Inputs == {0, 64}    \* PB6, in its place in the byte

ViaRecords ==
  [acr : Modes, positive : BOOLEAN, ca1 : BOOLEAN,
   ifr : SUBSET Flags, ier : SUBSET Flags, irq : BOOLEAN,
   t1c : Word, t1l : Word, t1Ticking : BOOLEAN, t1Reload : BOOLEAN,
   t1TimedOut : BOOLEAN, t1FreeRunIRQsOn : BOOLEAN, t1Triggered : BOOLEAN,
   t2c : Word, t2Latch : Byte, t2CountingDown : BOOLEAN, t2Reload : BOOLEAN,
   t2TimedOut : BOOLEAN, t2Triggered : BOOLEAN, t2TimedOutCount : 0 .. 3,
   countPB6Old : BOOLEAN, pb6Old : Inputs,
   bitsShifted : 0 .. 8, shiftClock : BOOLEAN, shiftEdge : BOOLEAN]

\* Reset.  t1FreeRunIRQsOn is not set there.
Reset ==
  [acr |-> [freeRun |-> FALSE, countPB6 |-> FALSE, shift |-> 0],
   positive |-> FALSE, ca1 |-> FALSE, ifr |-> {}, ier |-> {}, irq |-> FALSE,
   t1c |-> Base * Base - 1, t1l |-> Base * Base - 1, t1Ticking |-> FALSE,
   t1Reload |-> FALSE, t1TimedOut |-> FALSE, t1FreeRunIRQsOn |-> FALSE,
   t1Triggered |-> FALSE,
   t2c |-> Base * Base - 1, t2Latch |-> 0, t2CountingDown |-> FALSE,
   t2Reload |-> FALSE, t2TimedOut |-> FALSE, t2Triggered |-> FALSE,
   t2TimedOutCount |-> 0, countPB6Old |-> FALSE, pb6Old |-> 0,
   bitsShifted |-> 0, shiftClock |-> FALSE, shiftEdge |-> FALSE]

-----------------------------------------------------------------------------
(* Interrupts *)

OutputIRQ(v) == [v EXCEPT !.irq = v.ier \intersect v.ifr # {}]

SetInterrupt(v, flag) == OutputIRQ([v EXCEPT !.ifr = @ \union {flag}])
ClearInterrupt(v, flags) ==
  IF v.ifr \intersect flags = {} THEN v ELSE OutputIRQ([v EXCEPT !.ifr = @ \ flags])

InputCA1(v, value) ==
  LET edge == v.ca1 # value /\ v.positive = value
      new  == IF edge THEN SetInterrupt(v, "CA1") ELSE v
  IN  [new EXCEPT !.ca1 = value]

-----------------------------------------------------------------------------
(* A cycle: Execute *)

\* Timer 1.  After the cycle in which it timed out it starts again.
\* (TimedOutEarly times out one cycle before.)
TimedOutEarly(v) ==
  v.t1Ticking /\ ~v.t1Reload /\ ~v.t1TimedOut /\ v.t1c = 1
T1TimesOut(v) ==
  v.t1Ticking /\ ~v.t1Reload /\ ~v.t1TimedOut /\ v.t1c = 0

Timer1(v) ==
  LET times   == T1TimesOut(v)
      counted == [v EXCEPT
        !.t1c = IF v.t1TimedOut THEN v.t1l
                ELSE IF v.t1Ticking /\ ~v.t1Reload THEN Down(@) ELSE @,
        !.t1TimedOut = times,
        !.t1Reload = FALSE,
        !.t1Triggered = @ \/ (times /\ ~v.acr.freeRun)]
  IN  IF times /\ (IF v.acr.freeRun THEN v.t1FreeRunIRQsOn ELSE ~v.t1Triggered)
      THEN SetInterrupt(counted, "T1") ELSE counted

ShiftByTimer2(v) == v.acr.shift \in {1, 5}

\* The clock of the shift register changes; a rising edge shifts next cycle.
Clocked(v) == [v EXCEPT !.shiftEdge = v.shiftClock, !.shiftClock = ~@]

\* Timer 2 in the cycle after it timed out.
Restarted2(v) ==
  LET clocked == IF ShiftByTimer2(v) THEN Clocked(v) ELSE v
      w       == IF v.t2Latch = ByteMax THEN Down(v.t2c) ELSE v.t2c
      c       == IF v.t2TimedOutCount > 1 /\ High(w) = 0
                 THEN Joined(ByteMax, (v.t2Latch + 2) % Base)
                 ELSE Joined(High(w), v.t2Latch)
  IN  IF v.t2TimedOut THEN [clocked EXCEPT !.t2c = c, !.t2TimedOut = FALSE] ELSE v

\* Its mode was changed since the last cycle.
Switched2(v) ==
  LET again == [v EXCEPT !.t2Triggered = FALSE]
      c     == Down(v.t2c)
  IN  IF v.acr.countPB6 THEN [again EXCEPT !.t2c = c, !.t2TimedOut = c = 0]
      ELSE IF v.t2c = 0 THEN SetInterrupt(again, "T2") ELSE again

\* It counts edges of PB6, or cycles.  The edge is looked for in bit 0.
NegativeEdge(old, new) == new = 0 /\ old = 1
CountedPB6(v, pb6) ==
  IF ~NegativeEdge(v.pb6Old, pb6) THEN v
  ELSE [v EXCEPT !.t2c = Down(@), !.t2TimedOut = Down(v.t2c) = 0]

CountedCycle(v) ==
  LET c       == Down(v.t2c)
      counted == [v EXCEPT !.t2c = c, !.t2TimedOut = c = 0]
      again   == IF v.t2TimedOutCount = 3 THEN 3 ELSE v.t2TimedOutCount + 1
      rolled  == [counted EXCEPT !.t2TimedOutCount = again]
  IN  IF Low(c) # ByteMax - 1 THEN counted
      ELSE IF ~ShiftByTimer2(v) \/ again <= 1 THEN rolled
      ELSE [Clocked(rolled) EXCEPT !.t2c = Joined(High(c), v.t2Latch), !.t2TimedOut = FALSE]

Counted2(v, pb6) ==
  IF v.acr.countPB6 # v.countPB6Old THEN Switched2(v)
  ELSE IF v.t2Reload THEN [v EXCEPT !.t2Reload = FALSE]
  ELSE IF v.acr.countPB6 THEN CountedPB6(v, pb6) ELSE CountedCycle(v)

\* The interrupt is set once for each load.
Triggered2(v) ==
  IF v.t2TimedOut /\ ~v.t2Triggered
  THEN SetInterrupt([v EXCEPT !.t2Triggered = TRUE], "T2") ELSE v

Timer2(v, pb6) ==
  LET restarted == Restarted2([v EXCEPT !.shiftEdge = FALSE])
      counted   == IF v.t2CountingDown THEN Triggered2(Counted2(restarted, pb6)) ELSE restarted
  IN  [counted EXCEPT !.pb6Old = pb6, !.countPB6Old = v.acr.countPB6]

\* The shift register; edge is the clock's edge of the last cycle.  Modes 3 and
\* 7 shift on edges of CB1, which has none.
ShiftRegister(v, edge) ==
  LET shifts == /\ v.bitsShifted < 8
                /\ \/ v.acr.shift \in {1, 5} /\ v.t2TimedOutCount > 2 /\ edge
                   \/ v.acr.shift \in {2, 6}
      moved  == [v EXCEPT !.bitsShifted = @ + 1,
                          !.shiftClock = IF v.acr.shift \in {2, 6} THEN ~@ ELSE @]
  IN  IF ~shifts THEN v
      ELSE IF moved.bitsShifted = 8 THEN SetInterrupt(moved, "SR") ELSE moved

Execute(v, pb6) == ShiftRegister(Timer2(Timer1(v), pb6), v.shiftEdge)

-----------------------------------------------------------------------------
(* Read and Write *)

AccessSR(v) ==
  ClearInterrupt([v EXCEPT !.bitsShifted = IF "SR" \in v.ifr THEN 0 ELSE @], {"SR"})

Read(v, reg) ==
  CASE reg = "ORA"  -> ClearInterrupt(v, {"CA1"})
    [] reg = "T1CL" -> ClearInterrupt(v, {"T1"})
    [] reg = "T2CL" -> ClearInterrupt(v, {"T2"})
    [] reg = "SR"   -> AccessSR(v)

WriteORA(v) == ClearInterrupt(v, {"CA1"})
WriteSR(v)  == [AccessSR(v) EXCEPT !.shiftClock = TRUE, !.shiftEdge = FALSE]

WriteT1CH(v, value) ==
  LET w == Joined(value, Low(v.t1l))
  IN  ClearInterrupt([v EXCEPT
        !.t1l = w, !.t1c = w, !.t1Ticking = TRUE, !.t1Reload = TRUE,
        !.t1FreeRunIRQsOn = TRUE, !.t1TimedOut = w = 0,
        !.t1Triggered = @ /\ v.acr.freeRun], {"T1"})

WriteT1LH(v, value) ==
  ClearInterrupt([v EXCEPT
    !.t1l = Joined(value, Low(@)),
    !.t1FreeRunIRQsOn = @ /\ "T1" \in v.ier], {"T1"})

WriteT2CH(v, value) ==
  ClearInterrupt([v EXCEPT
    !.t2c = Joined(value, v.t2Latch), !.t2Reload = TRUE, !.t2TimedOutCount = 0,
    !.t2TimedOut = FALSE, !.t2CountingDown = TRUE, !.t2Triggered = FALSE], {"T2"})

WriteTimer(v, reg, value) ==
  CASE reg = "T1LL" -> [v EXCEPT !.t1l = Joined(High(@), value)]    \* and T1CL
    [] reg = "T1CH" -> WriteT1CH(v, value)
    [] reg = "T1LH" -> WriteT1LH(v, value)
    [] reg = "T2LL" -> [v EXCEPT !.t2Latch = value]
    [] reg = "T2CH" -> WriteT2CH(v, value)

WriteACR(v, mode) == [v EXCEPT !.acr = mode]
WriteFCR(v, positive) == [v EXCEPT !.positive = positive]

\* Bit 7 tells whether the other bits are set or cleared.
WriteIER(v, bits) ==
  OutputIRQ([v EXCEPT !.ier = IF Bit7 \in bits THEN @ \union (bits \ {Bit7}) ELSE @ \ bits])

\* Bit 7 of the value clears bit 7 of IFR, too, before OutputIRQ looks at it.
WriteIFR(v, bits) ==
  LET plain == [v EXCEPT !.irq = @ /\ Bit7 \notin bits]
  IN  IF v.irq /\ Bit7 \in bits THEN OutputIRQ([plain EXCEPT !.ifr = @ \ bits])
      ELSE ClearInterrupt(v, bits)
=============================================================================
