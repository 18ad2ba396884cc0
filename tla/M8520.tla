------------------------------- MODULE M8520 --------------------------------
(***************************************************************************)
(* The 8520 of the emulated 1581: m8520.cpp and m8520.h as functions on    *)
(* its state, a record c.  The contents of the ports and of the serial     *)
(* register are left out, the serial port's count and clock are kept; the  *)
(* time of day is left out, since nothing ever clocks its pin.             *)
(***************************************************************************)
EXTENDS Integers

CONSTANTS
  ByteMax,   \* the greatest byte, 255
  Bits       \* of a byte on the serial port, 8

Byte    == 0 .. ByteMax
Base    == ByteMax + 1
Word    == 0 .. Base * Base - 1
Low(w)  == w % Base
High(w) == w \div Base
Joined(h, l) == h * Base + l
Down(w) == (w + Base * Base - 1) % (Base * Base)    \* unsigned short

\* The bits of ICRData and ICRMask; bit 7 of ICRData is the field irq.
Flags  == {"TA", "TB", "SDR", "FLG"}
SET    == "SET"
ModesA == {"PHI2", "CNT_PVE"}
ModesB == ModesA \union {"TA_UNDERFLOW", "TA_UNDERFLOW_CNT_PVE"}

Timers(modes) == [counter : Word, latch : Word, active : BOOLEAN, oneShot : BOOLEAN,
                  mode : modes, reloaded : BOOLEAN]
CiaRecords ==
  [mask : SUBSET Flags, data : SUBSET Flags, irq : BOOLEAN,
   flagPin : BOOLEAN, cnt : BOOLEAN, cntOld : BOOLEAN,
   output : BOOLEAN, bits : 0 .. Bits, a : Timers(ModesA), b : Timers(ModesB)]

Stopped == [counter |-> 0, latch |-> Base * Base - 1, active |-> FALSE, oneShot |-> FALSE,
            mode |-> "PHI2", reloaded |-> FALSE]
Reset == [mask |-> {}, data |-> {}, irq |-> FALSE, flagPin |-> TRUE, cnt |-> FALSE,
          cntOld |-> FALSE, output |-> FALSE, bits |-> Bits, a |-> Stopped, b |-> Stopped]

-----------------------------------------------------------------------------
(* Interrupts *)

OutputIRQ(c) == [c EXCEPT !.irq = c.mask \intersect c.data # {}]

SetInterrupt(c, flag) == OutputIRQ([c EXCEPT !.data = @ \union {flag}])

\* The pin is active low.
SetPinFLAG(c, value) ==
  LET new == IF c.flagPin /\ ~value THEN SetInterrupt(c, "FLG") ELSE c
  IN  [new EXCEPT !.flagPin = value]

\* The serial port's clock comes in.  A byte that is complete leaves the count at
\* its end, where it stays until the port's direction is changed.
SetPinCNT(c, value) ==
  LET shifts  == ~c.cnt /\ value /\ c.bits < Bits
      shifted == [c EXCEPT !.bits = @ + 1]
      new     == IF ~shifts THEN c
                 ELSE IF shifted.bits = Bits THEN SetInterrupt(shifted, "SDR") ELSE shifted
  IN  IF c.output THEN c ELSE [new EXCEPT !.cnt = value]

-----------------------------------------------------------------------------
(* A cycle: Execute *)

Counts(t)     == t.active /\ ~t.reloaded
TimesOut(t)   == Counts(t) /\ t.counter = 0
\* The cycle after it is loaded is not counted.
Reload(t)     == [t EXCEPT !.counter = t.latch, !.reloaded = TRUE]
Underflown(t) == [Reload(t) EXCEPT !.active = ~t.oneShot]
\* (CountedOnly does not stop a timer in one-shot mode.)
CountedOnly(t) == IF TimesOut(t) THEN Reload(t)
                  ELSE IF Counts(t) THEN [t EXCEPT !.counter = Down(@)] ELSE t
Counted(t) == IF TimesOut(t) THEN Underflown(t)
              ELSE IF Counts(t) THEN [t EXCEPT !.counter = Down(@)] ELSE t

\* Rising edges of CNT are looked for only while CNT is an output.
Edge(c) == c.output /\ c.cnt /\ ~c.cntOld
PulseA(c) == c.a.mode = "PHI2" \/ Edge(c)
UnderflowA(c) == PulseA(c) /\ TimesOut(c.a)
PulseB(c, underflow) ==
  CASE c.b.mode = "PHI2"         -> TRUE
    [] c.b.mode = "CNT_PVE"      -> Edge(c)
    [] c.b.mode = "TA_UNDERFLOW" -> underflow
    [] OTHER                     -> underflow /\ c.output /\ c.cnt

\* Each underflow of timer A, running on, turns CNT; a bit goes out as CNT falls.
ShiftOut(c) ==
  LET falls   == [c EXCEPT !.cnt = FALSE, !.bits = @ + 1]
  IN  IF ~c.output THEN c
      ELSE IF c.bits >= Bits \/ ~c.cnt THEN [c EXCEPT !.cnt = TRUE]
      ELSE IF falls.bits = Bits THEN SetInterrupt(falls, "SDR") ELSE falls

TimerA(c) ==
  LET counted == [c EXCEPT !.a = IF PulseA(c) THEN Counted(@) ELSE @]
      flagged == SetInterrupt(counted, "TA")
  IN  IF ~UnderflowA(c) THEN counted
      ELSE IF c.a.oneShot THEN flagged ELSE ShiftOut(flagged)

PulsesB(c) == PulseB(TimerA(c), UnderflowA(c))
TimerB(c, underflow) ==
  LET counted == [c EXCEPT !.b = IF PulseB(c, underflow) THEN Counted(@) ELSE @]
  IN  IF PulseB(c, underflow) /\ TimesOut(c.b) THEN SetInterrupt(counted, "TB") ELSE counted

Execute(c) ==
  LET both == TimerB(TimerA(c), UnderflowA(c))
  IN  [both EXCEPT !.cntOld = both.cnt, !.a.reloaded = FALSE, !.b.reloaded = FALSE]

-----------------------------------------------------------------------------
(* Read and Write *)

\* The interrupt register is cleared as it is read.
ReadICR(c) == [c EXCEPT !.data = {}, !.irq = FALSE]

\* Both halves of timer A's latch are joined with the other half of timer B's.
WriteTimer(c, reg, value) ==
  CASE reg = "TALO" -> [c EXCEPT !.a.latch = Joined(High(c.b.latch), value)]
    [] reg = "TAHI" ->
         LET a == [c.a EXCEPT !.latch = Joined(value, Low(c.b.latch))]
         IN  [c EXCEPT !.a = IF a.active THEN a ELSE Reload(a)]
    [] reg = "TBLO" -> [c EXCEPT !.b.latch = Joined(High(@), value)]
    [] reg = "TBHI" ->
         LET b == [c.b EXCEPT !.latch = Joined(value, Low(@))]
         IN  [c EXCEPT !.b = IF b.active THEN b ELSE Reload(b)]

WriteSDR(c) == [c EXCEPT !.bits = IF c.output THEN 0 ELSE @]

\* (WriteMask forgets the line to the processor.)
NewMask(c, bits) == IF SET \in bits THEN c.mask \union (bits \ {SET}) ELSE c.mask \ bits
WriteMask(c, bits) == [c EXCEPT !.mask = NewMask(c, bits)]
WriteICR(c, bits)  == OutputIRQ([c EXCEPT !.mask = NewMask(c, bits)])

\* What is written to a control register: start, one-shot, load, mode, SPMODE.
Set(t, w) == [t EXCEPT !.active = w.start, !.oneShot = w.oneShot, !.mode = w.mode]

\* Timer A is loaded, too, when it is put into one-shot mode.
WriteCRA(c, w) ==
  LET a == IF w.load \/ (w.oneShot /\ ~c.a.oneShot) THEN Reload(c.a) ELSE c.a
      bits == IF w.output = c.output THEN c.bits ELSE IF w.output THEN Bits ELSE 0
  IN  [c EXCEPT !.a = Set(a, w), !.output = w.output, !.bits = bits]
WriteCRB(c, w) ==
  [c EXCEPT !.b = Set(IF w.load THEN Reload(c.b) ELSE c.b, w)]
=============================================================================
