------------------------------ MODULE BusLines -------------------------------
(***************************************************************************)
(* The serial bus while a 1541 is emulated (iec_bus.cpp, IOPort.h): port B *)
(* of its first 6522, the gate UD3 that answers ATN, and the pins of the   *)
(* Pi, as functions on a record b.  A line is in the set of those pulled   *)
(* low, a pin in the set of those that are set; the reset line and the     *)
(* pins of the device number are left out.                                 *)
(***************************************************************************)
EXTENDS FiniteSets

Lines   == {"ATN", "DATA", "CLOCK"}
OutPins == {"DATAOUT", "CLOCKOUT", "ATNAOUT"}
InPins  == {"DATAIN", "CLOCKIN", "ATNIN"}

BusRecords ==
  [afterStep : BOOLEAN,                        \* refreshOutsAfterCPUStep
   stateOut : SUBSET OutPins, direction : SUBSET OutPins, stateIn : SUBSET InPins,
   VIA_Atna : BOOLEAN, PI_Atn : BOOLEAN,
   AtnaDataSetToOut : BOOLEAN, DataSetToOut : BOOLEAN, ClockSetToOut : BOOLEAN,
   outs : SUBSET Lines,      \* the lines the Pi pulls
   others : SUBSET Lines,    \* and those the computer and other drives pull
   sampled : SUBSET Lines,   \* history: the lines that were low as they came in,
   written : BOOLEAN]        \* and that port B was written in this cycle

\* IEC_Bus::Reset, with nobody on the bus.
BusReset(afterStep) ==
  [afterStep |-> afterStep, stateOut |-> {}, direction |-> {}, stateIn |-> {},
   VIA_Atna |-> FALSE, PI_Atn |-> FALSE,
   AtnaDataSetToOut |-> FALSE, DataSetToOut |-> FALSE, ClockSetToOut |-> FALSE,
   outs |-> {}, others |-> {}, sampled |-> {}, written |-> FALSE]

Gate(atna, atn) == atna # atn    \* an exclusive or

\* PortB_OnPortOut, with the pins that are outputs; of the others DATA and CLOCK read as
\* asserted.
PortB_OnPortOut(b) ==
  LET status == b.stateOut \intersect b.direction
      Out(pin) == pin \in status \/ pin \notin b.direction
  IN  [b EXCEPT !.VIA_Atna = "ATNAOUT" \in status,
                !.AtnaDataSetToOut = Gate("ATNAOUT" \in status, b.PI_Atn),
                !.DataSetToOut = Out("DATAOUT"), !.ClockSetToOut = Out("CLOCKOUT"),
                !.written = TRUE]

SetOutput(b, pins)    == PortB_OnPortOut([b EXCEPT !.stateOut = pins])
SetDirection(b, pins) == PortB_OnPortOut([b EXCEPT !.direction = pins])

\* RefreshOuts1541.
RefreshOuts(b) ==
  [b EXCEPT !.outs = {line \in {"DATA", "CLOCK"} :
                        \/ line = "DATA" /\ (b.AtnaDataSetToOut \/ b.DataSetToOut)
                        \/ line = "CLOCK" /\ b.ClockSetToOut}]

Pulled(b, line) == line \in b.others \union b.outs

\* ReadEmulationMode1541: the gate follows ATN if its
\* other input is an output, and does not pull if it is an input; a line that the
\* drive itself pulls is not looked at.
\* (GateIdle lets the gate wait for the program.)
GateIdle(b, atn) == "ATNAOUT" \in b.direction /\ b.AtnaDataSetToOut
GateRead(b, atn) ==
  /\ "ATNAOUT" \in b.direction
  /\ IF b.PI_Atn # atn THEN Gate(b.VIA_Atna, atn) ELSE b.AtnaDataSetToOut

ReadEmulationMode(b) ==
  LET atn   == Pulled(b, "ATN")
      atna  == GateRead(b, atn)
      In(pin) == CASE pin = "ATNIN"   -> atn
                   [] pin = "DATAIN"  -> atna \/ b.DataSetToOut \/ Pulled(b, "DATA")
                   [] pin = "CLOCKIN" -> b.ClockSetToOut \/ Pulled(b, "CLOCK")
  IN  [b EXCEPT !.PI_Atn = atn, !.AtnaDataSetToOut = atna,
                !.stateIn = {pin \in InPins : In(pin)},
                !.sampled = b.others \union b.outs, !.written = FALSE]

\* A cycle of the emulation loop after the processor's step, and before the next
\* one with what the others on the bus have done by then.
AfterStep(b) == IF b.afterStep THEN RefreshOuts(b) ELSE b
NextCycle(b, others) ==
  LET read == ReadEmulationMode([b EXCEPT !.others = others])
  IN  IF b.afterStep THEN read ELSE RefreshOuts(read)

-----------------------------------------------------------------------------
(* Properties *)

\* What the gates of the drive make of port B and ATN.  A pin that is an input
\* counts as set.
PullsData(b) ==
  \/ "DATAOUT" \in b.direction => "DATAOUT" \in b.stateOut
  \/ "ATNAOUT" \in b.direction /\ Gate("ATNAOUT" \in b.stateOut, b.PI_Atn)
PullsClock(b) == "CLOCKOUT" \in b.direction => "CLOCKOUT" \in b.stateOut

\* The lines the Pi pulls are those, as soon as it has refreshed them; but a gate
\* with an input for an output pulls DATA in a cycle in which port B is written.
OutsFollowPort(b) ==
  /\ "CLOCK" \in b.outs <=> PullsClock(b)
  /\ PullsData(b) => "DATA" \in b.outs
  /\ "DATA" \in b.outs =>
       \/ PullsData(b)
       \/ b.written /\ b.PI_Atn /\ "ATNAOUT" \notin b.direction

\* Port B shows the lines: none that others pull is missed, and one that shows
\* though nobody else pulls it is pulled by the drive, or was as the lines came in.
PortShowsLines(b) ==
  /\ "ATNIN" \in b.stateIn <=> "ATN" \in b.others
  /\ "CLOCKIN" \in b.stateIn <=> "CLOCK" \in b.sampled \/ PullsClock(b)
  /\ "DATAIN" \in b.stateIn <=> "DATA" \in b.sampled \/ PullsData(b)
=============================================================================
