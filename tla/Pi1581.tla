------------------------------- MODULE Pi1581 -------------------------------
(***************************************************************************)
(* The board of the emulated 1581 (Pi1581.cpp): the disk controller, the   *)
(* 8520 with its interrupt, the motor and its ready line, and the fast     *)
(* serial lines.  Emulate1581 runs it a cycle at a time: the bus comes in, *)
(* the processor makes at most one access, and Update follows.             *)
(***************************************************************************)
EXTENDS Wd177x

CONSTANTS
  ByteMax, Bits,
  MotorDelay,       \* 250000: the cycles from the motor's start to the ready line
  TimerWrites,      \* the timer registers and bytes written
  ControlA, ControlB, MaskWrites   \* and what to CRA, CRB and ICR

m8520 == INSTANCE M8520

ASSUME BoardAssumption ==
  /\ ByteMax \in Nat \ {0} /\ Bits \in Nat \ {0} /\ MotorDelay \in Nat \ {0}
  /\ TimerWrites \subseteq {"TALO", "TAHI", "TBLO", "TBHI"} \X m8520!Byte
  /\ MaskWrites \subseteq SUBSET (m8520!Flags \union {m8520!SET})
  /\ ControlA \subseteq [start : BOOLEAN, oneShot : BOOLEAN, load : BOOLEAN,
                         mode : m8520!ModesA, output : BOOLEAN]
  /\ ControlB \subseteq [start : BOOLEAN, oneShot : BOOLEAN, load : BOOLEAN, mode : m8520!ModesB]

VARIABLES
  CIA,     \* the 8520
  port,    \* its port A: the motor's bit, and the motor and ready line it governs
  turn,    \* the processor's, or the board's
  uses     \* a bound: what the program uses, the disk controller, both timers of
           \* the 8520, timer A with the serial port and ATN, or port A

boardVars == <<CIA, port, turn, uses>>
allVars == <<fdc, disks, image, prog, CIA, port, turn, uses>>

\* Pi1581::Reset: turning the port to inputs starts the motor and its delay, and
\* the reset of the disk controller after it stops the motor.
BoardInit ==
  /\ Init
  /\ CIA = m8520!Reset
  /\ port = [out |-> FALSE, dir |-> FALSE, motor |-> FALSE, delay |-> MotorDelay, ready |-> FALSE]
  /\ turn = "cpu" /\ uses \in {"disk", "timers", "serial", "port"}

-----------------------------------------------------------------------------
Access(new) == /\ turn = "cpu" /\ turn' = "update" /\ uses # "disk"
               /\ CIA' = new /\ UNCHANGED <<fdc, disks, image, prog, port, uses>>

ReadICR  == uses # "port" /\ Access(m8520!ReadICR(CIA))
WriteSDR == uses = "serial" /\ Access(m8520!WriteSDR(CIA))
WriteTimers ==
  \E w \in TimerWrites :
    /\ uses = "timers" \/ (uses = "serial" /\ w[1] \in {"TALO", "TAHI"})
    /\ Access(m8520!WriteTimer(CIA, w[1], w[2]))
WriteControl ==
  \/ \E w \in ControlA : /\ uses = "serial" \/ (uses = "timers" /\ ~w.output)
                         /\ Access(m8520!WriteCRA(CIA, w))
  \/ uses = "timers" /\ \E w \in ControlB : Access(m8520!WriteCRB(CIA, w))
WriteMasks ==
  uses # "port" /\ \E bits \in MaskWrites : Access(m8520!WriteICR(CIA, bits))
NoAccess == Access(CIA)

\* CIAPortA_OnPortOut, of the register and its direction; the motor is active low.
PortA(p) ==
  IF ~(p.out /\ p.dir)
  THEN IF p.motor THEN p
       ELSE [p EXCEPT !.motor = TRUE, !.delay = MotorDelay, !.ready = FALSE]
  ELSE [p EXCEPT !.motor = FALSE, !.delay = 0, !.ready = FALSE]
\* The motor's start shows in the controller's status, and the side is set.
WritePortA ==
  /\ turn = "cpu" /\ turn' = "update" /\ uses = "port"
  /\ \E motor \in BOOLEAN, side \in Sides :
       /\ port' \in {PortA([port EXCEPT !.out = motor]),
                     PortA([port EXCEPT !.dir = motor])}
       /\ fdc' = [fdc EXCEPT !.side = side,
                    !.status = IF port'.motor = port.motor THEN @
                               ELSE IF port'.motor THEN @ \union {"motor", "spinup"}
                               ELSE @ \ {"motor", "spinup"}]
  /\ UNCHANGED <<disks, image, prog, CIA, uses>>

\* ReadEmulationMode1581: ATN changes.
Attention ==
  /\ turn = "cpu" /\ uses = "serial"
  /\ CIA' = m8520!SetPinFLAG(CIA, ~CIA.flagPin)
  /\ UNCHANGED <<fdc, disks, image, prog, port, turn, uses>>

\* Update; the disk controller's four cycles are the steps of Wd177x.
Ready(p) == [p EXCEPT !.delay = IF @ > 0 THEN @ - 1 ELSE 0, !.ready = @ \/ p.delay = 1]
Update ==
  /\ turn = "update" /\ turn' = "cpu"
  /\ port' = IF uses = "port" THEN Ready(port) ELSE port
  /\ LET executed == m8520!Execute(CIA)
     IN  \/ CIA' = executed                                        \* fast serial out
         \/ uses = "serial" /\ \E srq \in BOOLEAN : CIA' = m8520!SetPinCNT(executed, srq)   \* or in
  /\ UNCHANGED <<fdc, disks, image, prog, uses>>

Controller == uses = "disk" /\ Next /\ UNCHANGED boardVars

BoardNext == \/ Controller \/ ReadICR \/ WriteSDR \/ WriteTimers \/ WriteControl \/ WriteMasks
             \/ NoAccess \/ WritePortA \/ Attention \/ Update

BoardSpec == BoardInit /\ [][BoardNext]_allVars /\ Clocked

-----------------------------------------------------------------------------
(* Properties *)

BoardTypeOK == /\ TypeOK
               /\ CIA \in m8520!CiaRecords /\ turn \in {"cpu", "update"}
               /\ port.delay \in 0 .. MotorDelay

\* The processor's interrupt line is asserted as long as a flag is set that is
\* enabled, whatever sets, enables, disables or reads flags in one cycle
\* (m8520.h 187-225).
InterruptFollowsFlags == CIA.irq <=> CIA.mask \intersect CIA.data # {}

\* Timer A, counting cycles, keeps what CountdownTimer promises, and timer B does,
\* counting cycles or timer A's underflows: written, started, stopped or loaded in
\* any cycle, they interrupt in exactly the cycle they should (m8520.cpp 161-344).
DueA == turn = "update" /\ m8520!PulseA(CIA)
DueB == turn = "update" /\ m8520!PulsesB(CIA)
CountdownLeft(t, due) == t.counter + IF t.active /\ t.reloaded /\ due THEN 2 ELSE 1
A == INSTANCE CountdownTimer WITH
       left <- CountdownLeft(CIA.a, DueA), latch <- CIA.a.latch, repeats <- ~CIA.a.oneShot,
       running <- CIA.a.active, raised <- "TA" \in CIA.data, due <- DueA
B == INSTANCE CountdownTimer WITH
       left <- CountdownLeft(CIA.b, DueB), latch <- CIA.b.latch, repeats <- ~CIA.b.oneShot,
       running <- CIA.b.active, raised <- "TB" \in CIA.data, due <- DueB
TimersKeepPromise == A!CountdownSpec /\ B!CountdownSpec
=============================================================================
