------------------------------- MODULE Pi1541 -------------------------------
(***************************************************************************)
(* The emulated 1541: Pi1541.cpp, the Interrupt class of m6502.h, the two  *)
(* 6522s, the bus and the drive.  VIA 0 serves the bus, VIA 1 the drive;    *)
(* both drive the one line to the processor.  Emulate1541 runs a cycle at  *)
(* a time: the lines of the bus come in, the processor makes at most one   *)
(* access, lines go out, and the drive and both 6522s are brought up to    *)
(* date.                                                                   *)
(***************************************************************************)
EXTENDS Via6522, Drive, BusLines

CONSTANTS
  Programs,     \* what a program may use: timer 1 and CA1, timer 2 and the shift
                \* register, port B and CA1 of VIA 0, or the drive
  TimerWrites,  \* the timer registers and bytes written
  ModeWrites, EdgeWrites, EnableWrites, FlagWrites,   \* and what to ACR, FCR, IER, IFR
  RegisterReads, PB6Inputs,
  PortWrites,   \* to VIA 0's port B: the register or the direction, and the pins set
  Moves,        \* the lines of the bus that others change in a cycle, together
  AfterSteps,   \* refreshOutsAfterCPUStep, FALSE for a few disks
  DriveWrites,  \* the step, the motor and the density written to VIA 1's port B
  DataWrites,   \* and the bytes to its port A
  DriveModes,   \* whether it writes and lets out that a byte is ready
  MaxUses,      \* bounds: how often the program or the user touches the drive,
  Places        \* and the bits over which the head of a turning drive may be then

ASSUME Pi1541Assumption ==
  /\ Programs \subseteq {"timer 1", "timer 2", "port", "drive"}
  /\ TimerWrites \subseteq {"T1LL", "T1CH", "T1LH", "T2LL", "T2CH"} \X Byte
  /\ ModeWrites \subseteq Modes /\ EdgeWrites \subseteq BOOLEAN
  /\ EnableWrites \subseteq SUBSET (Flags \union {Bit7})
  /\ FlagWrites \subseteq SUBSET (Flags \union {Bit7})
  /\ RegisterReads \subseteq {"ORA", "T1CL", "T2CL", "SR"}
  /\ PB6Inputs \subseteq Inputs
  /\ PortWrites \subseteq {"ORB", "DDRB"} \X SUBSET OutPins
  /\ Moves \subseteq SUBSET Lines /\ AfterSteps \subseteq BOOLEAN
  /\ DriveWrites \subseteq Steps \X BOOLEAN \X Zones /\ DataWrites \subseteq Bytes
  /\ DriveModes \subseteq BOOLEAN \X BOOLEAN /\ Places \subseteq Nat
  /\ MaxUses \in Nat

Vias == {0, 1}

VARIABLES
  VIA,        \* the two 6522s
  asserted,   \* m6502.IRQ
  turn,       \* the processor's, or the hardware's
  program,    \* a bound: what the program uses; these share nothing but IFR and IER
  bus,
  drive,
  overflow,   \* the processor's V flag, set by a byte that is ready
  uses,
  passed,     \* history: what went by under the head,
  sensor      \* and what the write protect sensor showed since a disk was put in

vars == <<VIA, asserted, turn, program, bus, drive, overflow, uses, passed, sensor>>

\* Nothing is known since the drive was disturbed.
Unknown == [fresh |-> "no", bits |-> <<>>, count |-> -1, ready |-> 0,
            loaded |-> FALSE, byte |-> Zeros(ByteBits), written |-> 0]
PassedRecords ==
  [fresh : {"no", "one", "yes"}, bits : Seq(Bit), count : Int, ready : Nat,
   loaded : BOOLEAN, byte : Bytes, written : 0 .. ByteBits]

TypeOK == /\ VIA \in [Vias -> ViaRecords]
          /\ asserted \in BOOLEAN /\ turn \in {"cpu", "update"}
          /\ program \in Programs /\ bus \in BusRecords
          /\ DriveTypeOK(drive) /\ overflow \in BOOLEAN /\ uses \in 0 .. MaxUses

Init == /\ VIA = [i \in Vias |-> IF i = 1 THEN InputCA1(Reset, TRUE) ELSE Reset]
        /\ asserted = FALSE /\ turn = "cpu"
        /\ program \in Programs
        /\ \E afterStep \in AfterSteps :
             /\ bus = BusReset(afterStep)
             /\ afterStep \/ program = "port"
        /\ drive = DriveReset(First)
        /\ overflow = FALSE /\ uses = 0 /\ passed = Unknown /\ sensor = <<>>

\* Assert and Release, as bit 7 of IFR changes.  (Ignored forgets to release.)
LineIgnored(line, old, new) == line \/ (new.irq /\ ~old.irq)
Line(line, old, new) ==
  IF new.irq # old.irq THEN new.irq ELSE line

Changed(i, old, new) ==
  /\ VIA' = [VIA EXCEPT ![i] = new]
  /\ asserted' = Line(asserted, old, new)

-----------------------------------------------------------------------------
(* The processor's turn *)

Accesses  == turn = "cpu" /\ turn' = "update" /\ UNCHANGED program
Uses(parts) == program \in parts
Untouched == UNCHANGED <<drive, overflow, uses, passed, sensor>>
Out       == bus' = AfterStep(bus)    \* a step without port B

Access(i, new) == Accesses /\ Changed(i, VIA[i], new) /\ Out /\ Untouched

Registers == CASE program = "timer 1" -> {"T1LL", "T1CH", "T1LH", "T1CL", "ORA"}
               [] program = "timer 2" -> {"T2LL", "T2CH", "T2CL", "SR"}
               [] OTHER -> {"ORA"}
ModeOf(mode) == CASE program = "timer 1" -> ~mode.countPB6 /\ mode.shift = 0
                  [] program = "timer 2" -> ~mode.freeRun
                  [] OTHER -> FALSE

ReadRegister  == \E reg \in RegisterReads \intersect Registers : Access(0, Read(VIA[0], reg))
WriteOtherORA == Uses({"timer 1", "port"}) /\ Access(0, WriteORA(VIA[0]))
WriteOtherSR  == Uses({"timer 2"}) /\ Access(0, WriteSR(VIA[0]))
WriteTimers ==
  \E w \in TimerWrites : w[1] \in Registers /\ Access(0, WriteTimer(VIA[0], w[1], w[2]))
WriteMode == \E mode \in ModeWrites : ModeOf(mode) /\ Access(0, WriteACR(VIA[0], mode))
WriteEdge ==
  /\ Uses({"timer 1", "port"})
  /\ \E positive \in EdgeWrites : Access(0, WriteFCR(VIA[0], positive))
WriteEnable == ~Uses({"drive"}) /\ \E bits \in EnableWrites : Access(0, WriteIER(VIA[0], bits))
WriteFlags ==
  /\ ~Uses({"drive"}) /\ Accesses /\ Out /\ Untouched
  /\ \E bits \in FlagWrites :
       Changed(0, [VIA[0] EXCEPT !.irq = @ /\ Bit7 \notin bits], WriteIFR(VIA[0], bits))

NoAccess == Accesses /\ UNCHANGED <<VIA, asserted>> /\ Out /\ Untouched

WritePort ==
  /\ Uses({"port"}) /\ Accesses /\ UNCHANGED <<VIA, asserted>> /\ Untouched
  /\ \E w \in PortWrites :
       bus' = AfterStep(IF w[1] = "ORB" THEN SetOutput(bus, w[2]) ELSE SetDirection(bus, w[2]))

\* The drive is given something to do.
Touches == /\ Uses({"drive"}) /\ uses < MaxUses /\ uses' = uses + 1
           /\ drive.motor => drive.headBitOffset \in Places

\* Then what went by is of no use any more.
Disturbs(new) ==
  /\ Touches /\ drive' = new /\ passed' = Unknown /\ UNCHANGED overflow

WriteDrive ==
  /\ Accesses /\ Out
  /\ \E w \in DriveWrites : Disturbs(OnPortOut(drive, w[1], w[2], w[3]))
  /\ UNCHANGED <<VIA, asserted, sensor>>

\* CB2 of VIA 1 tells reading from writing, CA2 lets a byte that is ready out.
WriteDriveMode ==
  /\ Accesses /\ Out
  /\ \E mode \in DriveModes :
       /\ mode # <<drive.writing, drive.soe>>
       /\ Disturbs([drive EXCEPT !.writing = mode[1], !.soe = mode[2]])
  /\ UNCHANGED <<VIA, asserted, sensor>>

\* A byte to write; and the byte that was read, after BVC and CLV.
WriteData ==
  /\ Accesses /\ Out /\ Changed(1, VIA[1], WriteORA(VIA[1]))
  /\ \E byte \in DataWrites \ {drive.out} : drive' = [drive EXCEPT !.out = byte]
  /\ Touches /\ UNCHANGED <<overflow, passed, sensor>>

ReadData ==
  /\ Accesses /\ Out /\ overflow /\ overflow' = FALSE
  /\ Changed(1, VIA[1], Read(VIA[1], "ORA"))
  /\ UNCHANGED <<drive, uses, passed, sensor>>

\* The user puts another disk of the caddy in.
Insert ==
  /\ turn = "cpu"
  /\ \E image \in Images : Disturbs(Inserted(drive, image))
  /\ sensor' = <<>> /\ UNCHANGED <<VIA, asserted, turn, program, bus>>

-----------------------------------------------------------------------------
(* The hardware's turn *)

\* The history of what passes under the head.  It begins with a byte the drive
\* has fetched; the bits after a SYNC are counted, and so are the bytes that
\* were ready; four zeros in a row are noise.
Recorded(p, new, ready) ==
  LET bit   == Track(new)[new.headBitOffset + 1]
      n     == Len(p.bits)
      bits  == Append(IF n = SyncBits THEN Tail(p.bits) ELSE p.bits, bit)
      weak  == Len(bits) > 3 /\ SubSeq(bits, Len(bits) - 3, Len(bits)) = Zeros(4)
      count == IF bits = Ones THEN 0 ELSE IF p.count < 0 THEN -1 ELSE p.count + 1
  IN  IF weak THEN [Unknown EXCEPT !.fresh = "yes"]
      ELSE [p EXCEPT !.fresh = "yes", !.bits = bits, !.count = count,
                     !.ready = IF count < 1 THEN 0 ELSE @ + ready]

Passed(p, old, new) ==
  LET moved == new.headBitOffset # old.headBitOffset
      ready == IF DataReady(old) THEN 1 ELSE 0
      takes == old.UE3 = ByteBits /\ new.UE3 < ByteBits
      step  == IF moved THEN 1 ELSE 0
  IN  IF ~Reads(old) \/ ~InZone(old) THEN p
      ELSE IF old.writing
      THEN IF takes THEN [p EXCEPT !.loaded = TRUE, !.byte = old.out, !.written = step]
           ELSE IF p.loaded THEN [p EXCEPT !.written = @ + step] ELSE p
      ELSE IF ~moved THEN [p EXCEPT !.ready = IF p.count < 1 THEN 0 ELSE @ + ready]
      ELSE IF p.fresh = "no" THEN [p EXCEPT !.fresh = "one"]
      ELSE IF p.fresh = "one" /\ new.headBitOffset % ByteBits # 0 THEN p
      ELSE Recorded(p, new, ready)

\* Pi1541::Update: the drive, and then VIA 1 and VIA 0.  With that the next cycle
\* begins, and the bus comes in; CA1 of VIA 0 is ATN.
PB6 == IF VIA[0].acr.countPB6 THEN PB6Inputs ELSE {0}
Changes == CASE program = "port" -> Moves
             [] program = "timer 1" -> Moves \intersect {{}, {"ATN"}}
             [] OTHER -> {{}}
Update ==
  /\ turn = "update" /\ turn' = "cpu" /\ UNCHANGED program
  /\ \E pb6 \in PB6, first \in FirstNoise, later \in LaterNoise :
       LET new  == Updated(drive, first, later)
           ready1   == InputCA1(VIA[1], ~new.SO)
           executed == [VIA EXCEPT ![0] = Execute(@, pb6), ![1] = Execute(ready1, 0)]
           atDrive  == Line(asserted, VIA[1], ready1)
           updated  == Line(Line(atDrive, ready1, executed[1]), VIA[0], executed[0])
       IN  /\ drive' = new
           /\ \E move \in Changes :
                /\ bus' = NextCycle(bus, (bus.others \ move) \union (move \ bus.others))
                /\ LET atBus == InputCA1(executed[0], bus'.PI_Atn)
                   IN  /\ VIA' = [executed EXCEPT ![0] = atBus]
                       /\ asserted' = Line(updated, executed[0], atBus)
           /\ passed' = Passed(passed, drive, new)
           /\ sensor' = IF drive.swap > 0 /\ (sensor = <<>> \/ sensor[Len(sensor)] # new.PB4)
                        THEN Append(sensor, new.PB4) ELSE sensor
  /\ overflow' = (overflow \/ DataReady(drive))
  /\ UNCHANGED uses

Drives == WriteDrive \/ WriteDriveMode \/ WriteData \/ ReadData \/ Insert

Next == \/ ReadRegister \/ WriteOtherORA \/ WriteOtherSR \/ WriteTimers \/ WriteMode
        \/ WriteEdge \/ WriteEnable \/ WriteFlags \/ WritePort \/ NoAccess
        \/ Drives \/ Update

Spec == Init /\ [][Next]_vars

-----------------------------------------------------------------------------
(* Properties *)

\* The processor sees an interrupt as long as a 6522 has a flag set that is
\* enabled, whatever sets, enables, disables or clears flags in one cycle; while
\* one of them alone is used, and its IFR is not written with bit 7 set
\* (m6522.h 281-316).
LineFollowsFlags ==
  asserted <=> \E i \in Vias : VIA[i].ier \intersect VIA[i].ifr # {}

\* The program and the others on the bus see the same lines: what the program puts
\* on port B is on the bus, the gate answers ATN in the cycle in which it comes,
\* and port B shows what is on the bus, in any order of writes to the port, to its
\* direction, and of changes of the lines (iec_bus.cpp 184-275, 351-432).  A port
\* that was never set up pulls nothing.
BusFollowsPort ==
  bus.direction # {} =>
    /\ turn = (IF bus.afterStep THEN "update" ELSE "cpu") => OutsFollowPort(bus)
    /\ turn = "cpu" => PortShowsLines(bus)

\* While the drive reads at the density of the track, every byte that follows a
\* SYNC is ready once, in its turn, and is the one on the disk in the drive: PB7
\* shows the SYNC, V tells of the byte, and port A has its bits, however the head,
\* the motor, the density, the direction and the disk were changed before, and
\* whatever noise was read (Drive.cpp 459-575, Drive.h 146-161).
Undisturbed == passed.count >= 0 /\ Reads(drive) /\ ~drive.writing /\ InZone(drive)
InSync(k) == drive.UF4 % 4 >= 2 => (~drive.PB7 <=> k = 0)
OnDisk(k) ==    \* the last whole byte of the k bits since the SYNC
  SubSeq(passed.bits, SyncBits - (k % ByteBits) - ByteBits + 1, SyncBits - (k % ByteBits))
ReadyOnce(k) == /\ passed.ready * ByteBits <= k
                /\ k <= (passed.ready + 1) * ByteBits + 2
BytesOfTheTrack ==
  Undisturbed =>
    /\ InSync(passed.count)
    /\ drive.SO /\ passed.count > 0 =>
         passed.count % ByteBits < 2 /\ drive.PA = OnDisk(passed.count)
    /\ drive.soe => ReadyOnce(passed.count)

\* While it writes, the bits that went by under the head are those of the byte
\* the program had put on port A, and a track that is not as it was loaded is
\* marked to be saved (Drive.cpp 542-566, DiskImage.h 103-134, 227-235).
WritesTheByte ==
  /\ passed.loaded =>
       \A n \in 1 .. passed.written :
         LET at == (drive.headBitOffset + Length(drive) - passed.written + n) % Length(drive)
         IN  Track(drive)[at + 1] = passed.byte[n]
  /\ \A i \in Images, t \in Tracks :
       drive.tracks[i][t] # Content[i][t] => <<i, t>> \in drive.dirty

\* However often disks are swapped, a program that watches the write protect
\* sensor sees the one leave, the gap, the other come, and its notch
\* (Drive.cpp 385-390, 451-458).
SwapIsSeen ==
  drive.swap = 0 =>
    sensor = <<FALSE, TRUE, FALSE>> \o (IF drive.image \in ReadOnly THEN <<>> ELSE <<TRUE>>)

\* Timer 1 of VIA 0 keeps what IntervalTimer promises: it interrupts two cycles
\* after it has counted to zero, once, or each time it has counted its latch.
One == VIA[0]
T1First(n) == n + 2
T1Left == IF ~One.t1Ticking THEN -1
          ELSE IF One.t1Reload THEN One.t1c + 2
          ELSE IF One.t1TimedOut THEN 0 ELSE One.t1c + 1
T1 == INSTANCE IntervalTimer WITH
        First <- T1First, HasLatch <- TRUE, left <- T1Left, latch <- One.t1l,
        repeats <- One.acr.freeRun,
        armed <- IF One.acr.freeRun THEN One.t1FreeRunIRQsOn ELSE ~One.t1Triggered,
        raised <- "T1" \in One.ifr

\* So does timer 2, which never runs free: it interrupts once, one cycle after it
\* has counted to zero.  It promises nothing while it is in, or leaves, the mode
\* that counts edges of PB6, or clocks the shift register.
T2First(n) == (IF n = 0 THEN Base * Base ELSE n) + 1
T2Elsewhere == One.acr.countPB6 \/ One.countPB6Old \/ ShiftByTimer2(One)
T2Left == IF T2Elsewhere THEN -2
          ELSE IF ~One.t2CountingDown \/ One.t2Triggered THEN -1
          ELSE IF One.t2Reload THEN T2First(One.t2c) ELSE T2First(One.t2c) - 1
T2 == INSTANCE IntervalTimer WITH
        First <- T2First, HasLatch <- FALSE, left <- T2Left,
        latch <- One.t2c, repeats <- FALSE, armed <- ~One.t2Triggered,
        raised <- "T2" \in One.ifr

TimersKeepPromise == T1!TimerSpec /\ T2!TimerSpec
=============================================================================
