----------------------------- MODULE IecSerial ------------------------------
(***************************************************************************)
(* The lines of the serial bus while the drive browses: how                *)
(* ReadIECSerialPort and WriteIECSerialPort exchange one byte with the     *)
(* computer bit by bit, and how SimulateIECUpdate answers ATN, turns the   *)
(* bus around and lets go of it.  IecCommands takes a byte as one step;    *)
(* here the step is shown to be what the lines do.                         *)
(*                                                                         *)
(* A line is pulled (TRUE) when either end pulls it.  Time passes in ticks *)
(* of TickLength microseconds.  The drive polls in about a microsecond, so *)
(* time does not pass while it can go on; the computer looks at the lines  *)
(* or changes them at intervals of 1 to Reaction ticks, and a change it    *)
(* does not look at in time is lost to it.                                 *)
(***************************************************************************)
EXTENDS Naturals, Sequences

CONSTANTS
  Bits,         \* bits of a byte, 8 in the code
  TickLength,   \* microseconds of a tick
  Reaction,     \* [usingVIC20 -> the most ticks between two looks of the computer]
  MaxBytes,     \* bound on the bytes the drive has to say
  PresentWait   \* ticks the computer gives a device to answer ATN

Ticks(us) == us \div TickLength

\* The drive shows a bit for 34 microseconds to a VIC-20 and for 75 to a C64 and lets
\* 50 pass between two bytes (iec_commands.cpp 334, 335, 307), which is enough only for a
\* computer that looks more often; and it may be 73 microseconds in an answer to EOI
\* before it can see ATN (369), which the computer must allow for.
ASSUME SerialAssumption ==
  /\ Bits \in Nat \ {0, 1} /\ TickLength \in Nat \ {0} /\ MaxBytes \in Nat \ {0}
  /\ PresentWait \in Nat \ {0}
  /\ DOMAIN Reaction \subseteq BOOLEAN /\ DOMAIN Reaction # {}
  /\ \A v \in DOMAIN Reaction : Reaction[v] \in Nat \ {0}
  /\ \A v \in DOMAIN Reaction : Reaction[v] < Ticks(IF v THEN 34 ELSE 50)
  /\ PresentWait > Ticks(73)

Byte   == [1 .. Bits -> BOOLEAN]
Items  == [byte : Byte, eoi : BOOLEAN]
NoItem == [byte |-> <<>>, eoi |-> FALSE]

\* The codes told apart here: listen and talk to this drive, a secondary
\* address or a code for all drives, and an address of another drive.
Listen == [i \in 1 .. Bits |-> i = 1]
Talk   == [i \in 1 .. Bits |-> i = 2]
Second == [i \in 1 .. Bits |-> TRUE]
Other  == [i \in 1 .. Bits |-> FALSE]

VARIABLES
  atn,         \* the computer pulls ATN
  host,        \* the computer: where it is, the lines it pulls, the byte it sends
               \* or hears, the listen or talk it sent since it pulled ATN
  lag, waited, \* ticks since it looked; ticks it has counted in a wait with a limit
  dev,         \* the drive: where a call waits, ClockSetToOut and DataSetToOut,
               \* atnSequence, deviceRole, receivedEOI, ticks left of WaitMicroSeconds,
               \* the timer, the byte it sends, its bits so far, the bytes left to send
  usingVIC20,
  offer, accepted, taken    \* history: byte offered, has it been taken, byte last taken

history == <<offer, accepted, taken>>
vars == <<atn, host, lag, waited, dev, usingVIC20, history>>

Clock == host.clock \/ dev.clock
Data  == host.data \/ dev.data

HostSends  == {"t_ready", "t_eoi", "t_eoi_ack", "t_set", "t_valid", "t_low", "t_ack"}
HostHears  == {"l_clock", "l_ready", "l_time", "l_eoi", "l_first", "l_bit", "l_bit_end", "l_ack"}
HostPlaces == HostSends \union {"idle", "present", "absent", "t_next", "l_turn", "l_clock", "l_ready",
                                "l_time", "l_eoi", "l_first", "l_bit", "l_bit_end", "l_ack"}
Reading == {"r_clock", "r_data", "r_time", "r_eoi", "r_first", "r_bit", "r_bit_end"}
Writing == {"w_next", "w_start", "w_ready", "w_eoi", "w_eoi_ack", "w_free", "w_set", "w_valid",
            "w_low", "w_release", "w_ack"}

Init ==
  /\ atn = FALSE /\ lag = 0 /\ waited = 0
  /\ host = [at |-> "idle", clock |-> FALSE, data |-> FALSE, byte |-> Other, eoi |-> FALSE,
             bits |-> <<>>, order |-> Other]
  /\ dev = [at |-> "call", clock |-> FALSE, data |-> FALSE, seq |-> "IDLE", role |-> "PASSIVE",
            eoi |-> FALSE, delay |-> 0, count |-> 0, byte |-> Other, bits |-> <<>>, left |-> 0]
  /\ usingVIC20 \in DOMAIN Reaction
  /\ offer = NoItem /\ accepted = FALSE /\ taken = NoItem

phase == IF offer = NoItem THEN "idle" ELSE IF accepted THEN "taken" ELSE "offered"

\* The talker begins, ends or gives up a byte; the listener takes one.
Offers(b, e) == offer' = [byte |-> b, eoi |-> e] /\ accepted' = FALSE /\ UNCHANGED taken
Ends         == offer' = NoItem /\ accepted' = FALSE /\ UNCHANGED taken
Takes(b, e)  == taken' = [byte |-> b, eoi |-> e] /\ accepted' = TRUE /\ UNCHANGED offer

-----------------------------------------------------------------------------
(* The drive *)

\* What each wait waits for: WaitWhile, the timer, WaitWhileAtnAsserted, a new call.
Seen == [p \in Reading \union Writing \union {"call", "clock", "release"} |->
   CASE p \in {"clock", "r_first", "r_bit_end"} -> Clock
     [] p \in {"r_clock", "r_bit"} -> ~Clock
     [] p \in {"r_data", "w_ready", "w_eoi_ack", "w_free"} -> ~Data
     [] p \in {"w_eoi", "w_ack"} -> Data
     [] p = "r_time" -> Clock \/ dev.count = Ticks(200)
     [] p = "release" -> ~atn
     [] p = "call" -> dev.seq # "IDLE" \/ atn
     [] OTHER -> TRUE]

\* CheckATN: a code is received while ATN lasts, ATN ends every other transfer.
Polls == (Reading \ {"r_eoi"}) \union {"w_ready", "w_eoi", "w_eoi_ack", "w_free", "w_ack"}
CheckATN == dev.at \in Polls /\ atn # (dev.seq = "RECEIVE")

Ready == dev.delay = 0 /\ (Seen[dev.at] \/ CheckATN)
At(p) == dev.at = p /\ dev.delay = 0 /\ Seen[p] /\ ~CheckATN

Quiet == UNCHANGED history
Goes(p) == dev' = [dev EXCEPT !.at = p] /\ Quiet

\* The cases of SimulateIECUpdate.
Idle == At("call") /\ dev.seq = "IDLE" /\ dev' = [dev EXCEPT !.seq = "ATN"] /\ Quiet

AttentionDeaf ==
  /\ At("call") /\ dev.seq = "ATN" /\ Quiet
  /\ dev' = [dev EXCEPT !.at = "clock", !.clock = FALSE, !.seq = "RECEIVE",
                        !.role = "PASSIVE", !.eoi = FALSE]
Attention ==
  /\ At("call") /\ dev.seq = "ATN" /\ Quiet
  /\ dev' = [dev EXCEPT !.at = "clock", !.clock = FALSE, !.data = TRUE, !.seq = "RECEIVE",
                        !.role = "PASSIVE", !.eoi = FALSE]

ClockSeen == At("clock") /\ Goes("call")

\* ReadIECSerialPort begins, with byte = 0.
ReadAgain(d) == [d EXCEPT !.at = "r_clock"]
Read(d) == [d EXCEPT !.at = "r_clock", !.bits = <<>>]

Receive == At("call") /\ dev.seq = "RECEIVE" /\ dev' = Read(dev) /\ Quiet

Handle == At("call") /\ dev.seq = "HANDLE" /\ Goes("release")

\* ATN is released: the drive listens, turns the bus around and talks, or is done.
Released ==
  /\ At("release") /\ Quiet
  /\ \/ /\ dev.seq = "HANDLE" /\ dev.role = "LISTEN"
        /\ dev' = Read(dev)
     \/ /\ dev.seq = "HANDLE" /\ dev.role = "TALK"
        /\ \E n \in 1 .. MaxBytes :
             dev' = [dev EXCEPT !.at = "w_next", !.data = FALSE, !.clock = TRUE, !.left = n]
     \/ /\ dev.seq = "COMPLETE" \/ dev.role = "PASSIVE"
        /\ dev' = [dev EXCEPT !.at = "call", !.seq = "COMPLETE"]

Complete == /\ At("call") /\ dev.seq = "COMPLETE" /\ Quiet
            /\ dev' = [dev EXCEPT !.clock = FALSE, !.data = FALSE, !.seq = "IDLE"]

\* The drive's state d once a code is decoded; and what the shifts have left in
\* commandCode when ATN ends before the code is complete: zero if nothing came.
Decoded(d, code) ==
  IF code \in {Listen, Talk}
  THEN [d EXCEPT !.at = "call", !.role = IF code = Listen THEN "LISTEN" ELSE "TALK",
                 !.seq = IF atn THEN "RECEIVE" ELSE "HANDLE"]
  ELSE IF code = Second THEN [d EXCEPT !.at = "call", !.seq = "HANDLE"]
  ELSE [d EXCEPT !.at = "release", !.clock = FALSE, !.data = FALSE, !.seq = "COMPLETE"]

Shifted(bits) == [i \in 1 .. Bits |-> /\ i > Bits - Len(bits)
                                      /\ bits[i - (Bits - Len(bits))]]

\* The rest of ReadIECSerialPort: ready when the talker is; 200 microseconds without the
\* clock mean EOI and are answered by a pulse.
ReadReady == At("r_clock") /\ Quiet /\ dev' = [dev EXCEPT !.at = "r_data", !.data = FALSE]
ReadStart == At("r_data") /\ Quiet /\ dev' = [dev EXCEPT !.at = "r_time", !.count = 0]
ReadTime ==
  /\ At("r_time") /\ Quiet
  /\ dev' = IF dev.count = Ticks(200)
            THEN [dev EXCEPT !.at = "r_eoi", !.data = TRUE, !.delay = Ticks(73)]
            ELSE [dev EXCEPT !.at = "r_bit"]
ReadEoi     == At("r_eoi") /\ Quiet /\ dev' = [dev EXCEPT !.at = "r_first", !.data = FALSE]
ReadEoiSeen == At("r_first") /\ Quiet /\ dev' = [dev EXCEPT !.at = "r_bit", !.eoi = TRUE]
ReadBit     == /\ At("r_bit") /\ Quiet
               /\ dev' = [dev EXCEPT !.at = "r_bit_end", !.bits = Append(@, ~Data)]

\* The clock is back: the next bit, or the byte is acknowledged; under ATN it
\* is a code, in Listen and SaveFile the next byte is read.
ReadBitEnd ==
  /\ At("r_bit_end")
  /\ IF Len(dev.bits) < Bits THEN Goes("r_bit")
     ELSE LET d == [dev EXCEPT !.data = TRUE]
          IN  /\ Takes(dev.bits, dev.eoi)
              /\ dev' = IF dev.seq = "RECEIVE" THEN Decoded(d, dev.bits)
                                               ELSE Read(d)

\* WriteIECSerialPort for each byte of a buffer, the last with EOI.
WriteByte ==
  /\ At("w_next")
  /\ IF dev.left = 0
     THEN dev' = [dev EXCEPT !.at = "call", !.seq = "COMPLETE"] /\ Quiet
     ELSE \E b \in Byte :
            /\ Offers(b, dev.left = 1)
            /\ dev' = [dev EXCEPT !.at = "w_start", !.delay = Ticks(50), !.byte = b, !.bits = <<>>]

WriteReady == At("w_start") /\ Quiet /\ dev' = [dev EXCEPT !.at = "w_ready", !.clock = FALSE]

\* The listener is ready: at once, or after it has answered the missing clock.
WriteStart ==
  /\ At("w_ready") \/ At("w_eoi_ack")
  /\ IF dev.at = "w_ready" /\ dev.left = 1 THEN Goes("w_eoi")
     ELSE dev' = [dev EXCEPT !.at = "w_free", !.clock = TRUE, !.delay = Ticks(40)] /\ Quiet
WriteEoi  == At("w_eoi") /\ Goes("w_eoi_ack")
WriteFree == /\ At("w_free") /\ Quiet
             /\ dev' = [dev EXCEPT !.at = "w_set", !.delay = Ticks(21 + 45)]

\* One bit: data, clock off for the listener to look, clock on, data off.
ValidForVic == 34
ValidFor == IF usingVIC20 THEN 34 ELSE 75
WriteSet     == /\ At("w_set") /\ Quiet
                /\ dev' = [dev EXCEPT !.at = "w_valid", !.delay = Ticks(22),
                                      !.data = ~dev.byte[Len(dev.bits) + 1]]
WriteValid   == /\ At("w_valid") /\ Quiet
                /\ dev' = [dev EXCEPT !.at = "w_low", !.delay = Ticks(ValidFor), !.clock = FALSE]
WriteLow     == /\ At("w_low") /\ Quiet
                /\ dev' = [dev EXCEPT !.at = "w_release", !.delay = Ticks(22), !.clock = TRUE]
WriteRelease ==
  LET sent == Append(dev.bits, dev.byte[Len(dev.bits) + 1])
      more == Len(sent) < Bits
  IN  /\ At("w_release") /\ Quiet
      /\ dev' = [dev EXCEPT !.at = IF more THEN "w_set" ELSE "w_ack", !.data = FALSE,
                            !.bits = sent, !.delay = IF more THEN Ticks(14 + 45) ELSE Ticks(14)]
WriteAck     == At("w_ack") /\ Ends /\ dev' = [dev EXCEPT !.at = "w_next", !.left = @ - 1]

\* A wait saw ATN change: the call gives up the byte.
Abort ==
  /\ dev.delay = 0 /\ CheckATN
  /\ IF dev.at \in Writing THEN Ends ELSE Quiet
  /\ dev' = IF dev.seq = "RECEIVE" THEN Decoded(dev, Shifted(dev.bits))
            ELSE [dev EXCEPT !.at = "call", !.seq = "COMPLETE"]

Device ==
  /\ \/ Idle \/ Attention \/ ClockSeen \/ Receive \/ Handle \/ Released \/ Complete
     \/ ReadReady \/ ReadStart \/ ReadTime \/ ReadEoi \/ ReadEoiSeen \/ ReadBit \/ ReadBitEnd
     \/ WriteByte \/ WriteReady \/ WriteStart \/ WriteEoi \/ WriteFree \/ WriteSet
     \/ WriteValid \/ WriteLow \/ WriteRelease \/ WriteAck \/ Abort
  /\ UNCHANGED <<atn, host, lag, waited, usingVIC20>>

-----------------------------------------------------------------------------
(* The computer (external): the serial routines of its KERNAL *)

HostSeen == [p \in HostPlaces |->
   CASE p = "present" -> waited = PresentWait
     [] p \in {"t_ready", "t_eoi_ack"} -> ~Data
     [] p = "t_eoi" -> Data
     [] p = "t_ack" -> Data \/ host.byte = Other   \* another drive answers its address
     [] p \in {"l_turn", "l_first", "l_bit_end"} -> Clock
     [] p \in {"l_clock", "l_bit"} -> ~Clock
     [] p = "l_time" -> Clock \/ waited >= Ticks(200)
     [] p = "l_eoi" -> waited >= Ticks(60)
     [] OTHER -> TRUE]

HostAt(p) == host.at = p /\ lag > 0 /\ HostSeen[p]
MayStay == {"idle", "absent", "t_next", "l_ready"}

\* It looks and finds nothing to do, or is not ready.
Look == /\ lag > 0 /\ host.at # "present" /\ (host.at \in MayStay \/ ~HostSeen[host.at])
        /\ UNCHANGED <<atn, host, history>>

\* It pulls ATN: when idle, or to break off a transfer (never inside a byte it hears).
HostAttention ==
  /\ ~atn /\ lag > 0
  /\ host.at \in HostSends \union {"idle", "absent", "t_next", "l_turn", "l_clock", "l_ready"}
  /\ atn' = TRUE
  /\ host' = [at |-> "present", clock |-> TRUE, data |-> FALSE, byte |-> Other, eoi |-> FALSE,
              bits |-> <<>>, order |-> Other]
  /\ IF host.at \in HostSends THEN Ends ELSE Quiet

\* What it may send: a code first, a secondary address after listen or talk,
\* data to a drive that listens; and only to a drive that is there.
NextBytes == IF host.at = "present" THEN {Listen, Talk, Other, Second}
             ELSE IF ~atn THEN Byte
             ELSE IF host.byte \in {Listen, Talk} THEN {Second} ELSE {}
HostSend(b, e) ==
  /\ HostAt("present") \/ HostAt("t_next")
  /\ b \in NextBytes /\ (e => ~atn)
  /\ UNCHANGED atn
  /\ IF ~Data THEN host' = [host EXCEPT !.at = "absent", !.clock = FALSE] /\ Quiet
     ELSE /\ Offers(b, e)
          /\ host' = [host EXCEPT !.at = "t_ready", !.clock = FALSE, !.byte = b, !.eoi = e,
                                  !.order = IF atn /\ b \in {Listen, Talk} THEN b ELSE @]

\* Sending a byte: ready, EOI by keeping the clock off, the bits.
HostReady ==
  /\ HostAt("t_ready") \/ HostAt("t_eoi_ack")
  /\ host' = IF host.at = "t_ready" /\ host.eoi THEN [host EXCEPT !.at = "t_eoi"]
             ELSE [host EXCEPT !.at = "t_set", !.clock = TRUE]
HostEoiSeen == HostAt("t_eoi") /\ host' = [host EXCEPT !.at = "t_eoi_ack"]
HostBit   == /\ HostAt("t_set")
             /\ host' = [host EXCEPT !.at = "t_valid", !.data = ~host.byte[Len(host.bits) + 1]]
HostValid == HostAt("t_valid") /\ host' = [host EXCEPT !.at = "t_low", !.clock = FALSE]
HostLow ==
  LET sent == Append(host.bits, host.byte[Len(host.bits) + 1])
      more == Len(sent) < Bits
  IN  /\ HostAt("t_low")
      /\ host' = [host EXCEPT !.at = IF more THEN "t_set" ELSE "t_ack", !.clock = TRUE,
                              !.data = FALSE, !.bits = IF more THEN sent ELSE <<>>]

\* Acknowledged.  After a byte with EOI it lets go of the bus.
HostAck == /\ HostAt("t_ack") /\ Ends /\ UNCHANGED atn
           /\ host' = IF host.eoi THEN [host EXCEPT !.at = "idle", !.clock = FALSE]
                                  ELSE [host EXCEPT !.at = "t_next"]

\* It releases ATN: it goes on as the talker, turns the bus around, or is done.
HostRelease ==
  /\ HostAt("t_next") /\ atn /\ host.byte \in {Second, Other}
  /\ atn' = FALSE /\ Quiet
  /\ host' = IF host.order = Listen THEN host
             ELSE IF host.order = Talk
             THEN [host EXCEPT !.at = "l_turn", !.clock = FALSE, !.data = TRUE]
             ELSE [host EXCEPT !.at = "idle", !.clock = FALSE]

\* Hearing a byte: the talker is ready, so is the computer, EOI if the clock
\* stays away, the bits.
HostTurned == HostAt("l_turn") /\ host' = [host EXCEPT !.at = "l_clock"]
HostTalker == /\ HostAt("l_clock") /\ ~host.eoi
              /\ host' = [host EXCEPT !.at = "l_ready"]
HostTime ==
  /\ HostAt("l_time")
  /\ host' = IF Clock THEN [host EXCEPT !.at = "l_bit"]
             ELSE [host EXCEPT !.at = "l_eoi", !.data = TRUE, !.eoi = TRUE]
HostEoi    == HostAt("l_eoi") /\ host' = [host EXCEPT !.at = "l_first", !.data = FALSE]
HostFirst  == HostAt("l_first") /\ host' = [host EXCEPT !.at = "l_bit"]
HostHear   == HostAt("l_bit") /\ host' = [host EXCEPT !.at = "l_bit_end", !.bits = Append(@, ~Data)]
HostBitEnd == /\ HostAt("l_bit_end")
              /\ host' = [host EXCEPT !.at = IF Len(host.bits) < Bits THEN "l_bit" ELSE "l_ack"]
HostTake   == /\ HostAt("l_ack") /\ Takes(host.bits, host.eoi) /\ UNCHANGED atn
              /\ host' = [host EXCEPT !.at = "l_clock", !.data = TRUE, !.bits = <<>>]
HostDone   == /\ HostAt("l_clock") /\ host.eoi
              /\ host' = [host EXCEPT !.at = "idle", !.data = FALSE]

HostListens == /\ HostAt("l_ready") /\ UNCHANGED <<atn, history>>
               /\ host' = [host EXCEPT !.at = "l_time", !.data = FALSE]

HostGoes ==
  \/ HostAck \/ HostRelease \/ HostTake
  \/ /\ \/ HostReady \/ HostEoiSeen \/ HostBit \/ HostValid \/ HostLow \/ HostTurned \/ HostTalker
        \/ HostTime \/ HostEoi \/ HostFirst \/ HostHear \/ HostBitEnd \/ HostDone
     /\ UNCHANGED <<atn, history>>

Host == /\ \/ Look \/ HostGoes \/ HostListens \/ HostAttention
           \/ \E b \in Byte, e \in BOOLEAN : HostSend(b, e)
        /\ lag' = 0 /\ waited' = IF host'.at = host.at THEN waited ELSE 0
        /\ UNCHANGED <<dev, usingVIC20>>

-----------------------------------------------------------------------------
(* Time *)

Tick ==
  /\ ~Ready
  /\ lag < Reaction[usingVIC20] \/ (host.at = "present" /\ waited < PresentWait)
  /\ lag' = IF lag < Reaction[usingVIC20] THEN lag + 1 ELSE lag
  /\ waited' = IF host.at \in {"present", "l_time", "l_eoi"} THEN waited + 1 ELSE waited
  /\ dev' = [dev EXCEPT !.delay = IF @ > 0 THEN @ - 1 ELSE 0,
                        !.count = IF dev.at = "r_time" THEN @ + 1 ELSE @]
  /\ UNCHANGED <<atn, host, usingVIC20, history>>

Next == Device \/ Host \/ Tick

Spec == Init /\ [][Next]_vars

\* The drive never stops polling and time passes; the computer's routines go
\* on, and a listener that keeps the talker waiting is ready in the end.
FairSpec == /\ Spec
            /\ WF_vars(Device) /\ WF_vars(Tick)
            /\ WF_vars(Host /\ host.at \notin MayStay /\ (atn' => atn))
            /\ SF_vars(Host /\ HostListens)

-----------------------------------------------------------------------------
(* Properties *)

Link == INSTANCE ByteLink

\* A byte exchanged over the lines is one step of the link: what the listener
\* takes is what the talker offered, EOI included, once, and the two ends never
\* disagree on whether it was, wherever ATN comes (iec_commands.cpp 305-384;
\* IecCommands relies on it).
KeepsBytes == Link!Spec

\* The computer never finds the bus empty: whatever the drive is doing when ATN
\* is pulled, Data is pulled before the computer looks, and between two codes
\* or data bytes the drive keeps it pulled (iec_commands.cpp 440-461, 383).
DevicePresent == host.at # "absent"

\* An offered byte is taken or the transfer broken off: neither end waits for a
\* pulse or an edge the other has already given (iec_commands.cpp 315-319, 358-373).
TransferEnds == phase = "offered" ~> phase # "offered"
=============================================================================
