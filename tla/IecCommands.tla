---------------------------- MODULE IecCommands ----------------------------
(***************************************************************************)
(* The drive in browse mode: IEC_Commands::SimulateIECUpdate, the ATN      *)
(* sequence it walks through, the channels it opens, reads, writes and     *)
(* closes for the computer, and the DOS commands it runs for it.           *)
(*                                                                         *)
(* The computer (host) is external.  It obeys the serial protocol: command *)
(* codes come under ATN in the order LISTEN/TALK, then one secondary       *)
(* address; data bytes are handshaken, so a byte is either received by     *)
(* both ends or by neither; it may pull ATN between any two bytes.  One    *)
(* byte is one step here; the line-level handshake is left to IecSerial.   *)
(*                                                                         *)
(* Host variables                                                          *)
(*   atn, clock  : the host pulls the line                                 *)
(*   reset       : the RESET line is pulled                                *)
(*   frame       : what the host has sent since it pulled ATN              *)
(*   opened      : channels the host opened and did not close since        *)
(*   said, heard : bytes exchanged on a channel since the host opened it   *)
(* Device variables carry the names of the members of IEC_Commands;        *)
(*   busy is the loop a call is waiting in ("none": between two calls of   *)
(*   SimulateIECUpdate), sendIdx and remaining are locals of SendBuffer    *)
(*   and LoadFile, cmdBuffer is channels[15].buffer, mode the caller's     *)
(*   emulating, fs the folder on the SD card as its directory shows it.    *)
(***************************************************************************)
EXTENDS DosCommands, Integers, FiniteSets

CONSTANTS
  DataChannels,  \* the channels below 15 that are in use
  Requests,      \* what the host may send as a name or a command
  NoRequest,     \* an empty command buffer
  BufSize,       \* sizeof(Channel::buffer), 0x1000 in the code
  Blank,         \* the content of a new disk image
  Block,         \* what a listing or a boot sector puts in a buffer
  InitialFiles,  \* the file systems the SD card may hold at start
  OpenOutcomes,  \* what f_open may answer: {TRUE}, or {TRUE, FALSE}
  MaxFile,       \* bound on the bytes of a file the host makes
  MaxSent,       \* bound on bytesSent of channel 0 when the host starts a talk
  ClockDelays,   \* may the clock follow ATN late? {FALSE}, or {FALSE, TRUE}
  Resets,        \* whether the computer may reset
  StrictHost     \* the host keeps to one channel per file and per request

CMD == 15
Channels == DataChannels \union {CMD}

ASSUME IecAssumption ==
  /\ DataChannels \subseteq 0 .. 14
  /\ 0 \in DataChannels
  /\ Requests \subseteq RequestRecords
  /\ NoRequest \notin Requests
  /\ BufSize \in Nat \ {0}
  /\ Blank \in Contents
  /\ Block \in Contents
  /\ InitialFiles \subseteq FileSystems
  /\ OpenOutcomes \subseteq BOOLEAN /\ ClockDelays \subseteq BOOLEAN
  /\ MaxFile \in Nat /\ MaxSent \in Nat
  /\ StrictHost \in BOOLEAN /\ Resets \in BOOLEAN

VARIABLES
  atn, clock, reset, frame, opened, said, heard,
  atnSequence, busy, deviceRole, commandCode, secondaryAddress,
  receivedCommand, cmdBuffer, channels, sendIdx, remaining,
  error, selectedImage, mode, fs

hostVars == <<atn, clock, reset, frame, opened, said, heard>>
atnVars  == <<atnSequence, busy, deviceRole, commandCode, secondaryAddress>>
dataVars == <<receivedCommand, cmdBuffer, channels, sendIdx, remaining>>
fsVars   == <<error, selectedImage, mode, fs>>
vars     == <<hostVars, atnVars, dataVars, fsVars>>

-----------------------------------------------------------------------------
(* Types *)

Frames    == {"none", "start", "listen", "talk", "done"}
AtnSequences == {"IDLE", "ATN", "RECEIVE", "HANDLE", "COMPLETE"}
Loops     == {"none", "clock", "release", "listen", "save", "load", "dir", "boot", "error"}
Roles     == {"PASSIVE", "LISTEN", "TALK"}
CodeKinds == {"zero", "listen", "talk", "unlisten", "untalk",
              "data", "open", "close", "other"}
Sas       == 0 .. 15
Codes     == [kind : CodeKinds, sa : Sas]
NoCode    == [kind |-> "zero", sa |-> 0]

\* struct Channel.  buf is buffer[0 .. cursor); fil is the size and content the
\* FIL has seen so far, which reaches the directory when the file is closed;
\* pos is the FIL's read pointer; file is filInfo.fname.
ChannelRecords ==
  [open : BOOLEAN, writing : BOOLEAN, file : Names \union {NoName},
   fil : Contents, pos : Nat, buf : Contents, sent : Nat,
   command : Requests \union {NoRequest}]

ClosedChannel ==
  [open |-> FALSE, writing |-> FALSE, file |-> NoName, fil |-> <<>>,
   pos |-> 0, buf |-> <<>>, sent |-> 0, command |-> NoRequest]

Heard == [byte : Bytes, eoi : BOOLEAN]

TypeOK ==
  /\ atn \in BOOLEAN /\ clock \in BOOLEAN /\ reset \in BOOLEAN
  /\ frame \in Frames
  /\ opened \subseteq DataChannels
  /\ said \in [DataChannels -> Seq(Bytes)]
  /\ heard \in [DataChannels -> Seq(Heard)]
  /\ atnSequence \in AtnSequences
  /\ busy \in Loops
  /\ deviceRole \in Roles
  /\ commandCode \in Codes
  /\ secondaryAddress \in Sas
  /\ receivedCommand \in BOOLEAN
  /\ cmdBuffer \in Requests \union {NoRequest}
  /\ channels \in [Channels -> ChannelRecords]
  /\ sendIdx \in Nat /\ remaining \in Int
  /\ error \in Errors
  /\ selectedImage \in Names \union {NoName}
  /\ mode \in {"browse", "emulate"}
  /\ fs \in FileSystems

-----------------------------------------------------------------------------
(* Channels *)

OpOf(r) == IF r = NoRequest THEN "empty" ELSE r.op

\* OpenFile opens a file unless the name asks for a relative file or for direct
\* access.  IsFileOrRelative forgets the first.
IsFileOrRelative(r) == OpOf(r) \in {"file", "rel"}
IsFile(r) == OpOf(r) = "file"

\* What the directory shows once f_close has written the entry of ch's file.
\* An entry that is gone stays gone.  (SyncedUnflushed drops what is buffered.)
SyncedUnflushed(f, ch) ==
  IF ch.open /\ ch.writing /\ Exists(f, ch.file)
  THEN [f EXCEPT ![ch.file] = ch.fil] ELSE f
Synced(f, ch) ==
  IF ch.open /\ ch.writing /\ Exists(f, ch.file)
  THEN [f EXCEPT ![ch.file] = ch.fil \o ch.buf] ELSE f

\* Channel::Close: flush what is buffered, close the file, forget the cursor.
\* (ClosedStillOpen forgets the flag, ClosedKeepingBuffer the cursor.)
ClosedStillOpen(ch) == [ch EXCEPT !.buf = <<>>, !.sent = 0, !.fil = <<>>]
ClosedKeepingBuffer(ch) == [ch EXCEPT !.open = FALSE, !.sent = 0, !.fil = <<>>]
Closed(ch) == [ch EXCEPT !.open = FALSE, !.buf = <<>>, !.sent = 0, !.fil = <<>>]

\* CloseAllChannels: channels 0 to 14, in that order.
WriterOf(n) == {c \in DataChannels : /\ channels[c].open
                                     /\ channels[c].writing
                                     /\ channels[c].file = n}
NoneSynced == fs
AllSynced ==
  [n \in Names |->
     IF fs[n] = NoFile \/ WriterOf(n) = {} THEN fs[n]
     ELSE LET c == CHOOSE x \in WriterOf(n) : \A y \in WriterOf(n) : y <= x
          IN  channels[c].fil \o channels[c].buf]
AllClosed == [c \in Channels |-> IF c = CMD THEN channels[c]
                                 ELSE Closed(channels[c])]

\* The mode OpenFile ends up with: the name's, and "W" by default on channel 1.
OpenMode(c, r) == IF r.mode = "" THEN (IF c = 1 THEN "W" ELSE "R") ELSE r.mode
Writes(c, r) == OpenMode(c, r) \in {"W", "A"}

\* OpenFile on channel c when f_open answers ok: the channel, the file system
\* and the error it leaves.  Nothing happens on a channel that is open already,
\* and a file without a name is not created.
Opened(c, ok) ==
  LET ch == channels[c]
      r  == ch.command
      w  == Writes(c, r)
      Outcome(x, f, e) == [ch |-> x, fs |-> f, error |-> e]
      Named(n) == [ch EXCEPT !.writing = w, !.file = n]
  IN  IF ch.open \/ ~IsFile(r) THEN Outcome(ch, fs, error)
      ELSE IF OpenMode(c, r) = "W"
      THEN IF ok /\ r.name # NoName
           THEN Outcome([Named(r.name) EXCEPT !.open = TRUE, !.buf = <<>>,
                                              !.fil = <<>>, !.pos = 0],
                        [fs EXCEPT ![r.name] = <<>>], error)
           ELSE Outcome([ch EXCEPT !.writing = w], fs, error)
      ELSE IF ~Exists(fs, r.name) THEN Outcome(Named(NoName), fs, 62)
      ELSE IF ok
      THEN Outcome([Named(r.name) EXCEPT !.open = TRUE, !.pos = 0,
                      !.fil = IF w THEN fs[r.name] ELSE <<>>], fs, error)
      ELSE Outcome(Named(r.name), fs, error)

\* f_read of a full buffer from where the FIL stands.  A FIL that is not open,
\* or not open for reading, yields nothing.
NextBlock(ch, f) ==
  IF ch.open /\ ~ch.writing /\ Exists(f, ch.file)
  THEN SubSeq(f[ch.file], ch.pos + 1,
              IF ch.pos + BufSize < Len(f[ch.file]) THEN ch.pos + BufSize
                                                    ELSE Len(f[ch.file]))
  ELSE <<>>

FileSize(ch, f) == IF Exists(f, ch.file) THEN Len(f[ch.file]) ELSE 0

-----------------------------------------------------------------------------
(* Initial state: SimulateIECBegin has run, the bus is quiet *)

Init ==
  /\ atn = FALSE /\ clock = FALSE /\ reset = FALSE /\ frame = "none"
  /\ opened = {}
  /\ said = [c \in DataChannels |-> <<>>]
  /\ heard = [c \in DataChannels |-> <<>>]
  /\ atnSequence = "IDLE" /\ busy = "none" /\ deviceRole = "PASSIVE"
  /\ commandCode = NoCode /\ secondaryAddress = 0
  /\ receivedCommand = FALSE /\ cmdBuffer = NoRequest
  /\ channels = [c \in Channels |-> ClosedChannel]
  /\ sendIdx = 0 /\ remaining = 0
  /\ error = 0 /\ selectedImage = NoName /\ mode = "browse"
  /\ fs \in InitialFiles

-----------------------------------------------------------------------------
(* The host *)

\* The device is polling for the release of ATN, or is about to.
AwaitingRelease == \/ busy = "release"
                   \/ busy = "none" /\ atnSequence \in {"RECEIVE", "HANDLE"}

\* Pull ATN.  The pause the protocol leaves between two frames is long enough
\* for the device to have seen ATN released.
HostAttention ==
  /\ ~atn /\ ~reset
  /\ ~AwaitingRelease
  /\ atn' = TRUE /\ frame' = "start"
  /\ \E late \in ClockDelays : clock' = ~late
  /\ UNCHANGED <<reset, opened, said, heard, atnVars, dataVars, fsVars>>

HostClock ==
  /\ atn /\ ~clock
  /\ clock' = TRUE
  /\ UNCHANGED <<atn, reset, frame, opened, said, heard, atnVars, dataVars, fsVars>>

\* Release ATN.  A transfer has noticed ATN before the host gives up on it.
HostRelease ==
  /\ atn /\ clock /\ ~reset
  /\ frame = "start" => busy \in {"none", "clock"}
  /\ atn' = FALSE /\ clock' = FALSE /\ frame' = "none"
  /\ UNCHANGED <<reset, opened, said, heard, atnVars, dataVars, fsVars>>

\* The computer resets: it forgets what it had open, and its port pins float,
\* which pulls the serial lines until it starts again.
HostReset ==
  /\ ~reset
  /\ reset' = TRUE /\ atn' = TRUE /\ clock' = TRUE /\ frame' = "done"
  /\ opened' = {}
  /\ UNCHANGED <<said, heard, atnVars, dataVars, fsVars>>

HostResetEnds ==
  /\ reset
  /\ reset' = FALSE /\ atn' = FALSE /\ clock' = FALSE /\ frame' = "none"
  /\ UNCHANGED <<opened, said, heard, atnVars, dataVars, fsVars>>

\* The codes the protocol allows next.  Data is asked of, or sent to, a
\* channel the host has opened, or channel 15.
LegalCode(code) ==
  \/ /\ frame = "start"
     /\ code.kind \in {"listen", "talk", "unlisten", "untalk", "other"}
     /\ code.sa = 0
     /\ code.kind = "talk" => channels[0].sent <= MaxSent
  \/ /\ frame \in {"listen", "talk"}
     /\ code.kind = "data"
     /\ code.sa \in opened \union {CMD}
     /\ (StrictHost /\ frame = "talk" /\ OpOf(cmdBuffer) = "dir")
          => code.sa \in {0, CMD}
  \/ /\ frame = "listen"
     /\ code.kind \in {"open", "close"}
     /\ code.sa \in Channels
     /\ (StrictHost /\ code.kind = "open") => code.sa \in Channels \ opened
\* What the host may send as the name of channel c or as a command.  A strict
\* host writes a file through one channel at a time, leaves the files it has
\* open alone, lists the folder through channel 0 only and then reads that
\* listing first, and selects an image when it has nothing open.
InUse(d, n) == /\ d \in opened
               /\ OpOf(channels[d].command) = "file"
               /\ channels[d].command.name = n
NamesOf(r) == {r.name, r.name2, r.name3} \ {NoName}
LegalCommand(r) ==
  /\ r.op \notin {"file", "dir", "direct", "rel"}
  /\ r.op = "copy" => \A n \in NamesOf(r) : Exists(fs, n) => 2 * Len(fs[n]) <= MaxFile
  /\ StrictHost => /\ \A n \in NamesOf(r), d \in DataChannels : ~InUse(d, n)
                   /\ r.op \in {"cd", "new"} => opened = {}
LegalName(c, r) ==
  /\ r.op \in {"file", "dir", "direct", "rel"}
  /\ StrictHost =>
       /\ r.op = "dir" => c = 0
       /\ r.op = "file" => \A d \in DataChannels \ {c} : InUse(d, r.name) =>
                            ~Writes(c, r) /\ ~Writes(d, channels[d].command)
LegalRequest(c, r) == IF c = CMD THEN LegalCommand(r) ELSE LegalName(c, r)

-----------------------------------------------------------------------------
(* The ATN sequence.  The caller keeps calling SimulateIECUpdate while it is *)
(* in browse mode; once an image is selected it mounts it on the next call.  *)

Updating == /\ mode = "browse" /\ busy = "none" /\ ~reset
            /\ selectedImage # NoName => atnSequence = "IDLE"

\* IEC_Commands::Reset.  Channel 15 is left as it is.
ResetState ==
  /\ atnSequence' = "IDLE" /\ deviceRole' = "PASSIVE" /\ commandCode' = NoCode
  /\ secondaryAddress' = 0 /\ receivedCommand' = FALSE
  /\ error' = 0 /\ selectedImage' = NoName
  /\ fs' = AllSynced
  /\ channels' = AllClosed
  /\ UNCHANGED <<hostVars, busy, cmdBuffer, sendIdx, remaining>>

\* SimulateIECUpdate sees the computer in reset; its caller begins again.
DeviceReset ==
  /\ mode = "browse" /\ busy = "none" /\ reset
  /\ ResetState
  /\ UNCHANGED mode

Idle ==
  /\ Updating /\ atnSequence = "IDLE" /\ atn
  /\ atnSequence' = "ATN"
  /\ UNCHANGED <<hostVars, busy, deviceRole, commandCode, secondaryAddress,
                 dataVars, fsVars>>

\* Answer ATN and wait, without a time limit, for the host to pull the clock.
Attention ==
  /\ Updating /\ atnSequence = "ATN"
  /\ atnSequence' = "RECEIVE" /\ deviceRole' = "PASSIVE" /\ busy' = "clock"
  /\ UNCHANGED <<hostVars, commandCode, secondaryAddress, dataVars, fsVars>>

ClockSeen ==
  /\ busy = "clock" /\ clock
  /\ busy' = "none"
  /\ UNCHANGED <<hostVars, atnSequence, deviceRole, commandCode,
                 secondaryAddress, dataVars, fsVars>>

\* One command code.  A code for another device, and one that is none of the
\* known ones, lets go of the bus until ATN is released.
NextSequence(kind) ==
  IF kind \in {"listen", "talk", "close"} THEN "RECEIVE"
  ELSE IF kind = "other" THEN "COMPLETE" ELSE "HANDLE"
NextRole(kind) ==
  IF kind = "listen" THEN "LISTEN"
  ELSE IF kind = "talk" THEN "TALK"
  ELSE IF \/ kind = "unlisten" /\ deviceRole = "LISTEN"
          \/ kind = "untalk" /\ deviceRole = "TALK" THEN "PASSIVE"
  ELSE deviceRole

\* LISTEN and TALK leave the low bits of the code, this device's number, 8, in
\* secondaryAddress until a secondary address follows.
OwnAddressUnmasked == 32 + 8
OwnAddress == (32 + 8) % 16

ReceiveCode(code) ==
  /\ Updating /\ atnSequence = "RECEIVE" /\ atn /\ clock /\ LegalCode(code)
  /\ commandCode' = code
  /\ deviceRole' = NextRole(code.kind)
  /\ atnSequence' = NextSequence(code.kind)
  /\ secondaryAddress' =
       IF code.kind \in {"data", "open", "close"} THEN code.sa
       ELSE IF code.kind \in {"listen", "talk"} THEN OwnAddress
       ELSE secondaryAddress
  /\ busy' = IF code.kind = "other" THEN "release" ELSE "none"
  /\ frame' = IF code.kind \in {"listen", "talk"} THEN code.kind ELSE "done"
  /\ IF code.kind = "close"
     THEN /\ fs' = Synced(fs, channels[code.sa])
          /\ channels' = [channels EXCEPT ![code.sa] = Closed(@)]
          /\ opened' = opened \ {code.sa}
          /\ said' = [c \in DataChannels |-> IF c = code.sa THEN <<>> ELSE said[c]]
          /\ heard' = [c \in DataChannels |-> IF c = code.sa THEN <<>> ELSE heard[c]]
     ELSE UNCHANGED <<fs, channels, opened, said, heard>>
  /\ UNCHANGED <<atn, clock, reset, receivedCommand,
                 cmdBuffer, sendIdx, remaining, error, selectedImage, mode>>

Released ==
  /\ busy = "release" /\ ~atn
  /\ busy' = "none"
  /\ UNCHANGED <<hostVars, atnSequence, deviceRole, commandCode,
                 secondaryAddress, dataVars, fsVars>>

\* ATN is released while a code is awaited: the code read is zero.
ReceiveNothing ==
  /\ Updating /\ atnSequence = "RECEIVE" /\ ~atn
  /\ commandCode' = NoCode /\ atnSequence' = "COMPLETE"
  /\ UNCHANGED <<hostVars, busy, deviceRole, secondaryAddress, dataVars, fsVars>>

-----------------------------------------------------------------------------
(* HANDLE_COMMAND_CODE: ATN is released, the role decides *)

Handling(role) == /\ Updating /\ atnSequence = "HANDLE" /\ ~atn
                  /\ deviceRole = role

HandlePassive ==
  /\ Handling("PASSIVE")
  /\ atnSequence' = "COMPLETE"
  /\ UNCHANGED <<hostVars, busy, deviceRole, commandCode, secondaryAddress,
                 dataVars, fsVars>>

\* Listen, for a name or a command: channels[15].Close and an empty buffer.
ListenName ==
  /\ Handling("LISTEN")
  /\ secondaryAddress = CMD \/ commandCode.kind = "open"
  /\ busy' = "listen"
  /\ cmdBuffer' = NoRequest
  /\ channels' = [channels EXCEPT ![CMD] = Closed(@)]
  /\ UNCHANGED <<hostVars, atnSequence, deviceRole, commandCode,
                 secondaryAddress, receivedCommand, sendIdx, remaining, fsVars>>

\* Listen, for data: OpenFile, then SaveFile, which returns at once unless the
\* channel is open for writing.
ListenData(ok) ==
  /\ Handling("LISTEN")
  /\ ~(secondaryAddress = CMD \/ commandCode.kind = "open")
  /\ LET o == Opened(secondaryAddress, ok)
     IN  /\ channels' = [channels EXCEPT ![secondaryAddress] = o.ch]
         /\ fs' = o.fs /\ error' = o.error
         /\ IF o.ch.open /\ o.ch.writing
            THEN busy' = "save" /\ atnSequence' = "HANDLE"
            ELSE busy' = "none" /\ atnSequence' = "COMPLETE"
  /\ UNCHANGED <<hostVars, deviceRole, commandCode, secondaryAddress,
                 receivedCommand, cmdBuffer, sendIdx, remaining,
                 selectedImage, mode>>

\* LoadFile on channel c: read the first block; with nothing to send the talk
\* is over, and a channel without a file reports it.
Load(c, ch, f, e) ==
  LET block == NextBlock(ch, f)
  IN  /\ fs' = f
      /\ error' = IF ch.file = NoName THEN 62 ELSE e
      /\ sendIdx' = 0
      /\ IF ch.file = NoName \/ block = <<>>
         THEN /\ channels' = [channels EXCEPT ![c] = ch]
              /\ busy' = "none" /\ atnSequence' = "COMPLETE"
              /\ UNCHANGED remaining
         ELSE /\ channels' = [channels EXCEPT ![c] =
                                [ch EXCEPT !.buf = block, !.pos = @ + Len(block)]]
              /\ remaining' = FileSize(ch, f) - Len(block)
              /\ busy' = "load" /\ UNCHANGED atnSequence

Talking == /\ Handling("TALK")
           /\ UNCHANGED <<hostVars, deviceRole, commandCode, secondaryAddress,
                          receivedCommand, cmdBuffer, selectedImage, mode>>

TalkError ==
  /\ Talking /\ secondaryAddress = CMD
  /\ busy' = "error"
  /\ UNCHANGED <<atnSequence, channels, sendIdx, remaining, error, fs>>

\* Whether a listing is wanted is read off the last command received on any
\* channel, and the listing is built in the buffer of channel 0.
TalkDirectory ==
  /\ Talking /\ secondaryAddress # CMD /\ OpOf(cmdBuffer) = "dir"
  /\ busy' = "dir"
  /\ channels' = [channels EXCEPT ![0].buf = Block]
  /\ UNCHANGED <<atnSequence, sendIdx, remaining, error, fs>>

TalkBootSector ==
  /\ Talking /\ secondaryAddress # CMD
  /\ OpOf(channels[secondaryAddress].command) = "direct"
  /\ OpOf(cmdBuffer) = "bootblock"
  /\ busy' = "boot"
  /\ channels' = [channels EXCEPT ![secondaryAddress].buf = Block]
  /\ UNCHANGED <<atnSequence, sendIdx, remaining, error, fs>>

TalkFile(ok) ==
  /\ Talking /\ secondaryAddress # CMD /\ OpOf(cmdBuffer) # "dir"
  /\ ~(/\ OpOf(channels[secondaryAddress].command) = "direct"
       /\ OpOf(cmdBuffer) = "bootblock")
  /\ LET o == Opened(secondaryAddress, ok)
     IN  Load(secondaryAddress, o.ch, o.fs, o.error)

-----------------------------------------------------------------------------
(* The transfers, byte by byte; ATN ends any of them *)

\* The whole name or command, the last byte with EOI.
ListenRequest(r) ==
  /\ busy = "listen" /\ ~atn /\ ~receivedCommand
  /\ LegalRequest(secondaryAddress, r)
  /\ cmdBuffer' = r /\ receivedCommand' = TRUE
  /\ IF secondaryAddress = CMD THEN UNCHANGED <<opened, said, heard>>
     ELSE /\ opened' = opened \union {secondaryAddress}
          /\ said' = [said EXCEPT ![secondaryAddress] = <<>>]
          /\ heard' = [heard EXCEPT ![secondaryAddress] = <<>>]
  /\ UNCHANGED <<atn, clock, reset, frame, atnVars, channels, sendIdx,
                 remaining, fsVars>>

\* Part of a name or command, and no EOI; not from a strict host.
ListenPart(r) ==
  /\ busy = "listen" /\ ~atn /\ ~receivedCommand /\ ~StrictHost
  /\ cmdBuffer = NoRequest
  /\ cmdBuffer' = r
  /\ UNCHANGED <<hostVars, atnVars, receivedCommand, channels, sendIdx,
                 remaining, fsVars>>

\* SaveFile: a byte goes into the buffer, a full buffer into the file.
BufferedShort(ch, b) ==
  IF Len(ch.buf) + 1 >= BufSize
  THEN [ch EXCEPT !.fil = @ \o ch.buf, !.buf = <<>>]
  ELSE [ch EXCEPT !.buf = Append(@, b)]
Buffered(ch, b) ==
  IF Len(ch.buf) + 1 >= BufSize
  THEN [ch EXCEPT !.fil = @ \o Append(ch.buf, b), !.buf = <<>>]
  ELSE [ch EXCEPT !.buf = Append(@, b)]

SaveByte(b) ==
  LET c == secondaryAddress
  IN  /\ busy = "save" /\ ~atn /\ c \in opened
      /\ Len(channels[c].fil) + Len(channels[c].buf) < MaxFile
      /\ Len(said[c]) < MaxFile
      /\ channels' = [channels EXCEPT ![c] = Buffered(@, b)]
      /\ said' = [said EXCEPT ![c] = Append(@, b)]
      /\ UNCHANGED <<atn, clock, reset, frame, opened, heard, atnVars,
                     receivedCommand, cmdBuffer, sendIdx, remaining, fsVars>>

\* SendBuffer: the next byte of the buffer, with EOI on the one that makes
\* bytesSent the size of the file when nothing remains to be read; after the
\* last byte of the buffer LoadFile reads the next block.
LastByteLate(ch) == remaining <= 0 /\ ch.sent = FileSize(ch, fs)
LastByte(ch) == remaining <= 0 /\ ch.sent = FileSize(ch, fs) - 1

LoadByte ==
  LET c    == secondaryAddress
      ch   == channels[c]
      sent == [ch EXCEPT !.sent = @ + 1]
      next == NextBlock(ch, fs)
  IN  /\ busy = "load" /\ ~atn /\ c \in opened
      /\ heard' = [heard EXCEPT ![c] =
           Append(@, [byte |-> ch.buf[sendIdx + 1], eoi |-> LastByte(ch)])]
      /\ IF sendIdx + 1 < Len(ch.buf)
         THEN /\ sendIdx' = sendIdx + 1
              /\ channels' = [channels EXCEPT ![c] = sent]
              /\ UNCHANGED <<remaining, busy, atnSequence>>
         ELSE /\ sendIdx' = 0
              /\ channels' = [channels EXCEPT ![c] =
                   [sent EXCEPT !.buf = next, !.pos = @ + Len(next)]]
              /\ remaining' = remaining - Len(next)
              /\ IF next = <<>>
                 THEN busy' = "none" /\ atnSequence' = "COMPLETE"
                 ELSE UNCHANGED <<busy, atnSequence>>
      /\ UNCHANGED <<atn, clock, reset, frame, opened, said, deviceRole,
                     commandCode, secondaryAddress, receivedCommand, cmdBuffer,
                     fsVars>>

\* The computer has taken the whole listing, or the whole error message.
Sent(c) == [channels[c] EXCEPT !.buf = <<>>, !.sent = @ + Len(channels[c].buf)]

SendDirectory ==
  /\ busy = "dir" /\ ~atn
  /\ channels' = [channels EXCEPT ![0] = Sent(0)]
  /\ busy' = "none" /\ atnSequence' = "COMPLETE"
  /\ UNCHANGED <<hostVars, deviceRole, commandCode, secondaryAddress,
                 receivedCommand, cmdBuffer, sendIdx, remaining, fsVars>>

SendError ==
  /\ busy = "error" /\ ~atn
  /\ busy' = "none" /\ atnSequence' = "COMPLETE"
  /\ UNCHANGED <<hostVars, deviceRole, commandCode, secondaryAddress,
                 dataVars, fsVars>>

\* OpenFile returns, sent or interrupted, and LoadFile follows.
SendBootSector ==
  LET c  == secondaryAddress
      ch == IF atn THEN channels[c] ELSE Sent(c)
  IN  /\ busy = "boot"
      /\ Load(c, ch, fs, error)
      /\ UNCHANGED <<hostVars, deviceRole, commandCode, secondaryAddress,
                     receivedCommand, cmdBuffer, selectedImage, mode>>

\* The loops that look at ATN.  (WatchingButSave leaves SaveFile's out.)
WatchingButSave == {"listen", "load", "dir", "error"}
Watching == {"listen", "save", "load", "dir", "error"}

\* CheckATN ends the loop; HANDLE_COMMAND_CODE then sets COMPLETE all the same.
\* What SendBuffer had not sent stays in the buffer and is read past next time.
Interrupted ==
  /\ busy \in Watching /\ atn
  /\ busy' = "none" /\ atnSequence' = "COMPLETE"
  /\ UNCHANGED <<hostVars, deviceRole, commandCode, secondaryAddress,
                 dataVars, fsVars>>

-----------------------------------------------------------------------------
(* COMPLETE *)

\* Channel 15's command is carried out; a name is kept for its channel, to be
\* opened when the channel first talks or listens.
Complete ==
  /\ Updating /\ atnSequence = "COMPLETE"
  /\ atnSequence' = "IDLE" /\ receivedCommand' = FALSE
  /\ IF receivedCommand /\ secondaryAddress = CMD
     THEN LET o == ProcessCommand(cmdBuffer, fs, Blank)
          IN  /\ fs' = o.fs /\ error' = o.error
              /\ selectedImage' = IF o.selected # NoName THEN o.selected
                                                         ELSE selectedImage
     ELSE UNCHANGED <<fs, error, selectedImage>>
  /\ channels' = IF receivedCommand /\ secondaryAddress # CMD
                 THEN [channels EXCEPT ![secondaryAddress].command = cmdBuffer]
                 ELSE channels
  /\ UNCHANGED <<hostVars, busy, deviceRole, commandCode, secondaryAddress,
                 cmdBuffer, sendIdx, remaining, mode>>

-----------------------------------------------------------------------------
(* The caller, emulator() *)

\* An image was selected, over the bus or on the Pi, and is mounted.  The
\* channels stay as they are until browse mode begins again; a strict host has
\* none open.
LeaveBrowse ==
  /\ mode = "browse" /\ busy = "none" /\ ~reset
  /\ StrictHost => opened = {}
  /\ mode' = "emulate"
  /\ UNCHANGED <<hostVars, atnVars, dataVars, error, selectedImage, fs>>

\* The selected image cannot be mounted.
MountFails ==
  /\ mode = "browse" /\ busy = "none" /\ ~reset /\ selectedImage # NoName
  /\ ResetState
  /\ UNCHANGED mode

\* Emulation ends, once the computer is out of reset: SimulateIECBegin.
EnterBrowse ==
  /\ mode = "emulate" /\ ~reset
  /\ ResetState
  /\ mode' = "browse"

-----------------------------------------------------------------------------
HostCodes == [kind : CodeKinds \ {"zero"}, sa : Channels \union {0}]

HostNext == \/ HostAttention \/ HostClock \/ HostRelease
            \/ Resets /\ (HostReset \/ HostResetEnds)

TransferNext ==
  \/ \E r \in Requests : ListenRequest(r) \/ ListenPart(r)
  \/ \E b \in Bytes : SaveByte(b)
  \/ LoadByte \/ SendDirectory \/ SendError \/ SendBootSector \/ Interrupted

HandleNext ==
  \/ HandlePassive \/ ListenName \/ TalkError \/ TalkDirectory \/ TalkBootSector
  \/ \E ok \in OpenOutcomes : ListenData(ok) \/ TalkFile(ok)

SequenceNext ==
  \/ DeviceReset \/ Idle \/ Attention \/ ClockSeen \/ Released \/ ReceiveNothing \/ Complete
  \/ \E code \in HostCodes : ReceiveCode(code)

CallerNext == LeaveBrowse \/ MountFails \/ EnterBrowse

Next == HostNext \/ SequenceNext \/ HandleNext \/ TransferNext \/ CallerNext

Spec == Init /\ [][Next]_vars

-----------------------------------------------------------------------------
(* Fairness: SimulateIECUpdate is called for ever, and polls the bus *)

DeviceStep ==
  \/ Idle \/ Attention \/ ClockSeen \/ Released \/ ReceiveNothing \/ Complete
  \/ HandleNext \/ Interrupted \/ SendBootSector
MountStep == selectedImage # NoName /\ (LeaveBrowse \/ MountFails)

FairSpec == Spec /\ WF_vars(DeviceStep) /\ WF_vars(MountStep)

-----------------------------------------------------------------------------
(* Properties *)

\* The order of things: the drive waits for the clock only between answering
\* ATN and the first code, transfers only while it handles the codes of a frame
\* and on a channel they named, and a complete request waits for COMPLETE and
\* nothing else.  (deviceRole and secondaryAddress outlive a frame; each must
\* have been set again before it is used.)
Transfers == {"listen", "save", "load", "dir", "boot", "error"}
Sequencing ==
  /\ busy = "clock" => atnSequence = "RECEIVE" /\ deviceRole = "PASSIVE"
  /\ busy = "release" => atnSequence = "COMPLETE"
  /\ busy \in Transfers => atnSequence = "HANDLE" /\ deviceRole # "PASSIVE"
  /\ mode = "emulate" => busy = "none"
  /\ (atnSequence = "RECEIVE" /\ frame = "start") => deviceRole = "PASSIVE"
  /\ (atnSequence = "HANDLE" /\ deviceRole # "PASSIVE") => secondaryAddress \in Channels
  /\ busy \in {"save", "load", "boot"} => secondaryAddress \in DataChannels
  /\ busy = "load" => sendIdx < Len(channels[secondaryAddress].buf)
  /\ receivedCommand => /\ cmdBuffer \in Requests
                        /\ secondaryAddress \in Channels
                        /\ \/ busy = "listen"
                           \/ busy = "none" /\ atnSequence = "COMPLETE"

\* Nothing the host said is lost while a file is being written: what the file
\* will hold when it is closed (the bytes f_write took, then the bytes still
\* in the channel's buffer) is what the directory shows, an empty file or the
\* file that is appended to, followed by every byte the host said on the
\* channel since it opened it.  (OpenFile, SaveFile, Channel::Close, and every
\* command that could get between them.)
NothingLost ==
  \A c \in DataChannels :
    (channels[c].open /\ channels[c].writing) =>
      /\ Exists(fs, channels[c].file)
      /\ channels[c].fil \o channels[c].buf = fs[channels[c].file] \o said[c]

\* An open channel serves the request its host sent last: the file the channel
\* has open is the one named, opened for what was asked.
OpenedAsAsked ==
  \A c \in DataChannels :
    channels[c].open =>
      /\ OpOf(channels[c].command) = "file"
      /\ channels[c].file = channels[c].command.name
      /\ channels[c].writing = Writes(c, channels[c].command)

\* A talk answers the request of its own channel: it never sends the listing
\* of the folder on a channel that was opened for a file, nor a file on one
\* that was not.
TalkServesItsChannel ==
  /\ busy = "dir" => OpOf(channels[secondaryAddress].command) # "file"
  /\ busy = "load" => OpOf(channels[secondaryAddress].command) = "file"

\* No command but SCRATCH destroys what the folder holds: the content of every
\* file is still there after the command, under its own name or another.
OnlyScratchDestroys ==
  [][(atnSequence = "COMPLETE" /\ atnSequence' = "IDLE"
        /\ OpOf(cmdBuffer) # "scratch") =>
       \A n \in Names : Exists(fs, n) =>
         \E m \in Names : Exists(fs', m) /\ fs'[m] = fs[n]]_vars

\* When the drive gives up its channels, in a reset of the computer or on the
\* way back from an emulation, every byte taken so far reaches the folder.
Writer(c) == channels[c].open /\ channels[c].writing /\ Exists(fs, channels[c].file)
ClosingKeepsBytes ==
  [][\A c \in DataChannels : (Writer(c) /\ ~channels'[c].open) =>
       fs'[channels[c].file] = channels[c].fil \o channels[c].buf]_vars

\* A device in browse mode that sees ATN and the clock gets ready to take a
\* code, whatever it was doing, unless the host lets go of ATN first.
Ready == atnSequence = "RECEIVE" /\ busy = "none"
AttentionAnswered ==
  (atn /\ clock /\ frame = "start" /\ mode = "browse")
    ~> (Ready \/ ~atn \/ reset \/ mode # "browse")

-----------------------------------------------------------------------------
(* The promise the drive implements *)

\* The place the next byte comes from: behind what is read, or, during a talk,
\* behind what is sent of the buffer.
ReadPlace(c) ==
  IF busy = "load" /\ c = secondaryAddress
  THEN channels[c].pos - Len(channels[c].buf) + sendIdx
  ELSE channels[c].pos

StreamOf(c) ==
  LET ch == channels[c]
  IN  IF ~ch.open THEN [state |-> "closed", name |-> NoName, data |-> <<>>, at |-> 0]
      ELSE IF ch.writing
      THEN [state |-> "writing", name |-> ch.file, data |-> ch.fil \o ch.buf, at |-> 0]
      ELSE [state |-> "reading", name |-> ch.file, data |-> <<>>, at |-> ReadPlace(c)]

Promise == INSTANCE FileService WITH
  Streams <- DataChannels, stored <- fs,
  stream <- [c \in DataChannels |-> StreamOf(c)]

\* Seen through its streams the drive keeps the promise of FileService: bytes
\* written are stored in order when the channel is closed, bytes read come in
\* order and never twice, EOI says exactly that the whole file was heard, and
\* no command touches a file in use.
KeepsPromise == Promise!Spec
=============================================================================
