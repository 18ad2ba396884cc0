------------------------------- MODULE Wd177x -------------------------------
(***************************************************************************)
(* The disk controller of the 1581 (wd177x.cpp) on the tracks DiskImage    *)
(* lays out for a D81: the stages of a command, the search for a sector's  *)
(* header and data mark, the data register and its request bit, with the   *)
(* processor polling the status and moving bytes at its own pace.          *)
(*                                                                         *)
(* The disk turns only while a byte is waited for (ReadByte), so one step  *)
(* is one byte under the head; the delays before and after a command are   *)
(* steps that may come at any time.  The bit for several sectors is part   *)
(* of the command's number, which then is none of those known: such a      *)
(* command does nothing, and the code for it is never reached.             *)
(***************************************************************************)
EXTENDS Integers, Sequences

CONSTANTS
  ImageCount,   \* images in the caddy, the first of which is inserted at first
  ReadOnly,     \* those that are read-only
  LastTrack,    \* 79 in the code
  LastSector,   \* 10
  SectorLength, \* 512
  Revolutions,  \* 5: the turns after which the search for a header is given up
  DataOf(_, _, _, _), \* what an image has in a sector: its bytes
  Commands,     \* the commands the program gives: number and the bits for mark and spin-up
  Given,        \* the bytes it writes
  MaxCommands   \* bound on the commands it gives and the changes of disk

RESTORE == 0
SEEK == 1
STEP == 2
STEP_IN == 4
STEP_OUT == 6
READ_SECTOR == 8
WRITE_SECTOR == 10
READ_ADDRESS == 12
FORCE_INTERRUPT == 13
READ_TRACK == 14
WRITE_TRACK == 15

SYNC == 161
ID == 254
MARK == 251
DELETED == 248
GAP == 78

Images == 1 .. ImageCount
Sides == 0 .. 1
Tracks == 0 .. LastTrack
Sectors == 1 .. LastSector

ASSUME DiskAssumption ==
  /\ ImageCount \in Nat \ {0} /\ ReadOnly \subseteq Images /\ LastTrack \in Nat /\ LastSector \in Nat \ {0}
  /\ SectorLength \in Nat \ {0} /\ Revolutions \in Nat \ {0} /\ MaxCommands \in Nat
  /\ Commands \subseteq [number : 0 .. 15, deleted : BOOLEAN, spin : BOOLEAN] /\ Given \subseteq 0 .. 255
  /\ \A i \in Images, t \in Tracks, side \in Sides, s \in Sectors :
       DataOf(i, t, side, s) \in [1 .. SectorLength -> 0 .. 255]

-----------------------------------------------------------------------------
(* The disk: OpenD81's tracks.  The three sync bytes are one cell, gaps are *)
(* one cell, and the CRC is a smaller sum, in two cells.                    *)

CRC(crc, byte) == (2 * crc + byte) % 64
CRCOf(mark, data) ==
  LET sum[n \in 0 .. Len(data)] ==
        IF n = 0 THEN CRC(63, mark) ELSE CRC(sum[n - 1], data[n])
  IN  sum[Len(data)]

Sector(t, side, s, mark, data) ==
  <<SYNC, ID, t, side, s, GAP, SYNC, mark>> \o data
    \o <<CRCOf(mark, data) \div 8, CRCOf(mark, data) % 8, GAP>>

SectorCells == SectorLength + 11
TrackLength == 1 + LastSector * SectorCells
Start(s)    == 1 + (s - 1) * SectorCells
SyncCells   == {Start(s) + k : s \in Sectors, k \in {0, 6}}
\* The data mark, the data and its CRC: what a write may change.
DataCells(s) == (Start(s) + 7) .. (Start(s) + 9 + SectorLength)

\* The head runs on to one byte past the end of the track, which is zero.
OpenD81(i) ==
  [t \in Tracks |-> [side \in Sides |-> [o \in 0 .. TrackLength |->
     IF o = 0 THEN GAP ELSE IF o = TrackLength THEN 0
     ELSE LET s == ((o - 1) \div SectorCells) + 1
          IN  Sector(t, side, s, MARK, DataOf(i, t, side, s))[((o - 1) % SectorCells) + 1]]]]

VARIABLES
  fdc,     \* the controller, its registers and its head
  disks,   \* [Images -> the bytes of each track and side]
  image,   \* the image in the drive
  prog     \* the program: where it is, what it saw, wrote and read for its last command

vars == <<fdc, disks, image, prog>>

Flags == {"busy", "drq", "lost", "seek", "spinup", "protect", "motor"}
Errors == {"lost", "seek", "protect"}
SubStates == {"SEARCHING_FOR_NEXT_ID", "WAIT_FOR_TRACK", "WAIT_FOR_SIDE", "WAIT_FOR_SECTOR",
              "WAIT_FOR_SECTOR_LENGTH", "WAIT_FOR_CRC1", "WAIT_FOR_CRC2", "READING_SECTOR",
              "WRITING_SECTOR"}
\* SEARCHING_FOR_NEXT_DATAID has the value of WAIT_FOR_SECTOR_LENGTH.
SEARCHING_FOR_NEXT_DATAID == "WAIT_FOR_SECTOR_LENGTH"

Init ==
  /\ image = 1
  /\ disks = [i \in Images |-> OpenD81(i)]
  /\ fdc = [type |-> 0, stage |-> 0, command |-> RESTORE, deleted |-> FALSE, spin |-> FALSE,
            status |-> {}, track |-> 0, sector |-> 1, data |-> 0, header |-> 0,
            at |-> 0, side |-> 0, dir |-> 1, offset |-> 0, sync |-> FALSE, turns |-> 0,
            sub |-> "SEARCHING_FOR_NEXT_ID", index |-> 0, wait |-> FALSE, crc |-> 0,
            mark |-> MARK, protected |-> FALSE]
  /\ prog = [at |-> "free", op |-> "none", where |-> [track |-> 0, side |-> 0, sector |-> 1, at |-> 0], seen |-> {}, moved |-> <<>>,
             left |-> MaxCommands]

\* CommandComplete: BUSY goes a little later.
CompletedAtOnce(f) == [f EXCEPT !.type = 0]
Completed(f) == [f EXCEPT !.type = 0, !.wait = TRUE]

-----------------------------------------------------------------------------
(* Execute *)

Chip(f) == fdc' = f /\ UNCHANGED <<image, prog>>

\* The 30 microseconds of BUSY that are left are longer than a turn of the loop
\* the program polls it in.
BusyGoes == /\ fdc.type = 0 /\ fdc.wait /\ prog.at # "rising"
            /\ Chip([fdc EXCEPT !.wait = FALSE, !.status = @ \ {"busy"}])
            /\ UNCHANGED disks

\* Stages 0 to 2: BUSY and nothing else; then the settling time, and a write
\* finds the disk protected.
BeginsKeeping == /\ fdc.type # 0 /\ fdc.stage = 0
          /\ Chip([fdc EXCEPT !.stage = 2, !.sync = IF fdc.type = 1 THEN @ ELSE FALSE,
                              !.status = {"busy"} \union @])
          /\ UNCHANGED disks
Begins == /\ fdc.type # 0 /\ fdc.stage = 0
          /\ Chip([fdc EXCEPT !.stage = 2, !.sync = IF fdc.type = 1 THEN @ ELSE FALSE,
                              !.status = {"busy"} \union IF fdc.type = 1 /\ fdc.spin
                                                         THEN {"spinup"} ELSE {}])
          /\ UNCHANGED disks
Settled ==
  /\ fdc.type \in {2, 3} /\ fdc.stage = 2
  /\ LET f == [fdc EXCEPT !.stage = 3]
     IN  IF fdc.command \in {WRITE_SECTOR, WRITE_TRACK} /\ fdc.protected
         THEN Chip(Completed([fdc EXCEPT !.status = @ \union {"protect"}]))
         ELSE CASE fdc.command = READ_TRACK -> Chip([f EXCEPT !.index = 0, !.offset = 0])
                [] fdc.command = WRITE_TRACK -> Chip(Completed(f))
                [] fdc.command = READ_ADDRESS -> Chip([f EXCEPT !.sub = "SEARCHING_FOR_NEXT_ID"])
                [] OTHER -> Chip([f EXCEPT !.turns = 0])
  /\ UNCHANGED disks

\* Type I: the index pulse and track zero show in the status; the head moves.
Pulse == /\ fdc.type = 1 /\ fdc.stage = 2 /\ UNCHANGED disks
         /\ \E pulse \in SUBSET {"drq"} :
              Chip([fdc EXCEPT !.status = ({"busy", "spinup"} \intersect @) \union pulse
                                            \union IF fdc.at = 0 THEN {} ELSE {"lost"}])
ClampedBelow(t) == IF t < 0 THEN 0 ELSE t
Clamped(t) == IF t < 0 THEN 0 ELSE IF t > LastTrack THEN LastTrack ELSE t
Moves ==
  /\ fdc.type = 1 /\ fdc.stage = 2 /\ UNCHANGED disks
  /\ LET to == CASE fdc.command = RESTORE -> 0
                 [] fdc.command = SEEK -> fdc.data
                 [] OTHER -> Clamped(fdc.at + fdc.dir)
         updates == fdc.command \in {RESTORE, SEEK} \/ fdc.command % 2 = 1
     IN  Chip(Completed([fdc EXCEPT !.at = to, !.track = IF updates THEN to ELSE @]))

\* SetDataRegister and GetDataRegister: the last byte was not taken, or not given.
RequestedUnseen(f) == [f EXCEPT !.status = @ \union {"drq"}]
Requested(f) == [f EXCEPT !.status = @ \union {"drq"}
                                       \union IF "drq" \in @ THEN {"lost"} ELSE {}]
SetDataRegister(f, b) == [Requested(f) EXCEPT !.data = b]

\* ReadByte: the head goes on, from past the end of the track to its start.
Turned == IF fdc.offset + 1 > TrackLength
          THEN [fdc EXCEPT !.offset = 0, !.turns = @ + 1]
          ELSE [fdc EXCEPT !.offset = @ + 1]
Under(f) == disks[image][f.at][f.side][f.offset]

\* The byte after the last sync byte is what is looked for.
Found(f, b) == f.sync /\ f.offset \notin SyncCells /\ Under(f) = b
Synced(f) == [f EXCEPT !.sync = f.offset \in SyncCells]
SearchingShort(f) ==
  IF f.turns >= Revolutions THEN Completed([f EXCEPT !.status = @ \union {"seek"}])
  ELSE [Synced(f) EXCEPT !.sub = IF Found(f, ID) THEN "WAIT_FOR_TRACK" ELSE @]
Searching(f) ==
  IF f.turns > Revolutions THEN Completed([f EXCEPT !.status = @ \union {"seek"}])
  ELSE [Synced(f) EXCEPT !.sub = IF Found(f, ID) THEN "WAIT_FOR_TRACK" ELSE @]
\* READ_SECTOR and WRITE_SECTOR until the header of the sector has gone by.
HeaderOfAnyTrack(f) ==
  CASE f.sub = "SEARCHING_FOR_NEXT_ID" -> Searching(f)
    [] f.sub = "WAIT_FOR_TRACK" -> [f EXCEPT !.sub = "WAIT_FOR_SIDE"]
    [] f.sub = "WAIT_FOR_SIDE" -> [f EXCEPT !.sub = "WAIT_FOR_SECTOR"]
    [] f.sub = "WAIT_FOR_SECTOR" ->
         [f EXCEPT !.sub = IF Under(f) = f.sector THEN SEARCHING_FOR_NEXT_DATAID
                                                  ELSE "SEARCHING_FOR_NEXT_ID"]
Header(f) ==
  CASE f.sub = "SEARCHING_FOR_NEXT_ID" -> Searching(f)
    [] f.sub = "WAIT_FOR_TRACK" ->
         [f EXCEPT !.sub = IF Under(f) = f.track THEN "WAIT_FOR_SIDE" ELSE "SEARCHING_FOR_NEXT_ID"]
    [] f.sub = "WAIT_FOR_SIDE" -> [f EXCEPT !.sub = "WAIT_FOR_SECTOR"]
    [] f.sub = "WAIT_FOR_SECTOR" ->
         [f EXCEPT !.sub = IF Under(f) = f.sector THEN SEARCHING_FOR_NEXT_DATAID
                                                  ELSE "SEARCHING_FOR_NEXT_ID"]
HeaderStates == {"SEARCHING_FOR_NEXT_ID", "WAIT_FOR_TRACK", "WAIT_FOR_SIDE", "WAIT_FOR_SECTOR"}

At(number) == fdc.type \in {2, 3} /\ fdc.stage = 3 /\ fdc.command = number

SearchesHeader == /\ At(READ_SECTOR) \/ At(WRITE_SECTOR)
                  /\ fdc.sub \in HeaderStates
                  /\ Chip(Header(Turned)) /\ UNCHANGED disks

ReadsSector ==
  /\ At(READ_SECTOR) /\ UNCHANGED disks
  /\ LET f == Turned
         g == [SetDataRegister(f, Under(f)) EXCEPT !.index = @ + 1]
     IN  \/ /\ fdc.sub = SEARCHING_FOR_NEXT_DATAID
            /\ Chip(IF Found(f, MARK)
                    THEN [Synced(f) EXCEPT !.index = 0, !.sub = "READING_SECTOR"]
                    ELSE Synced(f))
         \/ /\ fdc.sub = "READING_SECTOR"
            /\ Chip(IF g.index = SectorLength THEN Completed(g) ELSE g)

\* SetD81Byte under the head.
Writes(f, b) == disks' = [disks EXCEPT ![image][f.at][f.side][f.offset] = b]
WritesSector ==
  /\ At(WRITE_SECTOR)
  /\ LET f == Turned
         mark == IF f.deleted THEN DELETED ELSE MARK
         crc  == CRC(IF f.index = 0 THEN CRC(63, f.mark) ELSE f.crc, f.data)
         last == f.index + 1 = SectorLength
     IN  \/ /\ fdc.sub = SEARCHING_FOR_NEXT_DATAID
            /\ IF f.sync /\ f.offset \notin SyncCells
               THEN /\ Writes(f, mark)
                    /\ Chip([Synced(Requested(f)) EXCEPT !.mark = mark, !.index = 0,
                                                         !.sub = "WRITING_SECTOR"])
               ELSE Chip(Synced(f)) /\ UNCHANGED disks
         \/ /\ fdc.sub = "WRITING_SECTOR" /\ Writes(f, f.data)
            /\ Chip([Requested(f) EXCEPT !.crc = crc, !.index = @ + 1,
                       !.sub = IF last THEN "WAIT_FOR_CRC1" ELSE @])
         \/ /\ fdc.sub = "WAIT_FOR_CRC1" /\ Writes(f, f.crc \div 8)
            /\ Chip([f EXCEPT !.sub = "WAIT_FOR_CRC2"])
         \/ /\ fdc.sub = "WAIT_FOR_CRC2" /\ Writes(f, f.crc % 8)
            /\ Chip(Completed(f))

\* The six bytes of the next header, the last three in one cell here.
ReadsAddress ==
  /\ At(READ_ADDRESS) /\ UNCHANGED disks
  /\ LET f == Turned
         g == SetDataRegister(f, Under(f))
     IN  \/ /\ fdc.sub = "SEARCHING_FOR_NEXT_ID"
            /\ Chip([Synced(f) EXCEPT !.sub = IF Found(f, ID) THEN "WAIT_FOR_TRACK" ELSE @])
         \/ fdc.sub = "WAIT_FOR_TRACK" /\ Chip([g EXCEPT !.sub = "WAIT_FOR_SIDE"])
         \/ fdc.sub = "WAIT_FOR_SIDE" /\ Chip([g EXCEPT !.sub = "WAIT_FOR_SECTOR"])
         \/ /\ fdc.sub = "WAIT_FOR_SECTOR"
            /\ Chip([g EXCEPT !.sub = "WAIT_FOR_SECTOR_LENGTH", !.header = g.data])
         \/ /\ fdc.sub = "WAIT_FOR_SECTOR_LENGTH"
            /\ Chip(Completed([g EXCEPT !.sector = fdc.header]))

ReadsTrack ==
  /\ At(READ_TRACK) /\ UNCHANGED disks
  /\ LET f == Turned
         g == [SetDataRegister(f, Under(f)) EXCEPT !.index = @ + 1]
     IN  Chip(IF g.index = TrackLength THEN Completed(g) ELSE g)

Execute == \/ BusyGoes \/ Begins \/ Settled \/ Pulse \/ Moves \/ SearchesHeader \/ ReadsSector
           \/ WritesSector \/ ReadsAddress \/ ReadsTrack

-----------------------------------------------------------------------------
(* Read and Write, as the program in the 1581's ROM (external) uses them *)

\* The command register.  While BUSY only a forced interrupt is obeyed, but
\* the number and the bits of the command under way are overwritten.
TypeOf(number) == CASE number \in 0 .. 7 -> 1
                    [] number \in {READ_SECTOR, WRITE_SECTOR} -> 2
                    [] number \in {READ_ADDRESS, READ_TRACK, WRITE_TRACK} -> 3
                    [] OTHER -> fdc.type
WriteCommand(c) ==
  LET f == [fdc EXCEPT !.command = c.number, !.deleted = c.deleted, !.spin = c.spin]
      g == [f EXCEPT !.stage = 0, !.type = TypeOf(c.number),
                     !.status = IF c.number = WRITE_SECTOR THEN {"drq"} ELSE {},
                     !.sub = IF c.number \in {READ_SECTOR, WRITE_SECTOR, READ_ADDRESS}
                             THEN "SEARCHING_FOR_NEXT_ID" ELSE @,
                     !.dir = IF c.number \in {STEP_IN, STEP_IN + 1} THEN 1
                             ELSE IF c.number \in {STEP_OUT, STEP_OUT + 1} THEN -1 ELSE @]
  IN  fdc' = IF c.number = FORCE_INTERRUPT THEN Completed([f EXCEPT !.stage = 0, !.status = {}])
             ELSE IF "busy" \in fdc.status THEN f
             ELSE g

\* It gives a command when the last is over, and breaks one off at any time;
\* it seeks only tracks there are (nothing in the code holds it to them).
Command(c) ==
  /\ prog.left > 0
  /\ prog.at = "free" \/ c.number = FORCE_INTERRUPT
  /\ c.number = SEEK => fdc.data \in Tracks
  /\ WriteCommand(c)
  /\ prog' = [at |-> IF c.number = FORCE_INTERRUPT THEN "free" ELSE "rising",
              op |-> CASE c.number = READ_SECTOR -> "read"
                       [] c.number = WRITE_SECTOR -> "write"
                       [] OTHER -> "other",
              where |-> [track |-> fdc.track, side |-> fdc.side, sector |-> fdc.sector, at |-> fdc.at],
              seen |-> {}, moved |-> <<>>,
              left |-> prog.left - 1]
  /\ UNCHANGED <<disks, image>>

\* It reads the status until BUSY has come and gone, and serves requests between.
Poll ==
  /\ prog.at \in {"rising", "running"}
  /\ prog' = [prog EXCEPT !.seen = fdc.status,
        !.at = IF prog.at = "rising" THEN IF "busy" \in fdc.status THEN "running" ELSE @
               ELSE IF "busy" \notin fdc.status THEN "free"
               ELSE IF "drq" \in fdc.status /\ fdc.command >= READ_SECTOR THEN "moving" ELSE @]
  /\ UNCHANGED <<fdc, disks, image>>

ReadData ==
  /\ prog.at = "moving" /\ prog.op # "write"
  /\ fdc' = [fdc EXCEPT !.status = @ \ {"drq"}]
  /\ prog' = [prog EXCEPT !.at = "running",
                          !.moved = IF prog.op = "read" THEN Append(@, fdc.data) ELSE @]
  /\ UNCHANGED <<disks, image>>
WriteData(b) ==
  /\ prog.at = "moving" /\ prog.op = "write"
  /\ fdc' = [fdc EXCEPT !.data = b, !.status = @ \ {"drq"}]
  /\ prog' = [prog EXCEPT !.at = "running", !.moved = Append(@, b)]
  /\ UNCHANGED <<disks, image>>

\* Between commands it sets the registers and, by port A of the 8520, the side.
Register(f) == /\ prog.at = "free" /\ prog.left > 0
               /\ fdc' = f /\ UNCHANGED <<disks, image, prog>>
SetRegisters ==
  \/ \E t \in Tracks : \/ Register([fdc EXCEPT !.track = t])
                       \/ Register([fdc EXCEPT !.data = t, !.status = @ \ {"drq"}])
  \/ \E s \in 1 .. LastSector + 1 : Register([fdc EXCEPT !.sector = s])
  \/ \E side \in Sides : Register([fdc EXCEPT !.side = side])

\* The user changes the disk, at any time.
Insert(i) ==
  /\ prog.left > 0 /\ i # image /\ image' = i
  /\ fdc' = [fdc EXCEPT !.protected = i \in ReadOnly]
  /\ prog' = [prog EXCEPT !.op = "none", !.left = @ - 1]
  /\ UNCHANGED disks

Next == \/ Execute \/ Poll \/ ReadData \/ SetRegisters
        \/ \E c \in Commands : Command(c)
        \/ \E b \in Given : WriteData(b)
        \/ \E i \in Images : Insert(i)

Spec == Init /\ [][Next]_vars

\* The chip is clocked (Pi1581::Update calls Execute four times a cycle), and
\* the processor runs.
Clocked == /\ WF_vars(BusyGoes \/ Begins \/ Settled \/ SearchesHeader \/ ReadsSector
                       \/ WritesSector \/ ReadsAddress \/ ReadsTrack)
           /\ WF_vars(Moves) /\ WF_vars(Poll)
           /\ WF_vars(ReadData) /\ WF_vars(\E b \in Given : WriteData(b))

-----------------------------------------------------------------------------
(* Properties *)

Byte == 0 .. 255
TypeOK ==
  /\ fdc.type \in 0 .. 3 /\ fdc.stage \in {0, 2, 3} /\ fdc.command \in 0 .. 15
  /\ fdc.status \subseteq Flags /\ fdc.sub \in SubStates
  /\ fdc.track \in Tracks /\ fdc.at \in Tracks /\ fdc.side \in Sides
  /\ {fdc.sector, fdc.data, fdc.header, fdc.crc, fdc.mark} \subseteq Byte
  /\ fdc.offset \in 0 .. TrackLength /\ fdc.index \in 0 .. TrackLength
  /\ fdc.turns \in 0 .. Revolutions + 1
  /\ {fdc.deleted, fdc.spin, fdc.sync, fdc.wait, fdc.protected} \subseteq BOOLEAN
  /\ image \in Images
  /\ prog.at \in {"free", "rising", "running", "moving"}
  /\ prog.left \in 0 .. MaxCommands /\ Len(prog.moved) <= SectorLength + 1

\* The program saw a command of its own end.
Ended(op) == prog.at = "free" /\ prog.op = op
Asked == prog.where
OnDisk == [k \in 1 .. SectorCells |->
             disks[image][Asked.track][Asked.side][Start(Asked.sector) + k - 1]]

\* A read whose status shows no error and no byte left behind has given the
\* program the sector it asked for, byte for byte, however late it polled, and
\* whatever side, track and sector the commands before left (wd177x.cpp 266-357).
ReadsWhatIsThere ==
  Ended("read") /\ prog.seen \intersect (Errors \union {"drq"}) = {} =>
     prog.moved = SubSeq(OnDisk, 9, 8 + SectorLength)

\* A write whose status shows no error has left the sector with the program's
\* bytes in their order, a mark and the sum over both (wd177x.cpp 359-540).
WritesWhatIsGiven ==
  Ended("write") /\ prog.seen \intersect Errors = {} =>
     /\ Len(prog.moved) >= SectorLength
     /\ OnDisk = Sector(Asked.track, Asked.side, Asked.sector, fdc.mark,
                       SubSeq(prog.moved, 1, SectorLength))

\* No write changes anything but the mark, data and sum of the sector it was
\* given for: a search that takes a wrong byte for a header, or a write that
\* runs on, would (wd177x.cpp 418-540).
OnlyTheSector ==
  [][\A i \in Images : disks'[i] # disks[i] =>
       /\ i = image /\ fdc.track = fdc.at /\ fdc.sector \in Sectors
       /\ \A t \in Tracks, side \in Sides, o \in 0 .. TrackLength :
            disks'[i][t][side][o] # disks[i][t][side][o] =>
               t = fdc.at /\ side = fdc.side /\ o \in DataCells(fdc.sector)]_vars

\* The search is given up only for a sector the track does not have: the head
\* may start anywhere, and every header passes before the turns are counted
\* (wd177x.h CheckForSeekError).
FoundIfThere ==
  Ended("read") \/ Ended("write") =>
    ("seek" \in prog.seen => Asked.track # Asked.at \/ Asked.sector \notin Sectors)

\* A command the program gives ends: BUSY comes, so that the program sees it,
\* and goes, whatever the disk, and a sector that is not there is given up.
CommandEnds == prog.at = "rising" ~> prog.at = "free"
=============================================================================
