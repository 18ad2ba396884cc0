--------------------------- MODULE Pi1581_proofs ---------------------------
(***************************************************************************)
(* Proofs about the 1581.  First of its disk controller (Wd177x) by        *)
(* itself: a write changes nothing but the sector it is for; the sector    *)
(* asked for is found; what is read is it, and what is written is what the *)
(* program gave, with its sum.  Then of the board around it: its interrupt *)
(* line, its timers, and that the controller keeps all that on it.         *)
(***************************************************************************)
EXTENDS Pi1581, Induction, SequenceTheorems, TLAPS

-----------------------------------------------------------------------------
(* The cells of a track *)

\* Where sectors begin, and that a cell is of one sector only.
LEMMA SectorsOfTrack ==
  /\ SectorCells \in Nat /\ SectorCells = SectorLength + 11 /\ SectorLength \in Nat \ {0}
  /\ TrackLength \in Nat
  /\ \A s \in Sectors : /\ Start(s) \in Nat /\ Start(s) >= 1
                        /\ Start(s) + SectorCells <= TrackLength
  /\ \A s, u \in Sectors : \A k, j \in 0 .. SectorCells - 1 :
       Start(s) + k = Start(u) + j => s = u /\ k = j
<1> DEFINE c == SectorCells
<1>1. SectorLength \in Nat \ {0} /\ LastSector \in Nat \ {0}
  BY DiskAssumption
<1>2. c \in Nat /\ c = SectorLength + 11
  BY <1>1 DEF SectorCells
<1>3. \A m \in Nat : \A x, y \in Int : x < y => x * m + m <= y * m
  OBVIOUS
<1>4. \A s \in Sectors : s \in Int /\ 0 <= s - 1 /\ s - 1 < LastSector
  BY <1>1 DEF Sectors
<1>5. \A s \in Sectors : Start(s) = 1 + (s - 1) * c
  BY DEF Start
<1>6. TrackLength = 1 + LastSector * c
  BY DEF TrackLength
<1> HIDE DEF c
<1>7. \A s \in Sectors : /\ (s - 1) * c \in Nat
                         /\ (s - 1) * c + c <= LastSector * c
  <2> SUFFICES ASSUME NEW s \in Sectors
               PROVE  (s - 1) * c \in Nat /\ (s - 1) * c + c <= LastSector * c
    OBVIOUS
  <2>1. (s - 1) * c + c <= LastSector * c
    BY <1>1, <1>2, <1>3, <1>4
  <2>2. s - 1 \in Nat
    BY <1>4
  <2>3. QED
    BY <1>2, <2>1, <2>2
<1>8. LastSector * c \in Nat
  BY <1>1, <1>2
<1>9. \A s, u \in Sectors : s < u => Start(s) + c <= Start(u)
  <2> SUFFICES ASSUME NEW s \in Sectors, NEW u \in Sectors, s < u
               PROVE  Start(s) + c <= Start(u)
    OBVIOUS
  <2>1. s - 1 < u - 1 /\ s - 1 \in Int /\ u - 1 \in Int
    BY <1>4
  <2>2. (s - 1) * c + c <= (u - 1) * c
    BY <1>2, <1>3, <2>1
  <2>3. QED
    BY <1>2, <1>5, <1>7, <2>2
<1>10. \A s \in Sectors : /\ Start(s) \in Nat /\ Start(s) >= 1
                          /\ Start(s) + c <= TrackLength
  BY <1>2, <1>5, <1>6, <1>7, <1>8
<1>11. \A s, u \in Sectors : \A k, j \in 0 .. c - 1 :
         Start(s) + k = Start(u) + j => s = u /\ k = j
  <2> SUFFICES ASSUME NEW s \in Sectors, NEW u \in Sectors,
                      NEW k \in 0 .. c - 1, NEW j \in 0 .. c - 1, Start(s) + k = Start(u) + j
               PROVE  s = u /\ k = j
    OBVIOUS
  <2>1. ~(s < u) /\ ~(u < s)
    BY <1>2, <1>9, <1>10
  <2>2. s = u
    BY <1>4, <2>1
  <2>3. QED
    BY <1>2, <1>10, <2>2
<1>12. QED
  BY <1>1, <1>2, <1>6, <1>8, <1>10, <1>11 DEF c

\* The cells with sync bytes, by their place in the sector.
LEMMA SyncPlaces ==
  ASSUME NEW s \in Sectors, NEW k \in 0 .. SectorCells - 1
  PROVE  Start(s) + k \in SyncCells <=> k \in {0, 6}
<1>1. 0 \in 0 .. SectorCells - 1 /\ 6 \in 0 .. SectorCells - 1
  BY SectorsOfTrack
<1>2. Start(s) + k \in SyncCells <=> \E u \in Sectors : \E j \in {0, 6} : Start(s) + k = Start(u) + j
  BY DEF SyncCells
<1>3. QED
  BY <1>1, <1>2, SectorsOfTrack

LEMMA SyncInTrack ==
  ASSUME NEW o \in SyncCells
  PROVE  \E s \in Sectors : o = Start(s) \/ o = Start(s) + 6
<1>1. PICK s \in Sectors, k \in {0, 6} : o = Start(s) + k
  BY DEF SyncCells
<1>2. QED
  BY <1>1, SectorsOfTrack

\* The cells of OpenD81 are those of the sectors' bytes.
LEMMA PlaceOfCell ==
  ASSUME NEW s \in Sectors, NEW k \in 0 .. SectorCells - 1
  PROVE  /\ (((Start(s) + k) - 1) \div SectorCells) + 1 = s
         /\ ((Start(s) + k) - 1) % SectorCells = k
<1> DEFINE c == SectorCells
           m == s - 1
<1>1. c \in Nat /\ c > 0 /\ m \in Nat /\ Start(s) = 1 + m * c /\ s \in Int
  BY SectorsOfTrack DEF Start, Sectors
<1> HIDE DEF c, m
<1>2. \A b \in Nat \ {0} : \A n \in Nat : \A x \in 0 .. b - 1 :
        (n * b + x) \div b = n /\ (n * b + x) % b = x
  OBVIOUS
<1>3. k \in 0 .. c - 1
  BY DEF c
<1>4. m * c \in Nat
  BY <1>1
<1>5. (Start(s) + k) - 1 = m * c + k
  BY <1>1, <1>3, <1>4
<1>6. (m * c + k) \div c = m /\ (m * c + k) % c = k
  <2>1. c \in Nat \ {0}
    BY <1>1
  <2>2. QED
    BY <1>1, <1>2, <1>3, <2>1, Zenon
<1>7. QED
  BY <1>1, <1>5, <1>6 DEF c, m

-----------------------------------------------------------------------------
(* The invariant *)

FdcFields == {"type", "stage", "command", "deleted", "spin", "status", "track", "sector",
              "data", "header", "at", "side", "dir", "offset", "sync", "turns", "sub",
              "index", "wait", "crc", "mark", "protected"}
ProgFields == {"at", "op", "where", "seen", "moved", "left"}

\* The disks are cells; what is in them is not said.
DisksShape(d) ==
  /\ DOMAIN d = Images
  /\ \A i \in Images : DOMAIN d[i] = Tracks
  /\ \A i \in Images, t \in Tracks : DOMAIN d[i][t] = Sides
  /\ \A i \in Images, t \in Tracks, side \in Sides : DOMAIN d[i][t][side] = 0 .. TrackLength

Shapes == DOMAIN fdc = FdcFields /\ DOMAIN prog = ProgFields /\ DisksShape(disks)

\* The controller's head and registers, as far as they say where it writes.
HeadInv ==
  /\ fdc.type \in 0 .. 3 /\ fdc.stage \in {0, 2, 3} /\ fdc.command \in 0 .. 15
  /\ fdc.at \in Tracks /\ fdc.side \in Sides /\ fdc.offset \in 0 .. TrackLength
  /\ fdc.dir \in {1, -1} /\ image \in Images
  /\ fdc.type = 1 => fdc.command \in 0 .. 7 /\ (fdc.command = SEEK => fdc.data \in Tracks)
  /\ fdc.type = 2 => fdc.command \in {READ_SECTOR, WRITE_SECTOR}
  /\ fdc.type = 3 => fdc.command \in {READ_ADDRESS, READ_TRACK, WRITE_TRACK}

\* The program has seen a command begin before it takes it for ended: while one is
\* carried out, the status says BUSY.
ProgramInv ==
  /\ prog.at \in {"free", "rising", "running", "moving"}
  /\ prog.at = "free" => fdc.type = 0 /\ "busy" \notin fdc.status
  /\ prog.at \in {"running", "moving"} /\ fdc.type # 0 => fdc.stage # 0
  /\ fdc.type # 0 => (fdc.stage # 0 <=> "busy" \in fdc.status)
  /\ prog.at = "moving" => fdc.command >= READ_SECTOR

\* Every header is where it was laid out, and no data mark looks like one.
Layout(d) ==
  \A i \in Images, t \in Tracks, side \in Sides, s \in Sectors :
    /\ d[i][t][side][Start(s) + 1] = ID
    /\ d[i][t][side][Start(s) + 2] = t
    /\ d[i][t][side][Start(s) + 4] = s
    /\ d[i][t][side][Start(s) + 7] # ID

\* While a sector is looked for: where the head is in which state of the search;
\* then, where it is in which state of a write.
AtHeader(k) == ~fdc.sync /\ \E s \in Sectors : fdc.offset = Start(s) + k
OfSector(k) == fdc.track = fdc.at /\ fdc.sector \in Sectors /\ fdc.offset = Start(fdc.sector) + k
HeaderPosition ==
  /\ fdc.sub = "SEARCHING_FOR_NEXT_ID" /\ fdc.sync => fdc.offset \in SyncCells
  /\ fdc.sub = "WAIT_FOR_TRACK" => AtHeader(1)
  /\ fdc.sub = "WAIT_FOR_SIDE" => fdc.track = fdc.at /\ AtHeader(2)
  /\ fdc.sub = "WAIT_FOR_SECTOR" => fdc.track = fdc.at /\ AtHeader(3)
Position ==
  /\ HeaderPosition
  /\ fdc.sub = SEARCHING_FOR_NEXT_DATAID =>
       \/ ~fdc.sync /\ (OfSector(4) \/ OfSector(5))
       \/ fdc.sync /\ OfSector(6)
  /\ fdc.sub = "WRITING_SECTOR" =>
       fdc.index \in 0 .. SectorLength - 1 /\ OfSector(7 + fdc.index)
  /\ fdc.sub = "WAIT_FOR_CRC1" => OfSector(7 + SectorLength)
  /\ fdc.sub = "WAIT_FOR_CRC2" => OfSector(8 + SectorLength)
WriteInv ==
  fdc.type = 2 /\ fdc.command = WRITE_SECTOR =>
    /\ fdc.stage # 3 => fdc.sub = "SEARCHING_FOR_NEXT_ID"
    /\ fdc.stage = 2 => ~fdc.sync
    /\ fdc.stage = 3 => Position

Inv == Shapes /\ HeadInv /\ ProgramInv /\ Layout(disks) /\ WriteInv

-----------------------------------------------------------------------------
(* The controller's steps that write nothing *)

\* The head has gone on by one cell.
LEMMA HeadGoesOn ==
  ASSUME Shapes, HeadInv, NEW f, f = Turned
  PROVE  /\ DOMAIN f = FdcFields
         /\ f.type = fdc.type /\ f.stage = fdc.stage /\ f.command = fdc.command
         /\ f.status = fdc.status /\ f.track = fdc.track /\ f.sector = fdc.sector
         /\ f.data = fdc.data /\ f.at = fdc.at /\ f.side = fdc.side /\ f.dir = fdc.dir
         /\ f.sync = fdc.sync /\ f.sub = fdc.sub /\ f.index = fdc.index
         /\ f.deleted = fdc.deleted /\ f.crc = fdc.crc /\ f.mark = fdc.mark
         /\ f.offset \in 0 .. TrackLength
         /\ fdc.offset < TrackLength => f.offset = fdc.offset + 1
<1>1. DOMAIN fdc = FdcFields /\ fdc.offset \in 0 .. TrackLength /\ TrackLength \in Nat
  BY SectorsOfTrack DEF Shapes, HeadInv
<1>2. CASE fdc.offset + 1 > TrackLength
  <2>1. f = [fdc EXCEPT !.offset = 0, !.turns = @ + 1]
    BY <1>2 DEF Turned
  <2>2. QED
    BY <1>1, <1>2, <2>1 DEF FdcFields
<1>3. CASE ~(fdc.offset + 1 > TrackLength)
  <2>1. f = [fdc EXCEPT !.offset = @ + 1]
    BY <1>3 DEF Turned
  <2>2. QED
    BY <1>1, <1>3, <2>1 DEF FdcFields
<1>4. QED
  BY <1>2, <1>3

\* What a step of the controller needs to keep, when no sector is being written.
Same == UNCHANGED <<disks, image, prog>>
LEMMA NothingWritten ==
  ASSUME Inv, Same, DOMAIN fdc' = FdcFields, HeadInv',
         fdc'.type = 0 \/ (fdc.type # 0 /\ fdc'.stage # 0 /\ "busy" \in fdc'.status),
         prog.at = "free" => "busy" \notin fdc'.status, fdc'.command = fdc.command,
         fdc'.type = 2 /\ fdc'.command = WRITE_SECTOR => WriteInv'
  PROVE  Inv'
<1>1. Shapes'
  BY DEF Inv, Shapes, DisksShape, Same
<1>2. ProgramInv'
  BY DEF Inv, ProgramInv, Same
<1>3. Layout(disks')
  BY DEF Inv, Layout, Same
<1>4. WriteInv'
  BY DEF WriteInv
<1>5. QED
  BY <1>1, <1>2, <1>3, <1>4 DEF Inv

LEMMA BusyGoesKeeps == ASSUME Inv, BusyGoes PROVE Inv'
<1>1. DOMAIN fdc = FdcFields /\ HeadInv /\ fdc.type = 0
  BY DEF Inv, Shapes, BusyGoes
<1>2. Same /\ fdc' = [fdc EXCEPT !.wait = FALSE, !.status = @ \ {"busy"}]
  BY DEF BusyGoes, Chip, Same
<1>3. /\ DOMAIN fdc' = FdcFields /\ fdc'.type = 0 /\ fdc'.stage = fdc.stage
      /\ fdc'.command = fdc.command /\ fdc'.at = fdc.at /\ fdc'.side = fdc.side
      /\ fdc'.offset = fdc.offset /\ fdc'.dir = fdc.dir /\ "busy" \notin fdc'.status
  BY <1>1, <1>2 DEF FdcFields
<1>4. HeadInv'
  BY <1>1, <1>2, <1>3 DEF HeadInv, Same
<1>5. QED
  BY <1>2, <1>3, <1>4, NothingWritten

LEMMA BeginsKeeps == ASSUME Inv, Begins PROVE Inv'
<1>1. /\ DOMAIN fdc = FdcFields /\ HeadInv /\ ProgramInv /\ WriteInv
      /\ fdc.type # 0 /\ fdc.stage = 0
  BY DEF Inv, Shapes, Begins
<1> DEFINE sync == IF fdc.type = 1 THEN fdc.sync ELSE FALSE
           status == {"busy"} \union IF fdc.type = 1 /\ fdc.spin THEN {"spinup"} ELSE {}
<1>2. Same /\ fdc' = [fdc EXCEPT !.stage = 2, !.sync = sync, !.status = status]
  BY DEF Begins, Chip, Same
<1>3. "busy" \in status /\ (fdc.type = 2 => sync = FALSE)
  OBVIOUS
<1> HIDE DEF sync, status
<1>4. /\ DOMAIN fdc' = FdcFields /\ fdc'.type = fdc.type /\ fdc'.stage = 2
      /\ fdc'.command = fdc.command /\ fdc'.at = fdc.at /\ fdc'.side = fdc.side
      /\ fdc'.offset = fdc.offset /\ fdc'.dir = fdc.dir /\ "busy" \in fdc'.status
      /\ fdc'.data = fdc.data /\ fdc'.sub = fdc.sub /\ fdc'.sync = sync
  BY <1>1, <1>2, <1>3 DEF FdcFields
<1>5. HeadInv'
  BY <1>1, <1>2, <1>4 DEF HeadInv, Same
<1>6. prog.at # "free"
  BY <1>1 DEF ProgramInv
<1>7. WriteInv'
  BY <1>1, <1>3, <1>4 DEF WriteInv
<1>8. QED
  BY <1>1, <1>2, <1>4, <1>5, <1>6, <1>7, NothingWritten

LEMMA SettledKeeps == ASSUME Inv, Settled PROVE Inv'
<1>1. /\ DOMAIN fdc = FdcFields /\ HeadInv /\ ProgramInv /\ WriteInv
      /\ fdc.type \in {2, 3} /\ fdc.stage = 2
  BY DEF Inv, Shapes, Settled
<1>2. Same /\ prog.at # "free" /\ "busy" \in fdc.status
  BY <1>1 DEF Settled, Chip, Same, ProgramInv
<1>3. \/ fdc' = Completed([fdc EXCEPT !.status = @ \union {"protect"}])
      \/ fdc.command = READ_TRACK /\ fdc' = [[fdc EXCEPT !.stage = 3] EXCEPT !.index = 0, !.offset = 0]
      \/ fdc' = Completed([fdc EXCEPT !.stage = 3])
      \/ fdc.command = READ_ADDRESS /\
           fdc' = [[fdc EXCEPT !.stage = 3] EXCEPT !.sub = "SEARCHING_FOR_NEXT_ID"]
      \/ fdc' = [[fdc EXCEPT !.stage = 3] EXCEPT !.turns = 0]
  BY <1>1 DEF Settled, Chip
<1>4. /\ DOMAIN fdc' = FdcFields
      /\ fdc'.type = 0 \/ (fdc'.type = fdc.type /\ fdc'.stage = 3)
      /\ fdc'.stage \in {2, 3}
      /\ fdc'.command = fdc.command /\ fdc'.at = fdc.at /\ fdc'.side = fdc.side
      /\ fdc'.offset \in {fdc.offset, 0} /\ fdc'.dir = fdc.dir /\ "busy" \in fdc'.status
      /\ fdc'.data = fdc.data /\ fdc'.sync = fdc.sync
      /\ fdc'.sub \in {fdc.sub, "SEARCHING_FOR_NEXT_ID"}
  <2>1. CASE fdc' = Completed([fdc EXCEPT !.status = @ \union {"protect"}])
    BY <1>1, <1>2, <2>1 DEF FdcFields, Completed
  <2>2. CASE fdc' = [[fdc EXCEPT !.stage = 3] EXCEPT !.index = 0, !.offset = 0]
    BY <1>1, <1>2, <2>2 DEF FdcFields
  <2>3. CASE fdc' = Completed([fdc EXCEPT !.stage = 3])
    BY <1>1, <1>2, <2>3 DEF FdcFields, Completed
  <2>4. CASE fdc' = [[fdc EXCEPT !.stage = 3] EXCEPT !.sub = "SEARCHING_FOR_NEXT_ID"]
    BY <1>1, <1>2, <2>4 DEF FdcFields
  <2>5. CASE fdc' = [[fdc EXCEPT !.stage = 3] EXCEPT !.turns = 0]
    BY <1>1, <1>2, <2>5 DEF FdcFields
  <2>6. QED
    BY <1>3, <2>1, <2>2, <2>3, <2>4, <2>5
<1>5. HeadInv'
  BY <1>1, <1>2, <1>4, SectorsOfTrack DEF HeadInv, Same
<1>6. WriteInv'
  BY <1>1, <1>4 DEF WriteInv, Position, HeaderPosition, SEARCHING_FOR_NEXT_DATAID
<1>7. QED
  BY <1>1, <1>2, <1>4, <1>5, <1>6, NothingWritten

LEMMA PulseKeeps == ASSUME Inv, Pulse PROVE Inv'
<1>1. /\ DOMAIN fdc = FdcFields /\ HeadInv /\ ProgramInv
      /\ fdc.type = 1 /\ fdc.stage = 2
  BY DEF Inv, Shapes, Pulse
<1>2. PICK pulse : fdc' = [fdc EXCEPT !.status = ({"busy", "spinup"} \intersect @) \union pulse
                                            \union IF fdc.at = 0 THEN {} ELSE {"lost"}]
  BY DEF Pulse, Chip
<1>3. Same /\ "busy" \in fdc.status /\ prog.at # "free"
  BY <1>1 DEF Pulse, Chip, Same, ProgramInv
<1>4. /\ DOMAIN fdc' = FdcFields /\ fdc'.type = 1 /\ fdc'.stage = 2
      /\ fdc'.command = fdc.command /\ fdc'.at = fdc.at /\ fdc'.side = fdc.side
      /\ fdc'.offset = fdc.offset /\ fdc'.dir = fdc.dir /\ "busy" \in fdc'.status
      /\ fdc'.data = fdc.data
  BY <1>1, <1>2, <1>3 DEF FdcFields
<1>5. HeadInv'
  BY <1>1, <1>3, <1>4 DEF HeadInv, Same
<1>6. QED
  BY <1>1, <1>3, <1>4, <1>5, NothingWritten

\* The head stays on the disk.
LEMMA MovesKeeps == ASSUME Inv, Moves PROVE Inv'
<1> DEFINE to == CASE fdc.command = RESTORE -> 0
                   [] fdc.command = SEEK -> fdc.data
                   [] OTHER -> Clamped(fdc.at + fdc.dir)
           track == IF fdc.command \in {RESTORE, SEEK} \/ fdc.command % 2 = 1
                    THEN to ELSE fdc.track
<1>1. /\ DOMAIN fdc = FdcFields /\ HeadInv /\ ProgramInv
      /\ fdc.type = 1 /\ fdc.stage = 2
  BY DEF Inv, Shapes, Moves
<1>2. Same /\ "busy" \in fdc.status /\ prog.at # "free"
  BY <1>1 DEF Moves, Chip, Same, ProgramInv
<1>3. fdc' = Completed([fdc EXCEPT !.at = to, !.track = track])
  BY DEF Moves, Chip
<1>4. to \in Tracks
  <2>1. LastTrack \in Nat
    BY DiskAssumption
  <2>2. CASE fdc.command = RESTORE
    <3>1. to = 0
      BY <2>2, SMT DEF RESTORE, SEEK
    <3>2. QED
      BY <2>1, <3>1 DEF Tracks
  <2>3. CASE fdc.command # RESTORE /\ fdc.command = SEEK
    <3>1. to = fdc.data
      BY <2>3
    <3>2. QED
      BY <1>1, <2>3, <3>1 DEF HeadInv
  <2>4. CASE fdc.command # RESTORE /\ fdc.command # SEEK
    <3>1. to = Clamped(fdc.at + fdc.dir)
      BY <2>4
    <3>2. fdc.at + fdc.dir \in Int
      BY <1>1, <2>1 DEF HeadInv, Tracks
    <3>3. QED
      BY <2>1, <3>1, <3>2 DEF Clamped, Tracks
  <2> HIDE DEF to
  <2>5. QED
    BY <2>2, <2>3, <2>4
<1> HIDE DEF to, track
<1>5. /\ DOMAIN fdc' = FdcFields /\ fdc'.type = 0 /\ fdc'.stage = 2
      /\ fdc'.command = fdc.command /\ fdc'.at = to /\ fdc'.side = fdc.side
      /\ fdc'.offset = fdc.offset /\ fdc'.dir = fdc.dir /\ fdc'.data = fdc.data
  BY <1>1, <1>3 DEF FdcFields, Completed
<1>6. HeadInv'
  BY <1>1, <1>2, <1>4, <1>5 DEF HeadInv, Same
<1>7. QED
  BY <1>1, <1>2, <1>5, <1>6, NothingWritten

-----------------------------------------------------------------------------
(* The search for a header and what is read *)

LEMMA SubStateNames ==
  /\ SEARCHING_FOR_NEXT_DATAID = "WAIT_FOR_SECTOR_LENGTH"
  /\ ID = 254 /\ MARK = 251 /\ DELETED = 248
BY DEF SEARCHING_FOR_NEXT_DATAID, ID, MARK, DELETED

\* What the search has made of f.
LEMMA HeaderIs ==
  ASSUME NEW f, DOMAIN f = FdcFields, f.sub \in HeaderStates, NEW g, g = Header(f)
  PROVE  /\ DOMAIN g = FdcFields /\ g.type \in {0, f.type} /\ g.stage = f.stage
         /\ g.command = f.command /\ g.at = f.at /\ g.side = f.side /\ g.offset = f.offset
         /\ g.dir = f.dir /\ g.data = f.data /\ g.track = f.track /\ g.sector = f.sector
         /\ "busy" \in f.status => "busy" \in g.status
         /\ f.sub = "SEARCHING_FOR_NEXT_ID" =>
              \/ g.type = 0
              \/ /\ g.sync = (f.offset \in SyncCells)
                 /\ g.sub = IF Found(f, ID) THEN "WAIT_FOR_TRACK" ELSE f.sub
         /\ f.sub # "SEARCHING_FOR_NEXT_ID" => g.sync = f.sync
         /\ f.sub = "WAIT_FOR_TRACK" =>
              g.sub = IF Under(f) = f.track THEN "WAIT_FOR_SIDE" ELSE "SEARCHING_FOR_NEXT_ID"
         /\ f.sub = "WAIT_FOR_SIDE" => g.sub = "WAIT_FOR_SECTOR"
         /\ f.sub = "WAIT_FOR_SECTOR" =>
              g.sub = IF Under(f) = f.sector THEN SEARCHING_FOR_NEXT_DATAID
                      ELSE "SEARCHING_FOR_NEXT_ID"
<1>1. CASE f.sub = "SEARCHING_FOR_NEXT_ID"
  <2>1. g = Searching(f)
    BY <1>1 DEF Header
  <2>2. CASE f.turns > Revolutions
    <3>1. g = Completed([f EXCEPT !.status = @ \union {"seek"}])
      BY <2>1, <2>2 DEF Searching
    <3>2. QED
      BY <1>1, <3>1 DEF Completed, FdcFields
  <2>3. CASE ~(f.turns > Revolutions)
    <3> DEFINE b == f.offset \in SyncCells
               sub == IF Found(f, ID) THEN "WAIT_FOR_TRACK" ELSE f.sub
    <3>1. g = [[f EXCEPT !.sync = b] EXCEPT !.sub = sub]
      BY <2>1, <2>3 DEF Searching, Synced, FdcFields
    <3> HIDE DEF b, sub
    <3>2. /\ DOMAIN g = FdcFields /\ g.type = f.type /\ g.stage = f.stage
          /\ g.command = f.command /\ g.at = f.at /\ g.side = f.side /\ g.offset = f.offset
          /\ g.dir = f.dir /\ g.data = f.data /\ g.track = f.track /\ g.sector = f.sector
          /\ g.status = f.status /\ g.sync = b /\ g.sub = sub
      BY <3>1 DEF FdcFields
    <3>3. QED
      BY <1>1, <3>2 DEF b, sub
  <2>4. QED
    BY <2>2, <2>3
<1>2. CASE f.sub # "SEARCHING_FOR_NEXT_ID"
  <2> DEFINE sub == IF f.sub = "WAIT_FOR_TRACK"
                    THEN IF Under(f) = f.track THEN "WAIT_FOR_SIDE" ELSE "SEARCHING_FOR_NEXT_ID"
                    ELSE IF f.sub = "WAIT_FOR_SIDE" THEN "WAIT_FOR_SECTOR"
                    ELSE IF Under(f) = f.sector THEN SEARCHING_FOR_NEXT_DATAID
                    ELSE "SEARCHING_FOR_NEXT_ID"
  <2>1. g = [f EXCEPT !.sub = sub]
    <3>1. CASE f.sub = "WAIT_FOR_TRACK"
      BY <3>1 DEF Header
    <3>2. CASE f.sub = "WAIT_FOR_SIDE"
      BY <3>2 DEF Header
    <3>3. CASE f.sub = "WAIT_FOR_SECTOR"
      BY <3>3 DEF Header
    <3> HIDE DEF sub
    <3>4. QED
      BY <1>2, <3>1, <3>2, <3>3 DEF HeaderStates
  <2> HIDE DEF sub
  <2>2. /\ DOMAIN g = FdcFields /\ g.type = f.type /\ g.stage = f.stage
        /\ g.command = f.command /\ g.at = f.at /\ g.side = f.side /\ g.offset = f.offset
        /\ g.dir = f.dir /\ g.data = f.data /\ g.track = f.track /\ g.sector = f.sector
        /\ g.status = f.status /\ g.sync = f.sync /\ g.sub = sub
    BY <2>1 DEF FdcFields
  <2>3. QED
    BY <1>2, <2>2 DEF sub
<1>3. QED
  BY <1>1, <1>2

\* A cell of a search: the head goes on to the place of the next state.
LEMMA SearchesOn ==
  ASSUME Shapes, HeadInv, Layout(disks), fdc.sub \in HeaderStates, fdc' = Header(Turned),
         fdc'.type # 0
  PROVE  HeaderPosition =>
           /\ HeaderPosition' /\ fdc'.sub \in HeaderStates \union {SEARCHING_FOR_NEXT_DATAID}
           /\ fdc'.sub = SEARCHING_FOR_NEXT_DATAID => ~fdc'.sync /\ OfSector(4)'
<1> SUFFICES ASSUME HeaderPosition
    PROVE  /\ HeaderPosition' /\ fdc'.sub \in HeaderStates \union {SEARCHING_FOR_NEXT_DATAID}
           /\ fdc'.sub = SEARCHING_FOR_NEXT_DATAID => ~fdc'.sync /\ OfSector(4)'
  OBVIOUS
<1> DEFINE f == Turned
<1>1. fdc.at \in Tracks /\ fdc.side \in Sides /\ image \in Images
  BY DEF HeadInv
<1>2. /\ DOMAIN f = FdcFields /\ f.track = fdc.track /\ f.sector = fdc.sector
      /\ f.at = fdc.at /\ f.side = fdc.side /\ f.sync = fdc.sync /\ f.sub = fdc.sub
      /\ fdc.offset < TrackLength => f.offset = fdc.offset + 1
  BY HeadGoesOn
<1>3. Under(f) = disks[image][fdc.at][fdc.side][f.offset]
  BY <1>2 DEF Under
<1> HIDE DEF f
<1>4. /\ fdc'.at = fdc.at /\ fdc'.offset = f.offset
      /\ fdc'.track = fdc.track /\ fdc'.sector = fdc.sector
      /\ fdc.sub = "SEARCHING_FOR_NEXT_ID" =>
           /\ fdc'.sync = (f.offset \in SyncCells)
           /\ fdc'.sub = IF Found(f, ID) THEN "WAIT_FOR_TRACK" ELSE fdc.sub
      /\ fdc.sub # "SEARCHING_FOR_NEXT_ID" => fdc'.sync = fdc.sync
      /\ fdc.sub = "WAIT_FOR_TRACK" =>
           fdc'.sub = IF Under(f) = fdc.track THEN "WAIT_FOR_SIDE" ELSE "SEARCHING_FOR_NEXT_ID"
      /\ fdc.sub = "WAIT_FOR_SIDE" => fdc'.sub = "WAIT_FOR_SECTOR"
      /\ fdc.sub = "WAIT_FOR_SECTOR" =>
           fdc'.sub = IF Under(f) = fdc.sector THEN SEARCHING_FOR_NEXT_DATAID
                      ELSE "SEARCHING_FOR_NEXT_ID"
  BY <1>2, HeaderIs DEF f
<1>5. \A s \in Sectors : \A k \in 0 .. 6 :
        fdc.offset = Start(s) + k => f.offset = Start(s) + k + 1
  BY <1>2, SectorsOfTrack
<1>6. CASE fdc.sub = "SEARCHING_FOR_NEXT_ID"
  <2>1. CASE ~Found(f, ID)
    BY <1>4, <1>6, <2>1 DEF HeaderPosition, HeaderStates, SEARCHING_FOR_NEXT_DATAID
  <2>2. CASE Found(f, ID)
    <3>1. fdc.offset \in SyncCells /\ f.offset \notin SyncCells /\ Under(f) = ID
      BY <1>2, <1>6, <2>2 DEF Found, HeaderPosition
    <3>2. PICK s \in Sectors : fdc.offset = Start(s) \/ fdc.offset = Start(s) + 6
      BY <3>1, SyncInTrack
    <3>3. fdc.offset # Start(s) + 6
      <4>1. ASSUME fdc.offset = Start(s) + 6 PROVE FALSE
        <5>1. f.offset = Start(s) + 7
          BY <1>5, <4>1, SectorsOfTrack
        <5>2. disks[image][fdc.at][fdc.side][Start(s) + 7] # ID
          BY <1>1 DEF Layout
        <5>3. QED
          BY <1>3, <3>1, <5>1, <5>2
      <4>2. QED
        BY <4>1
    <3>4. f.offset = Start(s) + 1
      BY <1>5, <3>2, <3>3, SectorsOfTrack
    <3>5. ~fdc'.sync /\ fdc'.sub = "WAIT_FOR_TRACK" /\ fdc'.offset = Start(s) + 1
      <4>1. ~fdc'.sync
        BY <1>4, <1>6, <3>1
      <4>2. QED
        BY <1>4, <1>6, <2>2, <3>4, <4>1
    <3>6. QED
      BY <3>5, SubStateNames DEF HeaderPosition, AtHeader, HeaderStates
  <2>3. QED
    BY <2>1, <2>2
<1>7. CASE fdc.sub = "WAIT_FOR_TRACK"
  <2>1. PICK s \in Sectors : fdc.offset = Start(s) + 1
    BY <1>7 DEF HeaderPosition, AtHeader
  <2>2. f.offset = Start(s) + 2 /\ ~fdc.sync /\ Under(f) = fdc.at
    BY <1>1, <1>3, <1>5, <1>7, <2>1, SectorsOfTrack DEF HeaderPosition, AtHeader, Layout
  <2>3. /\ ~fdc'.sync /\ fdc'.offset = Start(s) + 2
        /\ fdc'.sub = IF fdc.at = fdc.track THEN "WAIT_FOR_SIDE" ELSE "SEARCHING_FOR_NEXT_ID"
    BY <1>4, <1>7, <2>2
  <2>4. QED
    BY <1>4, <2>3, SubStateNames DEF HeaderPosition, AtHeader, HeaderStates
<1>8. CASE fdc.sub = "WAIT_FOR_SIDE"
  <2>1. PICK s \in Sectors : fdc.offset = Start(s) + 2
    BY <1>8 DEF HeaderPosition, AtHeader
  <2>2. f.offset = Start(s) + 3 /\ ~fdc.sync /\ fdc.track = fdc.at
    BY <1>5, <1>8, <2>1, SectorsOfTrack DEF HeaderPosition, AtHeader
  <2>3. QED
    BY <1>4, <1>8, <2>2, SubStateNames DEF HeaderPosition, AtHeader, HeaderStates
<1>9. CASE fdc.sub = "WAIT_FOR_SECTOR"
  <2>1. PICK s \in Sectors : fdc.offset = Start(s) + 3
    BY <1>9 DEF HeaderPosition, AtHeader
  <2>2. f.offset = Start(s) + 4 /\ ~fdc.sync /\ fdc.track = fdc.at /\ Under(f) = s
    BY <1>1, <1>3, <1>5, <1>9, <2>1, SectorsOfTrack DEF HeaderPosition, AtHeader, Layout
  <2>3. /\ ~fdc'.sync /\ fdc'.track = fdc'.at /\ fdc'.offset = Start(s) + 4
        /\ fdc'.sub = IF s = fdc'.sector THEN SEARCHING_FOR_NEXT_DATAID
                      ELSE "SEARCHING_FOR_NEXT_ID"
    BY <1>4, <1>9, <2>2
  <2>4. QED
    BY <2>3, SubStateNames DEF HeaderPosition, OfSector, HeaderStates
<1>10. QED
  BY <1>6, <1>7, <1>8, <1>9 DEF HeaderStates

LEMMA SearchesHeaderKeeps == ASSUME Inv, SearchesHeader PROVE Inv'
<1> DEFINE f == Turned
<1>1. /\ Shapes /\ HeadInv /\ ProgramInv /\ WriteInv /\ Layout(disks)
      /\ fdc.type \in {2, 3} /\ fdc.stage = 3
      /\ fdc.command \in {READ_SECTOR, WRITE_SECTOR} /\ fdc.sub \in HeaderStates
  BY DEF Inv, SearchesHeader, At
<1>2. Same /\ "busy" \in fdc.status /\ prog.at # "free" /\ fdc' = Header(f)
  BY <1>1 DEF SearchesHeader, Chip, Same, ProgramInv
<1>3. /\ DOMAIN f = FdcFields
      /\ f.type = fdc.type /\ f.stage = fdc.stage /\ f.command = fdc.command
      /\ f.status = fdc.status /\ f.data = fdc.data /\ f.at = fdc.at /\ f.side = fdc.side
      /\ f.dir = fdc.dir /\ f.sub = fdc.sub /\ f.offset \in 0 .. TrackLength
  BY <1>1, HeadGoesOn
<1>4. /\ DOMAIN fdc' = FdcFields /\ fdc'.type \in {0, fdc.type} /\ fdc'.stage = fdc.stage
      /\ fdc'.command = fdc.command /\ fdc'.at = fdc.at /\ fdc'.side = fdc.side
      /\ fdc'.offset \in 0 .. TrackLength /\ fdc'.dir = fdc.dir /\ fdc'.data = fdc.data
      /\ "busy" \in fdc'.status
  <2> HIDE DEF f
  <2>1. QED
    BY <1>1, <1>2, <1>3, HeaderIs
<1>5. HeadInv'
  BY <1>1, <1>2, <1>4 DEF HeadInv, Same
<1>6. ASSUME fdc'.type = 2, fdc.command = WRITE_SECTOR
      PROVE  Position'
  <2>1. fdc.type = 2 /\ HeaderPosition
    BY <1>1, <1>4, <1>6 DEF WriteInv, Position
  <2>2. /\ HeaderPosition' /\ fdc'.sub \in HeaderStates \union {SEARCHING_FOR_NEXT_DATAID}
        /\ fdc'.sub = SEARCHING_FOR_NEXT_DATAID => ~fdc'.sync /\ OfSector(4)'
    BY <1>1, <1>2, <1>6, <2>1, SearchesOn
  <2>3. QED
    BY <2>2, SubStateNames DEF Position, HeaderStates
<1>7. fdc'.type = 2 /\ fdc'.command = WRITE_SECTOR => WriteInv'
  BY <1>1, <1>4, <1>6 DEF WriteInv
<1>8. QED
  BY <1>1, <1>2, <1>4, <1>5, <1>7, NothingWritten

\* g is as near to f as a step that reads leaves it.
Near(g, f) ==
  /\ DOMAIN g = FdcFields /\ g.type \in {0, f.type} /\ g.stage = f.stage
  /\ g.command = f.command /\ g.at = f.at /\ g.side = f.side /\ g.offset = f.offset
  /\ g.dir = f.dir /\ g.deleted = f.deleted /\ ("busy" \in f.status => "busy" \in g.status)

LEMMA NearSteps ==
  ASSUME NEW f, DOMAIN f = FdcFields
  PROVE  /\ Near(f, f) /\ Near(Completed(f), f) /\ Near(Synced(f), f)
         /\ \A b : Near(SetDataRegister(f, b), f)
         /\ \A i : Near([f EXCEPT !.index = i], f)
         /\ \A u : Near([f EXCEPT !.sub = u], f)
         /\ \A i, u : Near([f EXCEPT !.index = i, !.sub = u], f)
         /\ \A u, h : Near([f EXCEPT !.sub = u, !.header = h], f)
         /\ \A s : Near([f EXCEPT !.sector = s], f)
<1>1. Near(f, f) /\ Near(Completed(f), f)
  BY DEF Near, Completed, FdcFields
<1>2. Near(Synced(f), f)
  BY DEF Near, Synced, FdcFields
<1>3. \A b : Near(SetDataRegister(f, b), f)
  <2> SUFFICES ASSUME NEW b PROVE Near(SetDataRegister(f, b), f)
    OBVIOUS
  <2> DEFINE status == f.status \union {"drq"} \union IF "drq" \in f.status THEN {"lost"} ELSE {}
  <2>1. "busy" \in f.status => "busy" \in status
    OBVIOUS
  <2>2. SetDataRegister(f, b) = [[f EXCEPT !.status = status] EXCEPT !.data = b]
    BY DEF SetDataRegister, Requested, FdcFields
  <2> HIDE DEF status
  <2>3. QED
    BY <2>1, <2>2 DEF Near, FdcFields
<1>4. /\ \A i : Near([f EXCEPT !.index = i], f)
      /\ \A u : Near([f EXCEPT !.sub = u], f)
      /\ \A i, u : Near([f EXCEPT !.index = i, !.sub = u], f)
  BY DEF Near, FdcFields
<1>5. /\ \A u, h : Near([f EXCEPT !.sub = u, !.header = h], f)
      /\ \A s : Near([f EXCEPT !.sector = s], f)
  BY DEF Near, FdcFields
<1>6. QED
  BY <1>1, <1>2, <1>3, <1>4, <1>5

LEMMA NearTwice ==
  ASSUME NEW f, NEW g, NEW h, Near(g, f), Near(h, g)
  PROVE  Near(h, f)
BY DEF Near

\* A step of the controller that reads, of any command.
LEMMA ReadingKeeps ==
  ASSUME Inv, Same, fdc.type # 0, fdc.stage = 3, fdc.type = 2 => fdc.command # WRITE_SECTOR,
         fdc.type # 1, Near(fdc', Turned)
  PROVE  Inv'
<1>1. Shapes /\ HeadInv /\ ProgramInv
  BY DEF Inv
<1>2. "busy" \in fdc.status /\ prog.at # "free"
  BY <1>1 DEF ProgramInv
<1>3. /\ DOMAIN fdc' = FdcFields /\ fdc'.type \in {0, fdc.type} /\ fdc'.stage = 3
      /\ fdc'.command = fdc.command /\ fdc'.at = fdc.at /\ fdc'.side = fdc.side
      /\ fdc'.offset \in 0 .. TrackLength /\ fdc'.dir = fdc.dir /\ "busy" \in fdc'.status
  BY <1>1, <1>2, HeadGoesOn DEF Near
<1>4. HeadInv'
  BY <1>1, <1>3 DEF HeadInv, Same
<1>5. ~(fdc'.type = 2 /\ fdc'.command = WRITE_SECTOR)
  BY <1>3
<1>6. QED
  BY <1>2, <1>3, <1>4, <1>5, NothingWritten

LEMMA ReadsSectorKeeps == ASSUME Inv, ReadsSector PROVE Inv'
<1> DEFINE f == Turned
           g == [SetDataRegister(f, Under(f)) EXCEPT !.index = @ + 1]
<1>1. Shapes /\ HeadInv /\ fdc.type \in {2, 3} /\ fdc.stage = 3 /\ fdc.command = READ_SECTOR
  BY DEF Inv, ReadsSector, At
<1>2. Same
  BY DEF ReadsSector, Chip, Same
<1>3. DOMAIN f = FdcFields
  BY <1>1, HeadGoesOn
<1>4. \/ fdc' = [Synced(f) EXCEPT !.index = 0, !.sub = "READING_SECTOR"]
      \/ fdc' = Synced(f)
      \/ fdc' = Completed(g)
      \/ fdc' = g
  BY DEF ReadsSector, Chip
<1>5. Near(g, f)
  <2> DEFINE h == SetDataRegister(f, Under(f))
  <2>1. Near(h, f)
    BY <1>3, NearSteps
  <2>2. DOMAIN h = FdcFields
    BY <2>1 DEF Near
  <2>3. Near(g, h)
    <3> DEFINE i == h.index + 1
    <3>1. g = [h EXCEPT !.index = i]
      BY <2>2 DEF FdcFields
    <3> HIDE DEF h, i, g
    <3>2. QED
      BY <2>2, <3>1, NearSteps
  <2>4. QED
    BY <2>1, <2>3, NearTwice
<1>6. Near(Synced(f), f) /\ DOMAIN Synced(f) = FdcFields
  BY <1>3, NearSteps DEF Near
<1> HIDE DEF f, g
<1>7. Near(Completed(g), f)
  BY <1>5, NearSteps, NearTwice DEF Near
<1>8. Near([Synced(f) EXCEPT !.index = 0, !.sub = "READING_SECTOR"], f)
  BY <1>6, NearSteps, NearTwice
<1>9. Near(fdc', Turned)
  BY <1>4, <1>5, <1>6, <1>7, <1>8 DEF f
<1>10. QED
  BY <1>1, <1>2, <1>9, ReadingKeeps DEF READ_SECTOR, WRITE_SECTOR

LEMMA ReadsAddressNear == ASSUME Inv, ReadsAddress PROVE Near(fdc', Turned)
<1> DEFINE f == Turned
           h == SetDataRegister(f, Under(f))
           found == IF Found(f, ID) THEN "WAIT_FOR_TRACK" ELSE Synced(f).sub
<1>1. /\ Shapes /\ HeadInv /\ fdc.type \in {2, 3} /\ fdc.stage = 3
      /\ fdc.command = READ_ADDRESS
  BY DEF Inv, ReadsAddress, At
<1>2. DOMAIN f = FdcFields
  BY <1>1, HeadGoesOn
<1>3. Near(Synced(f), f) /\ DOMAIN Synced(f) = FdcFields
  BY <1>2, NearSteps DEF Near
<1>4. Near(h, f) /\ DOMAIN h = FdcFields
  BY <1>2, NearSteps DEF Near
<1>5. \/ fdc' = [Synced(f) EXCEPT !.sub = found]
      \/ fdc' = [h EXCEPT !.sub = "WAIT_FOR_SIDE"]
      \/ fdc' = [h EXCEPT !.sub = "WAIT_FOR_SECTOR"]
      \/ fdc' = [h EXCEPT !.sub = "WAIT_FOR_SECTOR_LENGTH", !.header = h.data]
      \/ fdc' = Completed([h EXCEPT !.sector = fdc.header])
  <2>1. [Synced(f) EXCEPT !.sub = IF Found(f, ID) THEN "WAIT_FOR_TRACK" ELSE @]
           = [Synced(f) EXCEPT !.sub = found]
    BY <1>3 DEF FdcFields
  <2> HIDE DEF found
  <2>2. QED
    BY <2>1 DEF ReadsAddress, Chip
<1> HIDE DEF f, h, found
<1>6. /\ Near([Synced(f) EXCEPT !.sub = found], f)
      /\ Near([h EXCEPT !.sub = "WAIT_FOR_SIDE"], f)
      /\ Near([h EXCEPT !.sub = "WAIT_FOR_SECTOR"], f)
      /\ Near([h EXCEPT !.sub = "WAIT_FOR_SECTOR_LENGTH", !.header = h.data], f)
  <2>1. Near([Synced(f) EXCEPT !.sub = found], f)
    <3>1. Near([Synced(f) EXCEPT !.sub = found], Synced(f))
      BY <1>3, NearSteps
    <3>2. QED
      BY <1>3, <3>1, NearTwice
  <2>2. \A u : Near([h EXCEPT !.sub = u], f)
    <3>1. \A u : Near([h EXCEPT !.sub = u], h)
      BY <1>4, NearSteps
    <3>2. QED
      BY <1>4, <3>1, NearTwice
  <2>3. Near([h EXCEPT !.sub = "WAIT_FOR_SECTOR_LENGTH", !.header = h.data], f)
    <3>1. Near([h EXCEPT !.sub = "WAIT_FOR_SECTOR_LENGTH", !.header = h.data], h)
      BY <1>4, NearSteps
    <3>2. QED
      BY <1>4, <3>1, NearTwice
  <2>4. QED
    BY <2>1, <2>2, <2>3
<1>7. Near(Completed([h EXCEPT !.sector = fdc.header]), f)
  <2> DEFINE g == [h EXCEPT !.sector = fdc.header]
  <2>1. Near(g, f)
    BY <1>4, NearSteps, NearTwice
  <2>2. DOMAIN g = FdcFields
    BY <2>1 DEF Near
  <2> HIDE DEF g
  <2>3. Near(Completed(g), g)
    BY <2>2, NearSteps
  <2>4. Near(Completed(g), f)
    BY <2>1, <2>3, NearTwice
  <2>5. QED
    BY <2>4 DEF g
<1>8. QED
  BY <1>5, <1>6, <1>7 DEF f

LEMMA ReadsAddressKeeps == ASSUME Inv, ReadsAddress PROVE Inv'
<1>1. fdc.type \in {2, 3} /\ fdc.stage = 3 /\ fdc.command = READ_ADDRESS /\ Same
  BY DEF ReadsAddress, At, Chip, Same
<1>2. Near(fdc', Turned)
  BY ReadsAddressNear
<1>3. QED
  BY <1>1, <1>2, ReadingKeeps DEF READ_ADDRESS, WRITE_SECTOR

LEMMA ReadsTrackNear == ASSUME Inv, ReadsTrack PROVE Near(fdc', Turned)
<1> DEFINE f == Turned
           h == SetDataRegister(f, Under(f))
           i == h.index + 1
           g == [h EXCEPT !.index = i]
<1>1. Shapes /\ HeadInv /\ fdc.type \in {2, 3} /\ fdc.stage = 3 /\ fdc.command = READ_TRACK
  BY DEF Inv, ReadsTrack, At
<1>2. DOMAIN f = FdcFields
  BY <1>1, HeadGoesOn
<1>3. Near(h, f) /\ DOMAIN h = FdcFields
  BY <1>2, NearSteps DEF Near
<1>4. fdc' = Completed(g) \/ fdc' = g
  <2>1. [h EXCEPT !.index = @ + 1] = g
    BY <1>3 DEF FdcFields
  <2> HIDE DEF g
  <2>2. QED
    BY <2>1 DEF ReadsTrack, Chip
<1> HIDE DEF f, h, i
<1>5. Near(g, f)
  BY <1>3, NearSteps, NearTwice
<1> HIDE DEF g
<1>6. Near(Completed(g), f)
  BY <1>5, NearSteps, NearTwice DEF Near
<1>7. QED
  BY <1>4, <1>5, <1>6 DEF f

LEMMA ReadsTrackKeeps == ASSUME Inv, ReadsTrack PROVE Inv'
<1>1. fdc.type \in {2, 3} /\ fdc.stage = 3 /\ fdc.command = READ_TRACK /\ Same
  BY DEF ReadsTrack, At, Chip, Same
<1>2. Near(fdc', Turned)
  BY ReadsTrackNear
<1>3. QED
  BY <1>1, <1>2, ReadingKeeps DEF READ_TRACK, WRITE_SECTOR

-----------------------------------------------------------------------------
(* A sector is written *)

\* One cell of the disks gets a new value.
CellSet(d, i, t, side, o, b) == [d EXCEPT ![i][t][side][o] = b]

LEMMA OneCell ==
  ASSUME NEW d, DisksShape(d), NEW i \in Images, NEW t \in Tracks, NEW side \in Sides,
         NEW o \in 0 .. TrackLength, NEW b,
         NEW e, e = CellSet(d, i, t, side, o, b)
  PROVE  /\ DisksShape(e) /\ e[i][t][side][o] = b
         /\ \A j \in Images : j # i => e[j] = d[j]
         /\ \A j \in Images, u \in Tracks, v \in Sides, p \in 0 .. TrackLength :
              ~(j = i /\ u = t /\ v = side /\ p = o) => e[j][u][v][p] = d[j][u][v][p]
<1>1. /\ DOMAIN e = Images /\ e[i] = [d[i] EXCEPT ![t][side][o] = b]
      /\ \A j \in Images : j # i => e[j] = d[j]
  BY DEF DisksShape, CellSet
<1>2. /\ DOMAIN e[i] = Tracks /\ e[i][t] = [d[i][t] EXCEPT ![side][o] = b]
      /\ \A u \in Tracks : u # t => e[i][u] = d[i][u]
  BY <1>1 DEF DisksShape
<1>3. /\ DOMAIN e[i][t] = Sides /\ e[i][t][side] = [d[i][t][side] EXCEPT ![o] = b]
      /\ \A v \in Sides : v # side => e[i][t][v] = d[i][t][v]
  BY <1>2 DEF DisksShape
<1>4. /\ DOMAIN e[i][t][side] = 0 .. TrackLength /\ e[i][t][side][o] = b
      /\ \A p \in 0 .. TrackLength : p # o => e[i][t][side][p] = d[i][t][side][p]
  <2> DEFINE cells == d[i][t][side]
             new == e[i][t][side]
             places == 0 .. TrackLength
  <2>1. DOMAIN cells = places /\ o \in places
    BY DEF DisksShape
  <2>2. new = [cells EXCEPT ![o] = b]
    BY <1>3
  <2> HIDE DEF cells, new, places
  <2>3. DOMAIN new = places /\ new[o] = b /\ \A p \in places : p # o => new[p] = cells[p]
    BY <2>1, <2>2
  <2>4. QED
    BY <2>3 DEF cells, new, places
<1>5. DisksShape(e)
  <2>1. \A j \in Images : DOMAIN e[j] = Tracks
    BY <1>1, <1>2 DEF DisksShape
  <2>2. \A j \in Images, u \in Tracks : DOMAIN e[j][u] = Sides
    <3>1. ASSUME NEW j \in Images, NEW u \in Tracks PROVE DOMAIN e[j][u] = Sides
      <4>1. CASE j # i
        BY <1>1, <4>1 DEF DisksShape
      <4>2. CASE j = i /\ u # t
        BY <1>2, <4>2 DEF DisksShape
      <4>3. QED
        BY <1>3, <4>1, <4>2
    <3>2. QED
      BY <3>1
  <2>3. \A j \in Images, u \in Tracks, v \in Sides : DOMAIN e[j][u][v] = 0 .. TrackLength
    <3>1. ASSUME NEW j \in Images, NEW u \in Tracks, NEW v \in Sides
          PROVE  DOMAIN e[j][u][v] = 0 .. TrackLength
      <4>1. CASE j # i
        BY <1>1, <4>1 DEF DisksShape
      <4>2. CASE j = i /\ u # t
        BY <1>2, <4>2 DEF DisksShape
      <4>3. CASE j = i /\ u = t /\ v # side
        BY <1>3, <4>3 DEF DisksShape
      <4>4. QED
        BY <1>4, <4>1, <4>2, <4>3
    <3>2. QED
      BY <3>1
  <2>4. QED
    BY <1>1, <2>1, <2>2, <2>3 DEF DisksShape
<1>6. ASSUME NEW j \in Images, NEW u \in Tracks, NEW v \in Sides, NEW p \in 0 .. TrackLength,
             ~(j = i /\ u = t /\ v = side /\ p = o)
      PROVE  e[j][u][v][p] = d[j][u][v][p]
  <2>1. CASE j # i
    BY <1>1, <2>1
  <2>2. CASE j = i /\ u # t
    BY <1>2, <2>2
  <2>3. CASE j = i /\ u = t /\ v # side
    BY <1>3, <2>3
  <2>4. CASE j = i /\ u = t /\ v = side /\ p # o
    BY <1>4, <2>4, Zenon
  <2>5. QED
    BY <1>6, <2>1, <2>2, <2>3, <2>4
<1>7. QED
  BY <1>1, <1>4, <1>5, <1>6

\* The mark, data and sum of a sector may be written without touching a header.
LEMMA LayoutKept ==
  ASSUME NEW d, DisksShape(d), Layout(d),
         NEW i \in Images, NEW t \in Tracks, NEW side \in Sides, NEW s \in Sectors,
         NEW k \in 7 .. 9 + SectorLength, NEW b, k = 7 => b # ID,
         NEW e, e = CellSet(d, i, t, side, Start(s) + k, b)
  PROVE  DisksShape(e) /\ Layout(e)
<1>1. k \in 0 .. SectorCells - 1
  BY SectorsOfTrack
<1>2. Start(s) + k \in 0 .. TrackLength
  BY <1>1, SectorsOfTrack
<1>3. /\ DisksShape(e) /\ e[i][t][side][Start(s) + k] = b
      /\ \A j \in Images, u \in Tracks, v \in Sides, p \in 0 .. TrackLength :
           ~(j = i /\ u = t /\ v = side /\ p = Start(s) + k) => e[j][u][v][p] = d[j][u][v][p]
  BY <1>2, OneCell
<1>4. ASSUME NEW j \in Images, NEW u \in Tracks, NEW v \in Sides, NEW r \in Sectors
      PROVE  /\ e[j][u][v][Start(r) + 1] = ID
             /\ e[j][u][v][Start(r) + 2] = u
             /\ e[j][u][v][Start(r) + 4] = r
             /\ e[j][u][v][Start(r) + 7] # ID
  <2>1. /\ 1 \in 0 .. SectorCells - 1 /\ 2 \in 0 .. SectorCells - 1
        /\ 4 \in 0 .. SectorCells - 1 /\ 7 \in 0 .. SectorCells - 1
    BY SectorsOfTrack
  <2>2. /\ Start(r) + 1 \in 0 .. TrackLength /\ Start(r) + 2 \in 0 .. TrackLength /\ Start(r) + 4 \in 0 .. TrackLength
        /\ Start(r) + 7 \in 0 .. TrackLength
    BY SectorsOfTrack
  <2>3. /\ Start(r) + 1 # Start(s) + k /\ Start(r) + 2 # Start(s) + k
        /\ Start(r) + 4 # Start(s) + k
    BY <1>1, <2>1, SectorsOfTrack
  <2>4. Start(r) + 7 = Start(s) + k => k = 7
    BY <1>1, <2>1, SectorsOfTrack
  <2>5. /\ d[j][u][v][Start(r) + 1] = ID /\ d[j][u][v][Start(r) + 2] = u
        /\ d[j][u][v][Start(r) + 4] = r /\ d[j][u][v][Start(r) + 7] # ID
    BY DEF Layout
  <2>6. /\ e[j][u][v][Start(r) + 1] = ID
        /\ e[j][u][v][Start(r) + 2] = u /\ e[j][u][v][Start(r) + 4] = r
    BY <1>3, <2>2, <2>3, <2>5
  <2>7. CASE j = i /\ u = t /\ v = side /\ Start(r) + 7 = Start(s) + k
    BY <1>3, <2>4, <2>6, <2>7
  <2>8. CASE ~(j = i /\ u = t /\ v = side /\ Start(r) + 7 = Start(s) + k)
    BY <1>3, <2>2, <2>5, <2>6, <2>8
  <2>9. QED
    BY <2>7, <2>8
<1>5. QED
  BY <1>3, <1>4 DEF Layout

\* What a step of the controller may do to the disks.
WritesItsSector ==
  \/ disks' = disks
  \/ /\ fdc.track = fdc.at /\ fdc.sector \in Sectors
     /\ \E k \in 7 .. 9 + SectorLength : \E b :
          /\ k = 7 => b = IF fdc.deleted THEN DELETED ELSE MARK
          /\ disks' = CellSet(disks, image, fdc.at, fdc.side, Start(fdc.sector) + k, b)

\* What a step that writes does to the controller.
LEMMA RequestedIs ==
  ASSUME NEW f, DOMAIN f = FdcFields, NEW g, g = Requested(f)
  PROVE  /\ DOMAIN g = FdcFields /\ g.type = f.type /\ g.stage = f.stage
         /\ g.command = f.command /\ g.at = f.at /\ g.side = f.side /\ g.offset = f.offset
         /\ g.dir = f.dir /\ g.data = f.data /\ g.track = f.track /\ g.sector = f.sector
         /\ g.sync = f.sync /\ g.sub = f.sub /\ g.index = f.index
         /\ "busy" \in f.status => "busy" \in g.status
<1> DEFINE status == f.status \union {"drq"} \union IF "drq" \in f.status THEN {"lost"} ELSE {}
<1>1. "busy" \in f.status => "busy" \in status
  OBVIOUS
<1>2. g = [f EXCEPT !.status = status]
  BY DEF Requested, FdcFields
<1> HIDE DEF status
<1>3. QED
  BY <1>1, <1>2 DEF FdcFields

LEMMA WritesSectorKeeps ==
  ASSUME Inv, WritesSector
  PROVE  Inv' /\ WritesItsSector
<1> DEFINE f == Turned
           n == fdc.sector
<1>1. /\ Shapes /\ HeadInv /\ ProgramInv /\ WriteInv /\ Layout(disks)
      /\ fdc.type = 2 /\ fdc.stage = 3 /\ fdc.command = WRITE_SECTOR
  <2>1. /\ Shapes /\ HeadInv /\ ProgramInv /\ WriteInv /\ Layout(disks)
        /\ fdc.type \in {2, 3} /\ fdc.stage = 3 /\ fdc.command = WRITE_SECTOR
    BY DEF Inv, WritesSector, At
  <2>2. WRITE_SECTOR # READ_ADDRESS /\ WRITE_SECTOR # READ_TRACK /\ WRITE_SECTOR # WRITE_TRACK
    BY DEF WRITE_SECTOR, READ_ADDRESS, READ_TRACK, WRITE_TRACK
  <2>3. QED
    BY <2>1, <2>2 DEF HeadInv
<1>2. /\ "busy" \in fdc.status /\ prog.at # "free" /\ Position
      /\ prog' = prog /\ image' = image
      /\ image \in Images /\ fdc.at \in Tracks /\ fdc.side \in Sides
  BY <1>1 DEF ProgramInv, WriteInv, WritesSector, Chip, HeadInv
<1>3. /\ DOMAIN f = FdcFields
      /\ f.type = fdc.type /\ f.stage = fdc.stage /\ f.command = fdc.command
      /\ f.status = fdc.status /\ f.track = fdc.track /\ f.sector = fdc.sector
      /\ f.data = fdc.data /\ f.at = fdc.at /\ f.side = fdc.side /\ f.dir = fdc.dir
      /\ f.sync = fdc.sync /\ f.sub = fdc.sub /\ f.index = fdc.index /\ f.deleted = fdc.deleted
      /\ f.offset \in 0 .. TrackLength
      /\ fdc.offset < TrackLength => f.offset = fdc.offset + 1
  BY <1>1, HeadGoesOn
<1> DEFINE mark == IF f.deleted THEN DELETED ELSE MARK
           crc  == CRC(IF f.index = 0 THEN CRC(63, f.mark) ELSE f.crc, f.data)
           last == f.index + 1 = SectorLength
<1>4. \/ /\ fdc.sub = SEARCHING_FOR_NEXT_DATAID
         /\ IF f.sync /\ f.offset \notin SyncCells
            THEN /\ Writes(f, mark)
                 /\ fdc' = [Synced(Requested(f)) EXCEPT !.mark = mark, !.index = 0,
                                                        !.sub = "WRITING_SECTOR"]
            ELSE fdc' = Synced(f) /\ disks' = disks
      \/ /\ fdc.sub = "WRITING_SECTOR" /\ Writes(f, f.data)
         /\ fdc' = [Requested(f) EXCEPT !.crc = crc, !.index = @ + 1,
                       !.sub = IF last THEN "WAIT_FOR_CRC1" ELSE @]
      \/ /\ fdc.sub = "WAIT_FOR_CRC1" /\ Writes(f, f.crc \div 8)
         /\ fdc' = [f EXCEPT !.sub = "WAIT_FOR_CRC2"]
      \/ /\ fdc.sub = "WAIT_FOR_CRC2" /\ Writes(f, f.crc % 8)
         /\ fdc' = Completed(f)
  BY DEF WritesSector, Chip
<1>5. mark = IF fdc.deleted THEN DELETED ELSE MARK
  BY <1>3
<1>6. \A b : Writes(f, b) <=> disks' = CellSet(disks, image, fdc.at, fdc.side, f.offset, b)
  BY <1>3 DEF Writes, CellSet
<1> HIDE DEF f, mark, crc
<1>7. ASSUME n \in Sectors, NEW k \in 0 .. 8 + SectorLength, fdc.offset = Start(n) + k
      PROVE  f.offset = Start(n) + k + 1
  BY <1>3, <1>7, SectorsOfTrack
\* Enough to say: where it writes, and what the controller is then.
<1>8. ASSUME DOMAIN fdc' = FdcFields, fdc'.type \in {0, 2}, fdc'.stage = 3,
             fdc'.command = fdc.command, fdc'.at = fdc.at, fdc'.side = fdc.side,
             fdc'.offset = f.offset, fdc'.dir = fdc.dir, "busy" \in fdc'.status,
             fdc'.type = 2 => Position', WritesItsSector
      PROVE  Inv'
  <2>1. DisksShape(disks') /\ Layout(disks')
    <3>1. CASE disks' = disks
      BY <1>1, <3>1 DEF Shapes
    <3>2. CASE ~(disks' = disks)
      <4>1. n \in Sectors
        BY <1>8, <3>2 DEF WritesItsSector
      <4>2. PICK k \in 7 .. 9 + SectorLength : \E b :
              /\ k = 7 => b = IF fdc.deleted THEN DELETED ELSE MARK
              /\ disks' = CellSet(disks, image, fdc.at, fdc.side, Start(n) + k, b)
        BY <1>8, <3>2 DEF WritesItsSector
      <4>3. PICK b :
              /\ k = 7 => b = IF fdc.deleted THEN DELETED ELSE MARK
              /\ disks' = CellSet(disks, image, fdc.at, fdc.side, Start(n) + k, b)
        BY <4>2
      <4>4. DisksShape(disks) /\ (k = 7 => b # ID)
        BY <1>1, <4>3, SubStateNames DEF Shapes
      <4> HIDE DEF n
      <4>5. QED
        BY <1>1, <1>2, <4>1, <4>3, <4>4, LayoutKept
    <3>3. QED
      BY <3>1, <3>2
  <2>2. DOMAIN prog' = ProgFields
    BY <1>1, <1>2 DEF Shapes
  <2>3. HeadInv'
    BY <1>1, <1>2, <1>3, <1>8 DEF HeadInv, WRITE_SECTOR, READ_SECTOR
  <2>4. ProgramInv'
    BY <1>1, <1>2, <1>8 DEF ProgramInv
  <2>5. WriteInv'
    BY <1>8 DEF WriteInv
  <2>6. QED
    BY <1>8, <2>1, <2>2, <2>3, <2>4, <2>5 DEF Inv, Shapes
<1>9. CASE fdc.sub = SEARCHING_FOR_NEXT_DATAID
  <2>1. \/ ~fdc.sync /\ (OfSector(4) \/ OfSector(5))
        \/ fdc.sync /\ OfSector(6)
    BY <1>2, <1>9 DEF Position
  <2>2. fdc.track = fdc.at /\ n \in Sectors
    BY <2>1 DEF OfSector
  <2>3. /\ fdc.offset = Start(n) + 4 => f.offset = Start(n) + 5
        /\ fdc.offset = Start(n) + 5 => f.offset = Start(n) + 6
        /\ fdc.offset = Start(n) + 6 => f.offset = Start(n) + 7
    BY <1>3, <2>2, SectorsOfTrack
  <2>4. /\ Start(n) + 5 \notin SyncCells /\ Start(n) + 6 \in SyncCells
        /\ Start(n) + 7 \notin SyncCells
    <3>1. {5, 6, 7} \subseteq 0 .. SectorCells - 1
      BY SectorsOfTrack
    <3>2. QED
      BY <2>2, <3>1, SyncPlaces
  <2>5. \/ /\ fdc.sub = SEARCHING_FOR_NEXT_DATAID
           /\ IF f.sync /\ f.offset \notin SyncCells
              THEN /\ Writes(f, mark)
                   /\ fdc' = [Synced(Requested(f)) EXCEPT !.mark = mark, !.index = 0,
                                                          !.sub = "WRITING_SECTOR"]
              ELSE fdc' = Synced(f) /\ disks' = disks
    BY <1>4, <1>9 DEF SEARCHING_FOR_NEXT_DATAID
  <2>6. CASE f.sync /\ f.offset \notin SyncCells
    <3>1. f.offset = Start(n) + 7
      BY <1>3, <2>1, <2>3, <2>6 DEF OfSector
    <3>2. disks' = CellSet(disks, image, fdc.at, fdc.side, Start(n) + 7, mark)
      BY <1>6, <2>5, <2>6, <3>1
    <3>3. 7 \in 7 .. 9 + SectorLength
      BY SectorsOfTrack
    <3>4. WritesItsSector
      BY <1>5, <2>2, <3>2, <3>3 DEF WritesItsSector
    <3> DEFINE g == Requested(f)
               b == g.offset \in SyncCells
    <3>5. /\ DOMAIN g = FdcFields /\ g.type = 2 /\ g.stage = 3
          /\ g.command = f.command /\ g.at = f.at /\ g.side = f.side /\ g.offset = f.offset
          /\ g.dir = f.dir /\ g.track = f.track /\ g.sector = f.sector
          /\ "busy" \in g.status
      BY <1>1, <1>2, <1>3, RequestedIs
    <3>6. fdc' = [[g EXCEPT !.sync = b] EXCEPT !.mark = mark, !.index = 0, !.sub = "WRITING_SECTOR"]
      BY <2>5, <2>6 DEF Synced
    <3> HIDE DEF g, b
    <3>7. /\ DOMAIN fdc' = FdcFields /\ fdc'.type = 2 /\ fdc'.stage = 3
          /\ fdc'.command = fdc.command /\ fdc'.at = fdc.at /\ fdc'.side = fdc.side
          /\ fdc'.offset = f.offset /\ fdc'.dir = fdc.dir /\ "busy" \in fdc'.status
          /\ fdc'.track = fdc.track /\ fdc'.sector = fdc.sector
          /\ fdc'.index = 0 /\ fdc'.sub = "WRITING_SECTOR"
      BY <1>3, <3>5, <3>6 DEF FdcFields
    <3>8. Position'
      <4>1. fdc'.index \in 0 .. SectorLength - 1 /\ OfSector(7 + fdc.index)'
        <5>1. 7 + fdc'.index = 7
          BY <3>7
        <5>2. fdc'.track = fdc'.at /\ fdc'.sector \in Sectors /\ fdc'.offset = Start(fdc'.sector) + 7
          BY <2>2, <3>1, <3>7
        <5>3. QED
          BY <3>7, <5>1, <5>2, SectorsOfTrack DEF OfSector
      <4>2. QED
        BY <3>7, <4>1, SubStateNames DEF Position, HeaderPosition
    <3>9. QED
      BY <1>8, <3>4, <3>7, <3>8
  <2>7. CASE ~(f.sync /\ f.offset \notin SyncCells)
    <3> DEFINE b == f.offset \in SyncCells
    <3>1. fdc' = [f EXCEPT !.sync = b] /\ disks' = disks
      BY <2>5, <2>7 DEF Synced
    <3> HIDE DEF b
    <3>2. /\ DOMAIN fdc' = FdcFields /\ fdc'.type = 2 /\ fdc'.stage = 3
          /\ fdc'.command = fdc.command /\ fdc'.at = fdc.at /\ fdc'.side = fdc.side
          /\ fdc'.offset = f.offset /\ fdc'.dir = fdc.dir /\ "busy" \in fdc'.status
          /\ fdc'.track = fdc.track /\ fdc'.sector = fdc.sector /\ fdc'.sub = fdc.sub
          /\ fdc'.sync = b
      BY <1>1, <1>2, <1>3, <3>1 DEF FdcFields
    <3>3. \/ ~fdc'.sync /\ f.offset = Start(n) + 5
          \/ fdc'.sync /\ f.offset = Start(n) + 6
      <4>1. CASE ~fdc.sync /\ OfSector(4)
        BY <2>3, <2>4, <3>2, <4>1 DEF OfSector, b
      <4>2. CASE ~fdc.sync /\ OfSector(5)
        BY <2>3, <2>4, <3>2, <4>2 DEF OfSector, b
      <4>3. CASE fdc.sync /\ OfSector(6)
        BY <1>3, <2>3, <2>4, <2>7, <4>3 DEF OfSector
      <4>4. QED
        BY <2>1, <4>1, <4>2, <4>3
    <3>4. Position'
      <4>1. fdc'.track = fdc'.at /\ fdc'.sector = n /\ n \in Sectors /\ fdc'.offset = f.offset
        BY <2>2, <3>2
      <4>2. (~fdc'.sync /\ OfSector(5)') \/ (fdc'.sync /\ OfSector(6)')
        BY <3>3, <4>1 DEF OfSector
      <4>3. QED
        BY <1>9, <3>2, <4>2, SubStateNames DEF Position, HeaderPosition
    <3>5. WritesItsSector
      BY <3>1 DEF WritesItsSector
    <3>6. QED
      BY <1>8, <3>2, <3>4, <3>5
  <2>8. QED
    BY <2>6, <2>7
<1>10. CASE fdc.sub = "WRITING_SECTOR"
  <2>1. fdc.index \in 0 .. SectorLength - 1 /\ OfSector(7 + fdc.index)
    BY <1>2, <1>10 DEF Position
  <2> DEFINE k == 7 + fdc.index
             g == Requested(f)
             i == g.index + 1
             sub == IF last THEN "WAIT_FOR_CRC1" ELSE g.sub
  <2>2. fdc.track = fdc.at /\ n \in Sectors /\ fdc.offset = Start(n) + k
        /\ k \in 7 .. 6 + SectorLength /\ k \in Int
    BY <2>1, SectorsOfTrack DEF OfSector
  <2>3. f.offset = Start(n) + (k + 1)
    <3> HIDE DEF k
    <3>1. k \in 0 .. 8 + SectorLength
      BY <2>2, SectorsOfTrack
    <3>2. f.offset = Start(n) + k + 1
      BY <1>7, <2>2, <3>1
    <3>3. QED
      BY <2>2, <3>2, SectorsOfTrack
  <2>4. disks' = CellSet(disks, image, fdc.at, fdc.side, Start(n) + (k + 1), f.data)
    BY <1>4, <1>6, <1>10, <2>3, SubStateNames
  <2>5. WritesItsSector
    <3> HIDE DEF k
    <3>1. k + 1 \in 7 .. 9 + SectorLength /\ k + 1 # 7
      BY <2>2, SectorsOfTrack
    <3>2. QED
      BY <2>2, <2>4, <3>1 DEF WritesItsSector
  <2>6. /\ DOMAIN g = FdcFields /\ g.type = 2 /\ g.stage = 3
        /\ g.command = f.command /\ g.at = f.at /\ g.side = f.side /\ g.offset = f.offset
        /\ g.dir = f.dir /\ g.track = f.track /\ g.sector = f.sector
        /\ g.index = fdc.index /\ g.sub = "WRITING_SECTOR"
        /\ "busy" \in g.status
    BY <1>1, <1>2, <1>3, <1>10, RequestedIs
  <2>7. fdc' = [g EXCEPT !.crc = crc, !.index = i, !.sub = sub]
    <3>1. fdc' = [Requested(f) EXCEPT !.crc = crc, !.index = @ + 1,
                       !.sub = IF last THEN "WAIT_FOR_CRC1" ELSE @]
      BY <1>4, <1>10, SubStateNames
    <3>2. QED
      BY <2>6, <3>1 DEF FdcFields
  <2>8. /\ i = fdc.index + 1
        /\ sub = IF fdc.index + 1 = SectorLength THEN "WAIT_FOR_CRC1" ELSE "WRITING_SECTOR"
    BY <1>3, <2>6
  <2> HIDE DEF g, i, sub
  <2>9. /\ DOMAIN fdc' = FdcFields /\ fdc'.type = 2 /\ fdc'.stage = 3
        /\ fdc'.command = fdc.command /\ fdc'.at = fdc.at /\ fdc'.side = fdc.side
        /\ fdc'.offset = f.offset /\ fdc'.dir = fdc.dir /\ "busy" \in fdc'.status
        /\ fdc'.track = fdc.track /\ fdc'.sector = fdc.sector
        /\ fdc'.index = i /\ fdc'.sub = sub
    BY <1>3, <2>6, <2>7 DEF FdcFields
  <2>10. Position'
    <3>1. fdc'.track = fdc'.at /\ fdc'.sector \in Sectors /\ fdc'.sector = n
      BY <2>2, <2>9
    <3>2. fdc'.offset = Start(n) + (k + 1) /\ fdc'.index = fdc.index + 1
      BY <2>3, <2>8, <2>9
    <3>3. CASE fdc.index + 1 = SectorLength
      <4>1. k + 1 = 7 + SectorLength
        BY <2>1, <3>3
      <4>2. fdc'.sub = "WAIT_FOR_CRC1"
        BY <2>8, <2>9, <3>3
      <4>3. OfSector(7 + SectorLength)'
        BY <3>1, <3>2, <4>1 DEF OfSector
      <4>4. QED
        BY <4>2, <4>3, SubStateNames DEF Position, HeaderPosition
    <3>4. CASE fdc.index + 1 # SectorLength
      <4>1. k + 1 = 7 + fdc'.index
        BY <2>1, <3>2
      <4>2. fdc'.index \in 0 .. SectorLength - 1
        BY <2>1, <3>2, <3>4, SectorsOfTrack
      <4>3. fdc'.sub = "WRITING_SECTOR"
        BY <2>8, <2>9, <3>4
      <4>4. OfSector(7 + fdc.index)'
        BY <3>1, <3>2, <4>1 DEF OfSector
      <4>5. QED
        BY <4>2, <4>3, <4>4, SubStateNames DEF Position, HeaderPosition
    <3>5. QED
      BY <3>3, <3>4
  <2>11. QED
    BY <1>8, <2>5, <2>9, <2>10
<1>11. CASE fdc.sub = "WAIT_FOR_CRC1"
  <2>1. fdc.track = fdc.at /\ n \in Sectors /\ fdc.offset = Start(n) + (7 + SectorLength)
    BY <1>2, <1>11 DEF Position, OfSector
  <2>2. f.offset = Start(n) + (8 + SectorLength)
    BY <1>3, <2>1, SectorsOfTrack
  <2>3. /\ disks' = CellSet(disks, image, fdc.at, fdc.side, Start(n) + (8 + SectorLength), f.crc \div 8)
        /\ fdc' = [f EXCEPT !.sub = "WAIT_FOR_CRC2"]
    BY <1>4, <1>6, <1>11, <2>2, SubStateNames
  <2>4. WritesItsSector
    <3>1. 8 + SectorLength \in 7 .. 9 + SectorLength /\ 8 + SectorLength # 7
      BY SectorsOfTrack
    <3>2. QED
      BY <2>1, <2>3, <3>1 DEF WritesItsSector
  <2>5. /\ DOMAIN fdc' = FdcFields /\ fdc'.type = 2 /\ fdc'.stage = 3
        /\ fdc'.command = fdc.command /\ fdc'.at = fdc.at /\ fdc'.side = fdc.side
        /\ fdc'.offset = f.offset /\ fdc'.dir = fdc.dir /\ "busy" \in fdc'.status
        /\ fdc'.track = fdc.track /\ fdc'.sector = fdc.sector
        /\ fdc'.sub = "WAIT_FOR_CRC2"
    BY <1>1, <1>2, <1>3, <2>3 DEF FdcFields
  <2>6. OfSector(8 + SectorLength)'
    BY <2>1, <2>2, <2>5 DEF OfSector
  <2>7. Position'
    BY <2>5, <2>6, SubStateNames DEF Position, HeaderPosition
  <2>8. QED
    BY <1>8, <2>4, <2>5, <2>7
<1>12. CASE fdc.sub = "WAIT_FOR_CRC2"
  <2>1. fdc.track = fdc.at /\ n \in Sectors /\ fdc.offset = Start(n) + (8 + SectorLength)
    BY <1>2, <1>12 DEF Position, OfSector
  <2>2. f.offset = Start(n) + (9 + SectorLength)
    BY <1>3, <2>1, SectorsOfTrack
  <2>3. /\ disks' = CellSet(disks, image, fdc.at, fdc.side, Start(n) + (9 + SectorLength), f.crc % 8)
        /\ fdc' = Completed(f)
    BY <1>4, <1>6, <1>12, <2>2, SubStateNames
  <2>4. WritesItsSector
    <3>1. 9 + SectorLength \in 7 .. 9 + SectorLength /\ 9 + SectorLength # 7
      BY SectorsOfTrack
    <3>2. QED
      BY <2>1, <2>3, <3>1 DEF WritesItsSector
  <2>5. /\ DOMAIN fdc' = FdcFields /\ fdc'.type = 0 /\ fdc'.stage = 3
        /\ fdc'.command = fdc.command /\ fdc'.at = fdc.at /\ fdc'.side = fdc.side
        /\ fdc'.offset = f.offset /\ fdc'.dir = fdc.dir /\ "busy" \in fdc'.status
    BY <1>1, <1>2, <1>3, <2>3 DEF Completed, FdcFields
  <2>6. QED
    BY <1>8, <2>4, <2>5
<1>13. QED
  BY <1>4, <1>9, <1>10, <1>11, <1>12

-----------------------------------------------------------------------------
(* The program *)

LEMMA TypeOfCommand ==
  ASSUME NEW number \in 0 .. 15, fdc.type = 0
  PROVE  \/ TypeOf(number) = 0
         \/ TypeOf(number) = 1 /\ number \in 0 .. 7
         \/ TypeOf(number) = 2 /\ number \in {READ_SECTOR, WRITE_SECTOR}
         \/ TypeOf(number) = 3 /\ number \in {READ_ADDRESS, READ_TRACK, WRITE_TRACK}
<1> USE DEF READ_SECTOR, WRITE_SECTOR, READ_ADDRESS, READ_TRACK, WRITE_TRACK
<1>1. CASE number \in 0 .. 7
  <2>1. TypeOf(number) = 1
    BY <1>1 DEF TypeOf
  <2>2. QED
    BY <1>1, <2>1
<1>2. CASE number \in {READ_SECTOR, WRITE_SECTOR}
  <2>1. TypeOf(number) = 2
    BY <1>2 DEF TypeOf
  <2>2. QED
    BY <1>2, <2>1
<1>3. CASE number \in {READ_ADDRESS, READ_TRACK, WRITE_TRACK}
  <2>1. TypeOf(number) = 3
    BY <1>3 DEF TypeOf
  <2>2. QED
    BY <1>3, <2>1
<1>4. CASE ~(number \in 0 .. 7 \/ number \in {READ_SECTOR, WRITE_SECTOR}
             \/ number \in {READ_ADDRESS, READ_TRACK, WRITE_TRACK})
  <2>1. TypeOf(number) = fdc.type
    BY <1>4 DEF TypeOf
  <2>2. QED
    BY <2>1
<1>5. QED
  BY <1>1, <1>2, <1>3, <1>4

\* A step of the program that leaves the disks: what Inv still asks.
LEMMA ProgramSteps ==
  ASSUME Inv, disks' = disks, DOMAIN fdc' = FdcFields, DOMAIN prog' = ProgFields,
         HeadInv', ProgramInv', WriteInv'
  PROVE  Inv'
BY DEF Inv, Shapes, DisksShape, Layout

\* A command begins where the last one ended.
LEMMA CommandKeeps ==
  ASSUME Inv, NEW c \in Commands, Command(c)
  PROVE  Inv'
<1>1. /\ DOMAIN fdc = FdcFields /\ HeadInv /\ ProgramInv
      /\ c.number \in 0 .. 15
  BY DiskAssumption DEF Inv, Shapes
<1>2. /\ disks' = disks /\ image' = image
      /\ prog.at = "free" \/ c.number = FORCE_INTERRUPT
      /\ c.number = SEEK => fdc.data \in Tracks
      /\ DOMAIN prog' = ProgFields
      /\ prog'.at = IF c.number = FORCE_INTERRUPT THEN "free" ELSE "rising"
  BY DEF Command, ProgFields
<1> DEFINE f == [fdc EXCEPT !.command = c.number, !.deleted = c.deleted, !.spin = c.spin]
           status == IF c.number = WRITE_SECTOR THEN {"drq"} ELSE {}
           sub == IF c.number \in {READ_SECTOR, WRITE_SECTOR, READ_ADDRESS}
                  THEN "SEARCHING_FOR_NEXT_ID" ELSE fdc.sub
           dir == IF c.number \in {STEP_IN, STEP_IN + 1} THEN 1
                  ELSE IF c.number \in {STEP_OUT, STEP_OUT + 1} THEN -1 ELSE fdc.dir
           type == TypeOf(c.number)
           g == [f EXCEPT !.stage = 0, !.type = type, !.status = status, !.sub = sub, !.dir = dir]
<1>3. /\ DOMAIN f = FdcFields /\ f.sub = fdc.sub /\ f.dir = fdc.dir /\ f.type = fdc.type
      /\ f.command = c.number
      /\ f.at = fdc.at /\ f.side = fdc.side /\ f.offset = fdc.offset /\ f.data = fdc.data
  BY <1>1 DEF FdcFields
<1>4. CASE c.number = FORCE_INTERRUPT
  <2>1. fdc' = Completed([f EXCEPT !.stage = 0, !.status = {}])
    BY <1>4 DEF Command, WriteCommand
  <2> HIDE DEF f
  <2>2. /\ DOMAIN fdc' = FdcFields /\ fdc'.type = 0 /\ fdc'.stage = 0
        /\ fdc'.command = c.number /\ fdc'.at = fdc.at /\ fdc'.side = fdc.side
        /\ fdc'.offset = fdc.offset /\ fdc'.dir = fdc.dir /\ fdc'.status = {}
    BY <1>3, <2>1 DEF Completed, FdcFields
  <2>3. HeadInv'
    BY <1>1, <1>2, <2>2 DEF HeadInv
  <2>4. ProgramInv' /\ WriteInv'
    BY <1>2, <1>4, <2>2 DEF ProgramInv, WriteInv
  <2>5. QED
    BY <1>2, <2>2, <2>3, <2>4, ProgramSteps
<1>5. CASE c.number # FORCE_INTERRUPT
  <2>1. prog.at = "free" /\ fdc.type = 0 /\ "busy" \notin fdc.status
    BY <1>1, <1>2, <1>5 DEF ProgramInv
  <2>2. fdc' = g
    <3>1. fdc' = [f EXCEPT !.stage = 0, !.type = TypeOf(c.number),
                     !.status = IF c.number = WRITE_SECTOR THEN {"drq"} ELSE {},
                     !.sub = IF c.number \in {READ_SECTOR, WRITE_SECTOR, READ_ADDRESS}
                             THEN "SEARCHING_FOR_NEXT_ID" ELSE @,
                     !.dir = IF c.number \in {STEP_IN, STEP_IN + 1} THEN 1
                             ELSE IF c.number \in {STEP_OUT, STEP_OUT + 1} THEN -1 ELSE @]
      BY <1>5, <2>1 DEF Command, WriteCommand
    <3> HIDE DEF f
    <3>2. g = [f EXCEPT !.stage = 0, !.type = TypeOf(c.number),
                     !.status = IF c.number = WRITE_SECTOR THEN {"drq"} ELSE {},
                     !.sub = IF c.number \in {READ_SECTOR, WRITE_SECTOR, READ_ADDRESS}
                             THEN "SEARCHING_FOR_NEXT_ID" ELSE @,
                     !.dir = IF c.number \in {STEP_IN, STEP_IN + 1} THEN 1
                             ELSE IF c.number \in {STEP_OUT, STEP_OUT + 1} THEN -1 ELSE @]
      BY <1>3 DEF FdcFields
    <3>3. QED
      BY <3>1, <3>2
  <2>3. /\ dir \in {1, -1} /\ (c.number = WRITE_SECTOR => sub = "SEARCHING_FOR_NEXT_ID")
        /\ "busy" \notin status
    BY <1>1 DEF HeadInv
  <2> HIDE DEF f, status, sub, dir, type
  <2>4. /\ DOMAIN fdc' = FdcFields /\ fdc'.type = type /\ fdc'.stage = 0
        /\ fdc'.command = c.number /\ fdc'.at = fdc.at /\ fdc'.side = fdc.side
        /\ fdc'.offset = fdc.offset /\ fdc'.dir = dir /\ fdc'.data = fdc.data /\ fdc'.sub = sub
        /\ fdc'.status = status
    BY <1>3, <2>2 DEF FdcFields
  <2>5. \/ type = 0
        \/ type = 1 /\ c.number \in 0 .. 7
        \/ type = 2 /\ c.number \in {READ_SECTOR, WRITE_SECTOR}
        \/ type = 3 /\ c.number \in {READ_ADDRESS, READ_TRACK, WRITE_TRACK}
    BY <1>1, <2>1, TypeOfCommand DEF type
  <2>6. HeadInv'
    BY <1>1, <1>2, <2>3, <2>4, <2>5 DEF HeadInv
  <2>7. ProgramInv'
    BY <1>2, <1>5, <2>3, <2>4 DEF ProgramInv
  <2>8. WriteInv'
    BY <2>3, <2>4 DEF WriteInv
  <2>9. QED
    BY <1>2, <2>4, <2>6, <2>7, <2>8, ProgramSteps
<1>6. QED
  BY <1>4, <1>5

LEMMA PollKeeps == ASSUME Inv, Poll PROVE Inv'
<1>1. Shapes /\ HeadInv /\ ProgramInv /\ WriteInv /\ prog.at \in {"rising", "running"}
  BY DEF Inv, Poll
<1> DEFINE far == fdc.command >= READ_SECTOR
           at == IF prog.at = "rising" THEN IF "busy" \in fdc.status THEN "running" ELSE prog.at
                 ELSE IF "busy" \notin fdc.status THEN "free"
                 ELSE IF "drq" \in fdc.status /\ far THEN "moving"
                 ELSE prog.at
<1>2. fdc' = fdc /\ disks' = disks /\ image' = image
  BY DEF Poll
<1>3. prog' = [prog EXCEPT !.seen = fdc.status, !.at = at]
  BY <1>1 DEF Poll, Shapes, ProgFields
<1> HIDE DEF at, far
<1>4. DOMAIN prog' = ProgFields /\ prog'.at = at
  BY <1>1, <1>3 DEF Shapes, ProgFields
<1>5. /\ at \in {"free", "rising", "running", "moving"}
      /\ at = "free" => fdc.type = 0 /\ "busy" \notin fdc.status
      /\ at \in {"running", "moving"} /\ fdc.type # 0 => fdc.stage # 0
      /\ fdc.type # 0 => (fdc.stage # 0 <=> "busy" \in fdc.status)
      /\ at = "moving" => far
  BY <1>1 DEF at, ProgramInv
<1>6. HeadInv' /\ DOMAIN fdc' = FdcFields
  BY <1>1, <1>2 DEF Shapes, HeadInv
<1>7. ProgramInv'
  BY <1>2, <1>4, <1>5 DEF ProgramInv, far
<1>8. WriteInv'
  BY <1>1, <1>2 DEF WriteInv, Position, HeaderPosition, AtHeader, OfSector
<1>9. QED
  BY <1>2, <1>4, <1>6, <1>7, <1>8, ProgramSteps

\* A byte is moved while a command is under way, or just after it.
LEMMA MovingKeeps ==
  ASSUME Inv, prog.at = "moving", disks' = disks, image' = image,
         DOMAIN prog' = ProgFields, prog'.at = "running",
         DOMAIN fdc' = FdcFields, fdc'.status = fdc.status \ {"drq"},
         \A field \in FdcFields \ {"status", "data"} : fdc'[field] = fdc[field]
  PROVE  Inv'
<1>1. HeadInv /\ ProgramInv /\ WriteInv
  BY DEF Inv
<1>2. /\ fdc'.type = fdc.type /\ fdc'.stage = fdc.stage /\ fdc'.command = fdc.command
      /\ fdc'.track = fdc.track /\ fdc'.sector = fdc.sector /\ fdc'.at = fdc.at
      /\ fdc'.side = fdc.side /\ fdc'.dir = fdc.dir /\ fdc'.offset = fdc.offset
      /\ fdc'.sync = fdc.sync /\ fdc'.sub = fdc.sub /\ fdc'.index = fdc.index
  BY DEF FdcFields
<1>3. HeadInv'
  <2>1. fdc.type # 1
    BY <1>1 DEF HeadInv, ProgramInv, READ_SECTOR
  <2>2. QED
    BY <1>1, <1>2, <2>1 DEF HeadInv
<1>4. ProgramInv'
  BY <1>1, <1>2 DEF ProgramInv
<1>5. WriteInv'
  BY <1>1, <1>2 DEF WriteInv, Position, HeaderPosition, AtHeader, OfSector
<1>6. QED
  BY <1>3, <1>4, <1>5, ProgramSteps

LEMMA ReadDataKeeps == ASSUME Inv, ReadData PROVE Inv'
<1>1. DOMAIN fdc = FdcFields /\ DOMAIN prog = ProgFields
  BY DEF Inv, Shapes
<1> DEFINE status == fdc.status \ {"drq"}
           moved == IF prog.op = "read" THEN Append(prog.moved, fdc.data) ELSE prog.moved
<1>2. /\ prog.at = "moving" /\ disks' = disks /\ image' = image
      /\ fdc' = [fdc EXCEPT !.status = status]
      /\ prog' = [prog EXCEPT !.at = "running", !.moved = moved]
  BY <1>1 DEF ReadData, ProgFields
<1> HIDE DEF moved
<1>3. DOMAIN prog' = ProgFields /\ prog'.at = "running"
  BY <1>1, <1>2 DEF ProgFields
<1>4. /\ DOMAIN fdc' = FdcFields /\ fdc'.status = status
      /\ \A field \in FdcFields \ {"status", "data"} : fdc'[field] = fdc[field]
  BY <1>1, <1>2 DEF FdcFields
<1>5. QED
  BY <1>2, <1>3, <1>4, MovingKeeps

LEMMA WriteDataKeeps == ASSUME Inv, NEW b \in Given, WriteData(b) PROVE Inv'
<1>1. DOMAIN fdc = FdcFields /\ DOMAIN prog = ProgFields
  BY DEF Inv, Shapes
<1> DEFINE status == fdc.status \ {"drq"}
           moved == Append(prog.moved, b)
<1>2. /\ prog.at = "moving" /\ disks' = disks /\ image' = image
      /\ fdc' = [fdc EXCEPT !.data = b, !.status = status]
      /\ prog' = [prog EXCEPT !.at = "running", !.moved = moved]
  BY <1>1 DEF WriteData, ProgFields
<1> HIDE DEF moved
<1>3. DOMAIN prog' = ProgFields /\ prog'.at = "running"
  BY <1>1, <1>2 DEF ProgFields
<1>4. /\ DOMAIN fdc' = FdcFields /\ fdc'.status = status
      /\ \A field \in FdcFields \ {"status", "data"} : fdc'[field] = fdc[field]
  BY <1>1, <1>2 DEF FdcFields
<1>5. QED
  BY <1>2, <1>3, <1>4, MovingKeeps

LEMMA SetRegistersKeeps == ASSUME Inv, SetRegisters PROVE Inv'
<1>1. /\ DOMAIN fdc = FdcFields /\ DOMAIN prog = ProgFields
      /\ HeadInv /\ ProgramInv /\ prog.at = "free"
  BY DEF Inv, Shapes, SetRegisters, Register
<1>2. disks' = disks /\ image' = image /\ prog' = prog
  BY DEF SetRegisters, Register
<1>3. /\ DOMAIN fdc' = FdcFields /\ fdc'.type = fdc.type /\ fdc'.stage = fdc.stage
      /\ fdc'.command = fdc.command /\ fdc'.at = fdc.at /\ fdc'.dir = fdc.dir
      /\ fdc'.offset = fdc.offset /\ fdc'.side \in Sides
      /\ "busy" \notin fdc.status => "busy" \notin fdc'.status
  <2>1. CASE \E t \in Tracks : fdc' = [fdc EXCEPT !.track = t]
    BY <1>1, <2>1 DEF FdcFields, HeadInv
  <2>2. CASE \E t \in Tracks : fdc' = [fdc EXCEPT !.data = t, !.status = @ \ {"drq"}]
    BY <1>1, <2>2 DEF FdcFields, HeadInv
  <2>3. CASE \E s \in 1 .. LastSector + 1 : fdc' = [fdc EXCEPT !.sector = s]
    BY <1>1, <2>3 DEF FdcFields, HeadInv
  <2>4. CASE \E side \in Sides : fdc' = [fdc EXCEPT !.side = side]
    BY <1>1, <2>4 DEF FdcFields, HeadInv
  <2>5. QED
    BY <2>1, <2>2, <2>3, <2>4 DEF SetRegisters, Register
<1>4. fdc.type = 0 /\ "busy" \notin fdc.status
  BY <1>1 DEF ProgramInv
<1>5. HeadInv'
  BY <1>1, <1>2, <1>3, <1>4 DEF HeadInv
<1>6. ProgramInv'
  BY <1>1, <1>2, <1>3, <1>4 DEF ProgramInv
<1>7. WriteInv'
  BY <1>3, <1>4 DEF WriteInv
<1>8. QED
  BY <1>1, <1>2, <1>3, <1>5, <1>6, <1>7, ProgramSteps

\* A change of disk leaves the head where it is: every disk is laid out alike.
LEMMA InsertKeeps == ASSUME Inv, NEW i \in Images, Insert(i) PROVE Inv'
<1>1. /\ DOMAIN fdc = FdcFields /\ DOMAIN prog = ProgFields
      /\ HeadInv /\ ProgramInv /\ WriteInv
  BY DEF Inv, Shapes
<1> DEFINE protected == i \in ReadOnly
           left == prog.left - 1
<1>2. /\ disks' = disks /\ image' = i
      /\ fdc' = [fdc EXCEPT !.protected = protected]
      /\ prog' = [prog EXCEPT !.op = "none", !.left = left]
  BY <1>1 DEF Insert, ProgFields
<1> HIDE DEF protected, left
<1>3. DOMAIN prog' = ProgFields /\ prog'.at = prog.at
  BY <1>1, <1>2 DEF ProgFields
<1>4. /\ DOMAIN fdc' = FdcFields /\ fdc'.type = fdc.type /\ fdc'.stage = fdc.stage
      /\ fdc'.command = fdc.command /\ fdc'.status = fdc.status
      /\ fdc'.track = fdc.track /\ fdc'.sector = fdc.sector /\ fdc'.data = fdc.data
      /\ fdc'.at = fdc.at /\ fdc'.side = fdc.side /\ fdc'.dir = fdc.dir
      /\ fdc'.offset = fdc.offset /\ fdc'.sync = fdc.sync /\ fdc'.sub = fdc.sub
      /\ fdc'.index = fdc.index
  BY <1>1, <1>2 DEF FdcFields
<1>5. HeadInv'
  BY <1>1, <1>2, <1>4 DEF HeadInv
<1>6. ProgramInv'
  BY <1>1, <1>3, <1>4 DEF ProgramInv
<1>7. WriteInv'
  BY <1>1, <1>4 DEF WriteInv, Position, HeaderPosition, AtHeader, OfSector
<1>8. QED
  BY <1>2, <1>3, <1>4, <1>5, <1>6, <1>7, ProgramSteps

-----------------------------------------------------------------------------
(* The specification *)

LEMMA BytesAreSeq ==
  ASSUME NEW S, NEW T, S \subseteq T, NEW n \in Nat, NEW s \in [1 .. n -> S]
  PROVE  s \in Seq(T) /\ Len(s) = n
<1>1. s \in [1 .. n -> T]
  OBVIOUS
<1>2. QED
  BY <1>1

\* The cells of a sector, one by one.
SectorCellsAre(all, t, side, s, mark, data) ==
  /\ all = [k \in 1 .. SectorCells |-> all[k]]
  /\ all[1] = SYNC /\ all[2] = ID /\ all[3] = t /\ all[4] = side /\ all[5] = s
  /\ all[6] = GAP /\ all[7] = SYNC /\ all[8] = mark
  /\ \A k \in 1 .. SectorLength : all[8 + k] = data[k]
  /\ all[9 + SectorLength] = CRCOf(mark, data) \div 8
  /\ all[10 + SectorLength] = CRCOf(mark, data) % 8
  /\ all[11 + SectorLength] = GAP
LEMMA SectorIs ==
  ASSUME NEW t \in Int, NEW side \in Int, NEW s \in Int, NEW mark \in Int,
         NEW data \in Seq(Int), Len(data) = SectorLength
  PROVE  SectorCellsAre(Sector(t, side, s, mark, data), t, side, s, mark, data)
<1> DEFINE all == Sector(t, side, s, mark, data)
           head == <<SYNC, ID, t, side, s, GAP, SYNC, mark>>
           tail == <<CRCOf(mark, data) \div 8, CRCOf(mark, data) % 8, GAP>>
           Bytes == Int \union {x : x \in {CRCOf(mark, data) \div 8, CRCOf(mark, data) % 8}}
           first == head \o data
           l == SectorLength
<1>1. all = first \o tail
  BY DEF Sector, all
<1>2. l \in Nat /\ SectorCells = l + 11
  BY SectorsOfTrack
<1>3. data \in Seq(Bytes) /\ Len(data) = l
  <2>1. Int \subseteq Bytes
    OBVIOUS
  <2> HIDE DEF Bytes
  <2>2. data \in [1 .. l -> Int]
    OBVIOUS
  <2>3. data \in [1 .. l -> Bytes]
    BY <2>1, <2>2
  <2>4. QED
    BY <1>2, <2>3
<1>4. /\ tail \in Seq(Bytes) /\ Len(tail) = 3 /\ tail[1] = CRCOf(mark, data) \div 8
      /\ tail[2] = CRCOf(mark, data) % 8 /\ tail[3] = GAP
  <2>1. GAP \in Bytes /\ CRCOf(mark, data) \div 8 \in Bytes /\ CRCOf(mark, data) % 8 \in Bytes
    BY DEF GAP
  <2> HIDE DEF Bytes
  <2>2. QED
    BY <2>1
<1>5. /\ head \in Seq(Bytes) /\ Len(head) = 8
      /\ head[1] = SYNC /\ head[2] = ID /\ head[3] = t /\ head[4] = side /\ head[5] = s
      /\ head[6] = GAP /\ head[7] = SYNC /\ head[8] = mark
  <2>1. {SYNC, ID, t, side, s, GAP, mark} \subseteq Bytes
    BY DEF SYNC, ID, GAP
  <2> HIDE DEF Bytes
  <2>2. QED
    BY <2>1
<1> HIDE DEF all, head, tail, Bytes, l
<1>6. /\ first \in Seq(Bytes) /\ Len(first) = 8 + l
      /\ \A k \in 1 .. 8 + l : first[k] = IF k <= 8 THEN head[k] ELSE data[k - 8]
  <2>1. /\ first \in Seq(Bytes) /\ Len(first) = Len(head) + Len(data)
        /\ \A k \in 1 .. Len(head) + Len(data) :
             first[k] = IF k <= Len(head) THEN head[k] ELSE data[k - Len(head)]
    BY <1>3, <1>5, ConcatProperties, Zenon
  <2>2. QED
    BY <1>3, <1>5, <2>1
<1> HIDE DEF first
<1>7. /\ all \in Seq(Bytes) /\ Len(all) = l + 11
      /\ \A k \in 1 .. l + 11 : all[k] = IF k <= 8 + l THEN first[k] ELSE tail[k - (8 + l)]
  <2>1. /\ first \o tail \in Seq(Bytes) /\ Len(first \o tail) = Len(first) + Len(tail)
        /\ \A k \in 1 .. Len(first) + Len(tail) :
             (first \o tail)[k] = IF k <= Len(first) THEN first[k] ELSE tail[k - Len(first)]
    BY <1>4, <1>6, ConcatProperties, Zenon
  <2>2. Len(first) = 8 + l /\ Len(tail) = 3
    BY <1>4, <1>6
  <2>3. Len(first) + Len(tail) = l + 11
    BY <1>2, <2>2
  <2>4. QED
    BY <1>1, <2>1, <2>2, <2>3
<1>8. \A k \in 1 .. 8 : all[k] = head[k]
  <2>1. \A k \in 1 .. 8 : k \in 1 .. 8 + l /\ k \in 1 .. l + 11 /\ k <= 8 /\ k <= 8 + l
    BY <1>2
  <2>2. ASSUME NEW k \in 1 .. 8 PROVE all[k] = head[k]
    <3>1. all[k] = first[k]
      BY <1>7, <2>1, Zenon
    <3>2. first[k] = head[k]
      BY <1>6, <2>1, Zenon
    <3>3. QED
      BY <3>1, <3>2
  <2>3. QED
    BY <2>2
<1>9. \A k \in 1 .. l : all[8 + k] = data[k]
  <2>1. \A k \in 1 .. l : /\ 8 + k \in 1 .. 8 + l /\ 8 + k \in 1 .. l + 11
                          /\ ~(8 + k <= 8) /\ 8 + k <= 8 + l /\ (8 + k) - 8 = k
    BY <1>2
  <2>2. QED
    BY <1>6, <1>7, <2>1, Zenon
<1>10. \A k \in 1 .. 3 : all[(8 + l) + k] = tail[k]
  <2>1. \A k \in 1 .. 3 : /\ (8 + l) + k \in 1 .. l + 11 /\ ~((8 + l) + k <= 8 + l)
                          /\ ((8 + l) + k) - (8 + l) = k
    BY <1>2
  <2>2. QED
    BY <1>7, <2>1, Zenon
<1>11. all[9 + l] = tail[1] /\ all[10 + l] = tail[2] /\ all[11 + l] = tail[3]
  <2>1. 9 + l = (8 + l) + 1 /\ 10 + l = (8 + l) + 2 /\ 11 + l = (8 + l) + 3
    BY <1>2
  <2>2. 1 \in 1 .. 3 /\ 2 \in 1 .. 3 /\ 3 \in 1 .. 3
    OBVIOUS
  <2>3. QED
    BY <1>10, <2>1, <2>2, Zenon
<1>12. all = [k \in 1 .. SectorCells |-> all[k]]
  <2>1. DOMAIN all = 1 .. Len(all) /\ all = [k \in DOMAIN all |-> all[k]]
    BY <1>7
  <2>2. QED
    BY <1>2, <1>7, <2>1
<1>13. /\ all[1] = SYNC /\ all[2] = ID /\ all[3] = t /\ all[4] = side /\ all[5] = s
       /\ all[6] = GAP /\ all[7] = SYNC /\ all[8] = mark
  BY <1>5, <1>8
<1>14. QED
  BY <1>4, <1>9, <1>11, <1>12, <1>13 DEF l, all, SectorCellsAre

\* OpenD81 lays the sectors out one behind the other.
LEMMA SectorsLaidOut ==
  ASSUME NEW i \in Images, NEW t \in Tracks, NEW side \in Sides, NEW s \in Sectors,
         NEW k \in 0 .. SectorCells - 1
  PROVE  OpenD81(i)[t][side][Start(s) + k]
           = Sector(t, side, s, MARK, DataOf(i, t, side, s))[k + 1]
<1> DEFINE cells == OpenD81(i)[t][side]
           r == (((Start(s) + k) - 1) \div SectorCells) + 1
           m == ((Start(s) + k) - 1) % SectorCells
<1>1. \A o \in 1 .. TrackLength - 1 :
        cells[o] = Sector(t, side, ((o - 1) \div SectorCells) + 1, MARK,
                     DataOf(i, t, side, ((o - 1) \div SectorCells) + 1))[((o - 1) % SectorCells) + 1]
  BY SectorsOfTrack DEF OpenD81
<1>2. Start(s) + k \in 1 .. TrackLength - 1
  BY SectorsOfTrack
<1>3. r = s /\ m = k
  BY PlaceOfCell, Zenon
<1> HIDE DEF cells
<1>4. cells[Start(s) + k] = Sector(t, side, r, MARK, DataOf(i, t, side, r))[m + 1]
  BY <1>1, <1>2, Zenon
<1> HIDE DEF r, m
<1>5. QED
  BY <1>3, <1>4 DEF cells

\* ... with the headers where the search looks for them.
LEMMA LaidOut ==
  ASSUME NEW i \in Images, NEW t \in Tracks, NEW side \in Sides, NEW s \in Sectors
  PROVE  /\ OpenD81(i)[t][side][Start(s)] = SYNC
         /\ OpenD81(i)[t][side][Start(s) + 1] = ID
         /\ OpenD81(i)[t][side][Start(s) + 2] = t
         /\ OpenD81(i)[t][side][Start(s) + 3] = side
         /\ OpenD81(i)[t][side][Start(s) + 4] = s
         /\ OpenD81(i)[t][side][Start(s) + 5] = GAP
         /\ OpenD81(i)[t][side][Start(s) + 6] = SYNC
         /\ OpenD81(i)[t][side][Start(s) + 7] = MARK
         /\ OpenD81(i)[t][side][Start(s) + (10 + SectorLength)] = GAP
<1> DEFINE all == Sector(t, side, s, MARK, DataOf(i, t, side, s))
           cells == OpenD81(i)[t][side]
<1>1. /\ all[1] = SYNC /\ all[2] = ID /\ all[3] = t /\ all[4] = side /\ all[5] = s
      /\ all[6] = GAP /\ all[7] = SYNC /\ all[8] = MARK /\ all[11 + SectorLength] = GAP
  <2> DEFINE data == DataOf(i, t, side, s)
  <2>1. t \in Int /\ side \in Int /\ s \in Int /\ MARK \in Int
    BY DiskAssumption DEF Tracks, Sides, Sectors, MARK
  <2>2. data \in [1 .. SectorLength -> 0 .. 255] /\ 0 .. 255 \subseteq Int /\ SectorLength \in Nat
    BY DiskAssumption
  <2> HIDE DEF data
  <2>3. data \in Seq(Int) /\ Len(data) = SectorLength
    <3>1. PICK S, n : S = 0 .. 255 /\ n = SectorLength
      OBVIOUS
    <3>2. S \subseteq Int /\ n \in Nat /\ data \in [1 .. n -> S]
      BY <2>2, <3>1
    <3>3. data \in Seq(Int) /\ Len(data) = n
      BY <3>2, BytesAreSeq, Zenon
    <3>4. QED
      BY <3>1, <3>3
  <2>4. SectorCellsAre(Sector(t, side, s, MARK, data), t, side, s, MARK, data)
    BY <2>1, <2>3, SectorIs, Zenon
  <2>5. QED
    BY <2>4 DEF SectorCellsAre, data
<1>2. /\ {0, 1, 2, 3, 4, 5, 6, 7, 10 + SectorLength} \subseteq 0 .. SectorCells - 1
      /\ (10 + SectorLength) + 1 = 11 + SectorLength /\ Start(s) + 0 = Start(s)
  BY SectorsOfTrack
<1>3. \A k \in 0 .. SectorCells - 1 : cells[Start(s) + k] = all[k + 1]
  BY SectorsLaidOut
<1> HIDE DEF cells, all
<1>4. /\ cells[Start(s)] = all[1] /\ cells[Start(s) + 1] = all[2] /\ cells[Start(s) + 2] = all[3]
      /\ cells[Start(s) + 3] = all[4] /\ cells[Start(s) + 4] = all[5] /\ cells[Start(s) + 5] = all[6]
      /\ cells[Start(s) + 6] = all[7] /\ cells[Start(s) + 7] = all[8]
      /\ cells[Start(s) + (10 + SectorLength)] = all[11 + SectorLength]
  BY <1>2, <1>3
<1>5. QED
  BY <1>1, <1>4 DEF cells

LEMMA InitInv == Init => Inv
<1> SUFFICES ASSUME Init PROVE Inv
  OBVIOUS
<1>1. /\ image = 1 /\ disks = [i \in Images |-> OpenD81(i)]
      /\ DOMAIN fdc = FdcFields /\ fdc.type = 0 /\ fdc.stage = 0 /\ fdc.command = RESTORE
      /\ fdc.status = {} /\ fdc.at = 0 /\ fdc.side = 0 /\ fdc.offset = 0 /\ fdc.dir = 1
      /\ DOMAIN prog = ProgFields /\ prog.at = "free"
  BY DEF Init, FdcFields, ProgFields
<1> HIDE DEF Init
<1>2. ImageCount \in Nat \ {0} /\ LastTrack \in Nat
  BY DiskAssumption
<1>3. DisksShape(disks)
  BY <1>1 DEF DisksShape, OpenD81
<1>4. HeadInv
  BY <1>1, <1>2, SectorsOfTrack DEF HeadInv, RESTORE, Tracks, Sides, Images
<1>5. ProgramInv /\ WriteInv
  BY <1>1 DEF ProgramInv, WriteInv
<1>6. Layout(disks)
  BY <1>1, LaidOut, SubStateNames DEF Layout
<1>7. QED
  BY <1>1, <1>3, <1>4, <1>5, <1>6 DEF Inv, Shapes

LEMMA NextInv ==
  ASSUME Inv, [Next]_vars
  PROVE  Inv' /\ WritesItsSector
<1>1. CASE WritesSector
  BY <1>1, WritesSectorKeeps
<1>2. CASE BusyGoes \/ Begins \/ Settled \/ Pulse \/ Moves
  <2>1. disks' = disks
    BY <1>2 DEF BusyGoes, Begins, Settled, Pulse, Moves
  <2>2. QED
    BY <1>2, <2>1, BusyGoesKeeps, BeginsKeeps, SettledKeeps, PulseKeeps, MovesKeeps DEF WritesItsSector
<1>3. CASE SearchesHeader \/ ReadsSector \/ ReadsAddress \/ ReadsTrack
  <2>1. disks' = disks
    BY <1>3 DEF SearchesHeader, ReadsSector, ReadsAddress, ReadsTrack
  <2>2. QED
    BY <1>3, <2>1, SearchesHeaderKeeps, ReadsSectorKeeps, ReadsAddressKeeps, ReadsTrackKeeps
       DEF WritesItsSector
<1>4. CASE Poll \/ ReadData \/ SetRegisters
  <2>1. disks' = disks
    BY <1>4 DEF Poll, ReadData, SetRegisters, Register
  <2>2. QED
    BY <1>4, <2>1, PollKeeps, ReadDataKeeps, SetRegistersKeeps DEF WritesItsSector
<1>5. CASE \E c \in Commands : Command(c)
  BY <1>5, CommandKeeps DEF WritesItsSector, Command
<1>6. CASE \E b \in Given : WriteData(b)
  BY <1>6, WriteDataKeeps DEF WritesItsSector, WriteData
<1>7. CASE \E i \in Images : Insert(i)
  BY <1>7, InsertKeeps DEF WritesItsSector, Insert
<1>8. CASE UNCHANGED vars
  <2>1. fdc' = fdc /\ disks' = disks /\ image' = image /\ prog' = prog
    BY <1>8 DEF vars
  <2>2. QED
    BY <2>1 DEF Inv, Shapes, DisksShape, HeadInv, ProgramInv, Layout, WriteInv, Position,
                HeaderPosition, AtHeader, OfSector, WritesItsSector
<1>9. QED
  BY <1>1, <1>2, <1>3, <1>4, <1>5, <1>6, <1>7, <1>8 DEF Next, Execute

\* What a step that writes its sector leaves of the disks.
LEMMA WritesOnly ==
  ASSUME Inv, WritesItsSector
  PROVE  \A i \in Images : disks'[i] # disks[i] =>
           /\ i = image /\ fdc.track = fdc.at /\ fdc.sector \in Sectors
           /\ \A t \in Tracks, side \in Sides, o \in 0 .. TrackLength :
                disks'[i][t][side][o] # disks[i][t][side][o] =>
                   t = fdc.at /\ side = fdc.side /\ o \in DataCells(fdc.sector)
<1>1. CASE disks' = disks
  BY <1>1
<1>2. CASE disks' # disks
  <2>1. fdc.track = fdc.at /\ fdc.sector \in Sectors
    BY <1>2 DEF WritesItsSector
  <2>2. PICK k \in 7 .. 9 + SectorLength : \E b :
          disks' = CellSet(disks, image, fdc.at, fdc.side, Start(fdc.sector) + k, b)
    BY <1>2 DEF WritesItsSector
  <2>3. PICK b : disks' = CellSet(disks, image, fdc.at, fdc.side, Start(fdc.sector) + k, b)
    BY <2>2
  <2> DEFINE o == Start(fdc.sector) + k
  <2>4. o \in DataCells(fdc.sector) /\ o \in 0 .. TrackLength
    BY <2>1, SectorsOfTrack DEF DataCells
  <2>5. /\ DisksShape(disks) /\ image \in Images /\ fdc.at \in Tracks /\ fdc.side \in Sides
    BY DEF Inv, Shapes, HeadInv
  <2> HIDE DEF o
  <2>6. /\ \A j \in Images : j # image => disks'[j] = disks[j]
        /\ \A j \in Images, u \in Tracks, v \in Sides, p \in 0 .. TrackLength :
             ~(j = image /\ u = fdc.at /\ v = fdc.side /\ p = o)
               => disks'[j][u][v][p] = disks[j][u][v][p]
    BY <2>3, <2>4, <2>5, OneCell DEF o
  <2>7. QED
    BY <2>1, <2>4, <2>6
<1>3. QED
  BY <1>1, <1>2

\* A sector the program writes changes in its own mark, data and sum and
\* nowhere else, on whatever disk and wherever the commands before left the
\* head: the search takes no byte of data for a header, since the head comes
\* upon the data of every sector with its mark, which is no header's, first,
\* and the bytes written end before the next sector (wd177x.cpp 418-540).
THEOREM OnlyItsSector == Spec => OnlyTheSector
<1>1. Inv /\ [Next]_vars => WritesItsSector /\ Inv'
  BY NextInv
<1>2. Inv /\ [Next]_vars =>
        [\A i \in Images : disks'[i] # disks[i] =>
           /\ i = image /\ fdc.track = fdc.at /\ fdc.sector \in Sectors
           /\ \A t \in Tracks, side \in Sides, o \in 0 .. TrackLength :
                disks'[i][t][side][o] # disks[i][t][side][o] =>
                   t = fdc.at /\ side = fdc.side /\ o \in DataCells(fdc.sector)]_vars
  BY <1>1, WritesOnly
<1>3. QED
  BY InitInv, <1>1, <1>2, PTL DEF Spec, OnlyTheSector

-----------------------------------------------------------------------------
(* The sector asked for: where the search for it stands *)

\* The program has given a command for a sector and has not seen it end.
Asking == prog.op \in {"read", "write"} /\ prog.at # "free"
\* The head is on the track of the sector asked for.
There == Asked.track = Asked.at /\ Asked.sector \in Sectors

\* What was asked for stays in the registers.
AskInv ==
  Asking =>
    /\ fdc.type \in {0, 2}
    /\ fdc.command = IF prog.op = "read" THEN READ_SECTOR ELSE WRITE_SECTOR
    /\ fdc.track = Asked.track /\ fdc.sector = Asked.sector
    /\ fdc.at = Asked.at /\ fdc.side = Asked.side

\* Before the search begins nothing has gone wrong.
NothingYet ==
  /\ fdc.sub = "SEARCHING_FOR_NEXT_ID"
  /\ "lost" \notin fdc.status /\ "seek" \notin fdc.status

\* The head comes to the sector's header in its first turn, or in what is left of
\* it after one: the turn begins where the search did.
BeforeHeader ==
  /\ fdc.sub = "SEARCHING_FOR_NEXT_ID" =>
       \/ fdc.offset < Start(fdc.sector)
       \/ fdc.offset = Start(fdc.sector) /\ fdc.sync
  /\ fdc.sub = "WAIT_FOR_TRACK" => fdc.offset <= Start(fdc.sector) + 1
  /\ fdc.sub = "WAIT_FOR_SIDE" => fdc.offset <= Start(fdc.sector) + 2
  /\ fdc.sub = "WAIT_FOR_SECTOR" => fdc.offset <= Start(fdc.sector) + 3
SoonFound == fdc.turns = 0 \/ (fdc.turns = 1 /\ BeforeHeader)

SearchInv ==
  Asking /\ fdc.type = 2 =>
    /\ fdc.stage # 3 => NothingYet
    /\ fdc.stage = 2 => ~fdc.sync
    /\ fdc.stage = 3 /\ fdc.sub \in HeaderStates => HeaderPosition /\ (There => SoonFound)

SeekInv ==
  prog.op \in {"read", "write"} /\ There =>
    /\ "seek" \notin prog.seen
    /\ prog.at # "free" => "seek" \notin fdc.status

FoundInv == Inv /\ AskInv /\ SearchInv /\ SeekInv

-----------------------------------------------------------------------------
(* The sector is found *)

\* A step of the controller that leaves what was asked for in its registers.
LEMMA RegistersStay ==
  ASSUME FoundInv, prog' = prog, fdc'.command = fdc.command, fdc'.track = fdc.track,
         fdc'.sector = fdc.sector, fdc'.at = fdc.at, fdc'.side = fdc.side,
         fdc'.type \in {0, fdc.type},
         Asking /\ There /\ "seek" \in fdc'.status => "seek" \in fdc.status,
         Asking /\ fdc'.type = 2 => SearchInv'
  PROVE  AskInv' /\ SearchInv' /\ SeekInv'
<1>1. (Asking' <=> Asking) /\ (There' <=> There) /\ Asked' = Asked
  BY DEF Asking, There, Asked
<1>2. AskInv'
  BY <1>1 DEF FoundInv, AskInv
<1>3. SearchInv'
  BY <1>1 DEF SearchInv
<1>4. SeekInv'
  BY <1>1 DEF FoundInv, SeekInv, Asking
<1>5. QED
  BY <1>2, <1>3, <1>4

\* A step of the controller while no sector is asked for.
LEMMA NothingAsked ==
  ASSUME FoundInv, ~Asking, prog' = prog
  PROVE  AskInv' /\ SearchInv' /\ SeekInv'
<1>1. ~Asking' /\ (There' <=> There)
  BY DEF Asking, There, Asked
<1>2. SeekInv'
  BY <1>1 DEF FoundInv, SeekInv, Asking
<1>3. QED
  BY <1>1, <1>2 DEF AskInv, SearchInv

LEMMA BusyGoesFinds == ASSUME FoundInv, BusyGoes PROVE AskInv' /\ SearchInv' /\ SeekInv'
<1>1. DOMAIN fdc = FdcFields /\ fdc.type = 0
  BY DEF FoundInv, Inv, Shapes, BusyGoes
<1>2. prog' = prog /\ fdc' = [fdc EXCEPT !.wait = FALSE, !.status = @ \ {"busy"}]
  BY DEF BusyGoes, Chip
<1>3. /\ fdc'.type = 0 /\ fdc'.command = fdc.command /\ fdc'.track = fdc.track
      /\ fdc'.sector = fdc.sector /\ fdc'.at = fdc.at /\ fdc'.side = fdc.side
      /\ fdc'.status = fdc.status \ {"busy"}
  BY <1>1, <1>2 DEF FdcFields
<1>4. QED
  BY <1>1, <1>2, <1>3, RegistersStay

LEMMA BeginsFinds == ASSUME FoundInv, Begins PROVE AskInv' /\ SearchInv' /\ SeekInv'
<1>1. DOMAIN fdc = FdcFields /\ fdc.type # 0 /\ fdc.stage = 0
  BY DEF FoundInv, Inv, Shapes, Begins
<1> DEFINE sync == IF fdc.type = 1 THEN fdc.sync ELSE FALSE
           status == {"busy"} \union IF fdc.type = 1 /\ fdc.spin THEN {"spinup"} ELSE {}
<1>2. prog' = prog /\ fdc' = [fdc EXCEPT !.stage = 2, !.sync = sync, !.status = status]
  BY DEF Begins, Chip
<1>3. /\ "lost" \notin status /\ "seek" \notin status
      /\ fdc.type = 2 => ~sync
  OBVIOUS
<1> HIDE DEF sync, status
<1>4. /\ fdc'.type = fdc.type /\ fdc'.command = fdc.command /\ fdc'.track = fdc.track
      /\ fdc'.sector = fdc.sector /\ fdc'.at = fdc.at /\ fdc'.side = fdc.side
      /\ fdc'.status = status /\ fdc'.sync = sync /\ fdc'.stage = 2 /\ fdc'.sub = fdc.sub
  BY <1>1, <1>2 DEF FdcFields
<1>5. ASSUME Asking, fdc'.type = 2 PROVE SearchInv'
  <2>1. NothingYet
    BY <1>1, <1>4, <1>5 DEF FoundInv, SearchInv
  <2>2. NothingYet' /\ ~fdc'.sync
    BY <1>3, <1>4, <1>5, <2>1 DEF NothingYet
  <2>3. QED
    BY <1>4, <2>2 DEF SearchInv
<1>6. QED
  BY <1>2, <1>3, <1>4, <1>5, RegistersStay

\* The search begins with no turn made, and no sync byte seen.
LEMMA SettledFinds == ASSUME FoundInv, Settled PROVE AskInv' /\ SearchInv' /\ SeekInv'
<1>1. /\ DOMAIN fdc = FdcFields /\ fdc.type \in {2, 3} /\ fdc.stage = 2
      /\ prog' = prog /\ AskInv /\ SearchInv
  BY DEF FoundInv, Inv, Shapes, Settled, Chip
<1>2. CASE ~Asking
  BY <1>1, <1>2, NothingAsked
<1>3. CASE Asking
  <2>1. fdc.type = 2 /\ fdc.command \in {READ_SECTOR, WRITE_SECTOR} /\ NothingYet /\ ~fdc.sync
    BY <1>1, <1>3 DEF AskInv, SearchInv
  <2>2. /\ fdc.command # READ_TRACK /\ fdc.command # WRITE_TRACK /\ fdc.command # READ_ADDRESS
    BY <2>1 DEF READ_SECTOR, WRITE_SECTOR, READ_TRACK, WRITE_TRACK, READ_ADDRESS
  <2>3. \/ fdc' = Completed([fdc EXCEPT !.status = @ \union {"protect"}])
        \/ fdc' = [[fdc EXCEPT !.stage = 3] EXCEPT !.turns = 0]
    BY <2>2 DEF Settled, Chip
  <2>4. CASE fdc' = Completed([fdc EXCEPT !.status = @ \union {"protect"}])
    <3>1. /\ fdc'.type = 0 /\ fdc'.command = fdc.command /\ fdc'.track = fdc.track
          /\ fdc'.sector = fdc.sector /\ fdc'.at = fdc.at /\ fdc'.side = fdc.side
          /\ fdc'.status = fdc.status \union {"protect"}
      BY <1>1, <2>4 DEF Completed, FdcFields
    <3>2. QED
      BY <1>1, <3>1, RegistersStay
  <2>5. CASE fdc' = [[fdc EXCEPT !.stage = 3] EXCEPT !.turns = 0]
    <3>1. /\ fdc'.type = 2 /\ fdc'.command = fdc.command /\ fdc'.track = fdc.track
          /\ fdc'.sector = fdc.sector /\ fdc'.at = fdc.at /\ fdc'.side = fdc.side
          /\ fdc'.status = fdc.status /\ fdc'.stage = 3 /\ fdc'.turns = 0
          /\ fdc'.sub = fdc.sub /\ fdc'.sync = fdc.sync
      BY <1>1, <2>1, <2>5 DEF FdcFields
    <3>2. fdc'.sub = "SEARCHING_FOR_NEXT_ID" /\ ~fdc'.sync
      BY <2>1, <3>1 DEF NothingYet
    <3>3. SearchInv'
      BY <3>1, <3>2 DEF SearchInv, HeaderPosition, SoonFound
    <3>4. QED
      BY <1>1, <2>1, <3>1, <3>3, RegistersStay
  <2>6. QED
    BY <2>3, <2>4, <2>5
<1>4. QED
  BY <1>2, <1>3

LEMMA OtherCommandsFind ==
  ASSUME FoundInv, Pulse \/ Moves \/ ReadsAddress \/ ReadsTrack
  PROVE  AskInv' /\ SearchInv' /\ SeekInv'
<1>1. prog' = prog
  BY DEF Pulse, Moves, ReadsAddress, ReadsTrack, Chip
<1>2. fdc.type = 1 \/ fdc.command \in {READ_ADDRESS, READ_TRACK}
  BY DEF Pulse, Moves, ReadsAddress, ReadsTrack, At
<1>3. ~Asking
  BY <1>2 DEF FoundInv, AskInv, READ_SECTOR, WRITE_SECTOR, READ_TRACK, READ_ADDRESS
<1>4. QED
  BY <1>1, <1>3, NothingAsked

\* Where the head goes, and the turns it has made.
LEMMA TurnsCounted ==
  ASSUME Shapes, HeadInv, NEW f, f = Turned
  PROVE  IF fdc.offset = TrackLength THEN f.offset = 0 /\ f.turns = fdc.turns + 1
         ELSE f.offset = fdc.offset + 1 /\ f.turns = fdc.turns
<1>1. DOMAIN fdc = FdcFields /\ fdc.offset \in 0 .. TrackLength /\ TrackLength \in Nat
  BY SectorsOfTrack DEF Shapes, HeadInv
<1>2. CASE fdc.offset = TrackLength
  <2>1. f = [fdc EXCEPT !.offset = 0, !.turns = @ + 1]
    BY <1>1, <1>2 DEF Turned
  <2>2. QED
    BY <1>1, <1>2, <2>1 DEF FdcFields
<1>3. CASE fdc.offset # TrackLength
  <2>1. f = [fdc EXCEPT !.offset = @ + 1]
    BY <1>1, <1>3 DEF Turned
  <2>2. QED
    BY <1>1, <1>3, <2>1 DEF FdcFields
<1>4. QED
  BY <1>2, <1>3

\* The search is given up only when the turns are too many.
LEMMA GivenUp ==
  ASSUME NEW f, DOMAIN f = FdcFields, f.sub \in HeaderStates, NEW g, g = Header(f)
  PROVE  /\ g.turns = f.turns /\ g.deleted = f.deleted
         /\ \/ g.status = f.status /\ g.type = f.type
            \/ /\ f.sub = "SEARCHING_FOR_NEXT_ID" /\ f.turns > Revolutions /\ g.type = 0
               /\ g.status = f.status \union {"seek"}
<1>1. CASE f.sub = "SEARCHING_FOR_NEXT_ID"
  <2>1. g = Searching(f)
    BY <1>1 DEF Header
  <2>2. CASE f.turns > Revolutions
    <3>1. g = Completed([f EXCEPT !.status = @ \union {"seek"}])
      BY <2>1, <2>2 DEF Searching
    <3>2. /\ g.turns = f.turns /\ g.type = 0 /\ g.status = f.status \union {"seek"}
          /\ g.deleted = f.deleted
      BY <3>1 DEF Completed, FdcFields
    <3>3. QED
      BY <1>1, <2>2, <3>2
  <2>3. CASE ~(f.turns > Revolutions)
    <3> DEFINE b == f.offset \in SyncCells
               sub == IF Found(f, ID) THEN "WAIT_FOR_TRACK" ELSE f.sub
    <3>1. g = [[f EXCEPT !.sync = b] EXCEPT !.sub = sub]
      BY <2>1, <2>3 DEF Searching, Synced, FdcFields
    <3> HIDE DEF b, sub
    <3>2. QED
      BY <3>1 DEF FdcFields
  <2>4. QED
    BY <2>2, <2>3
<1>2. CASE f.sub # "SEARCHING_FOR_NEXT_ID"
  <2>1. \E sub : g = [f EXCEPT !.sub = sub]
    BY <1>2 DEF Header, HeaderStates
  <2>2. QED
    BY <2>1 DEF FdcFields
<1>3. QED
  BY <1>1, <1>2

\* A cell of the search for a sector of this track: no turn is lost.
LEMMA ComesNearer ==
  ASSUME Shapes, HeadInv, Layout(disks), fdc.sub \in HeaderStates, fdc' = Header(Turned),
         fdc'.type # 0, HeaderPosition, SoonFound,
         fdc.track = fdc.at, fdc.sector \in Sectors, fdc'.sub \in HeaderStates
  PROVE  SoonFound'
<1> DEFINE f == Turned
           n == fdc.sector
<1>1. fdc.at \in Tracks /\ fdc.side \in Sides /\ image \in Images
  BY DEF HeadInv
<1>2. /\ DOMAIN f = FdcFields /\ f.track = fdc.track /\ f.sector = fdc.sector
      /\ f.at = fdc.at /\ f.side = fdc.side /\ f.sync = fdc.sync /\ f.sub = fdc.sub
  BY HeadGoesOn
<1>3. IF fdc.offset = TrackLength THEN f.offset = 0 /\ f.turns = fdc.turns + 1
      ELSE f.offset = fdc.offset + 1 /\ f.turns = fdc.turns
  BY TurnsCounted
<1>4. Under(f) = disks[image][fdc.at][fdc.side][f.offset]
  BY <1>2 DEF Under
<1> HIDE DEF f
<1>5. /\ fdc'.at = fdc.at /\ fdc'.offset = f.offset /\ fdc'.turns = f.turns
      /\ fdc'.track = fdc.track /\ fdc'.sector = n
      /\ fdc.sub = "SEARCHING_FOR_NEXT_ID" =>
           /\ fdc'.sync = (f.offset \in SyncCells)
           /\ fdc'.sub = IF Found(f, ID) THEN "WAIT_FOR_TRACK" ELSE fdc.sub
      /\ fdc.sub # "SEARCHING_FOR_NEXT_ID" => fdc'.sync = fdc.sync
      /\ fdc.sub = "WAIT_FOR_TRACK" =>
           fdc'.sub = IF Under(f) = fdc.track THEN "WAIT_FOR_SIDE" ELSE "SEARCHING_FOR_NEXT_ID"
      /\ fdc.sub = "WAIT_FOR_SIDE" => fdc'.sub = "WAIT_FOR_SECTOR"
      /\ fdc.sub = "WAIT_FOR_SECTOR" =>
           fdc'.sub = IF Under(f) = n THEN SEARCHING_FOR_NEXT_DATAID
                      ELSE "SEARCHING_FOR_NEXT_ID"
  BY <1>2, HeaderIs, GivenUp DEF f
<1>6. /\ SectorCells \in Nat /\ SectorCells > 4 /\ TrackLength \in Nat
      /\ \A s \in Sectors : /\ Start(s) \in Nat /\ Start(s) >= 1
                            /\ Start(s) + SectorCells <= TrackLength
      /\ fdc.offset \in 0 .. TrackLength
  BY SectorsOfTrack DEF HeadInv
<1>7. \A s \in Sectors : Start(s) <= Start(n) /\ s # n => Start(s) + SectorCells <= Start(n)
  <2> SUFFICES ASSUME NEW s \in Sectors, Start(s) <= Start(n), Start(n) < Start(s) + SectorCells
               PROVE  s = n
    BY <1>6
  <2> DEFINE k == Start(n) - Start(s)
  <2>1. k \in 0 .. SectorCells - 1 /\ 0 \in 0 .. SectorCells - 1 /\ Start(s) + k = Start(n) + 0
    BY <1>6
  <2> HIDE DEF n, k
  <2>2. QED
    BY <2>1, SectorsOfTrack DEF n
<1> HIDE DEF n
<1>8. n \in Sectors /\ n = fdc.sector
  BY DEF n
<1>9. CASE fdc.turns = 0
  <2>1. CASE fdc.offset # TrackLength
    BY <1>3, <1>5, <1>9, <2>1 DEF SoonFound
  <2>2. CASE fdc.offset = TrackLength
    <3>1. fdc.sub = "SEARCHING_FOR_NEXT_ID"
      BY <1>6, <2>2 DEF HeaderStates, HeaderPosition, AtHeader
    <3>2. fdc.offset \notin SyncCells
      <4>1. ASSUME fdc.offset \in SyncCells PROVE FALSE
        <5>1. PICK s \in Sectors : fdc.offset = Start(s) \/ fdc.offset = Start(s) + 6
          BY <4>1, SyncInTrack
        <5>2. QED
          BY <2>2, <5>1, SectorsOfTrack
      <4>2. QED
        BY <4>1
    <3>3. ~Found(f, ID)
      BY <1>2, <3>1, <3>2 DEF Found, HeaderPosition
    <3>4. fdc'.sub = "SEARCHING_FOR_NEXT_ID" /\ fdc'.offset = 0 /\ fdc'.turns = 1 /\ fdc'.sector = n
      BY <1>3, <1>5, <1>9, <2>2, <3>1, <3>3
    <3>5. QED
      BY <1>6, <1>8, <3>4 DEF SoonFound, BeforeHeader
  <2>3. QED
    BY <2>1, <2>2
<1>10. CASE fdc.turns = 1 /\ BeforeHeader
  <2>1. /\ fdc.sub = "SEARCHING_FOR_NEXT_ID" =>
             fdc.offset < Start(n) \/ (fdc.offset = Start(n) /\ fdc.sync)
        /\ fdc.sub = "WAIT_FOR_TRACK" => fdc.offset <= Start(n) + 1
        /\ fdc.sub = "WAIT_FOR_SIDE" => fdc.offset <= Start(n) + 2
        /\ fdc.sub = "WAIT_FOR_SECTOR" => fdc.offset <= Start(n) + 3
    BY <1>8, <1>10 DEF BeforeHeader
  <2>2. fdc.offset <= Start(n) + 3
    BY <1>6, <1>8, <2>1 DEF HeaderStates
  <2>3. f.offset = fdc.offset + 1 /\ f.turns = 1
    BY <1>3, <1>6, <1>8, <1>10, <2>2
  <2>4. SUFFICES /\ fdc'.sub = "SEARCHING_FOR_NEXT_ID" =>
                      f.offset < Start(n) \/ (f.offset = Start(n) /\ fdc'.sync)
                 /\ fdc'.sub = "WAIT_FOR_TRACK" => f.offset <= Start(n) + 1
                 /\ fdc'.sub = "WAIT_FOR_SIDE" => f.offset <= Start(n) + 2
                 /\ fdc'.sub = "WAIT_FOR_SECTOR" => f.offset <= Start(n) + 3
    BY <1>5, <2>3 DEF SoonFound, BeforeHeader
  <2>5. CASE fdc.sub = "SEARCHING_FOR_NEXT_ID"
    <3>1. /\ fdc'.sync = (f.offset \in SyncCells)
          /\ fdc'.sub = IF Found(f, ID) THEN "WAIT_FOR_TRACK" ELSE "SEARCHING_FOR_NEXT_ID"
      BY <1>5, <2>5
    <3>2. {0, 1} \subseteq 0 .. SectorCells - 1
      BY <1>6
    <3>3. (Start(n) + 0) \in SyncCells /\ Start(n) + 1 \notin SyncCells
      BY <1>8, <3>2, SyncPlaces
    <3>4. CASE fdc.offset < Start(n)
      <4>1. f.offset <= Start(n)
        BY <1>6, <1>8, <2>3, <3>4
      <4>2. ASSUME f.offset = Start(n) PROVE fdc'.sync
        <5>1. Start(n) + 0 = Start(n)
          BY <1>6, <1>8
        <5>2. f.offset \in SyncCells
          BY <3>3, <4>2, <5>1, Zenon
        <5>3. QED
          BY <3>1, <5>2, Zenon
      <4>3. f.offset < Start(n) \/ f.offset = Start(n)
        BY <1>6, <1>8, <2>3, <4>1
      <4>4. f.offset <= Start(n) + 1
        BY <1>6, <1>8, <2>3, <4>1
      <4>5. QED
        BY <3>1, <4>2, <4>3, <4>4
    <3>5. CASE fdc.offset = Start(n) /\ fdc.sync
      <4>1. f.offset = Start(n) + 1
        BY <2>3, <3>5
      <4>2. Under(f) = ID
        BY <1>1, <1>4, <1>8, <4>1 DEF Layout
      <4>3. Found(f, ID)
        BY <1>2, <3>3, <3>5, <4>1, <4>2 DEF Found
      <4>4. fdc'.sub = "WAIT_FOR_TRACK" /\ f.offset <= Start(n) + 1
        BY <1>6, <1>8, <3>1, <4>1, <4>3
      <4>5. QED
        BY <4>4
    <3>6. QED
      BY <2>1, <2>5, <3>4, <3>5
  <2>6. CASE fdc.sub = "WAIT_FOR_TRACK"
    <3>1. PICK s \in Sectors : fdc.offset = Start(s) + 1
      BY <2>6 DEF HeaderPosition, AtHeader
    <3>2. f.offset = Start(s) + 2 /\ f.offset <= Start(n) + 2
      BY <1>6, <1>8, <2>1, <2>3, <2>6, <3>1
    <3>3. Under(f) = fdc.track
      BY <1>1, <1>4, <3>2 DEF Layout
    <3>4. fdc'.sub = "WAIT_FOR_SIDE"
      BY <1>5, <2>6, <3>3
    <3>5. QED
      BY <3>2, <3>4
  <2>7. CASE fdc.sub = "WAIT_FOR_SIDE"
    <3>1. fdc'.sub = "WAIT_FOR_SECTOR" /\ f.offset <= Start(n) + 3
      BY <1>5, <1>6, <1>8, <2>1, <2>3, <2>7
    <3>2. QED
      BY <3>1
  <2>8. CASE fdc.sub = "WAIT_FOR_SECTOR"
    <3>1. PICK s \in Sectors : fdc.offset = Start(s) + 3
      BY <2>8 DEF HeaderPosition, AtHeader
    <3>2. f.offset = Start(s) + 4 /\ Start(s) <= Start(n)
      BY <1>6, <1>8, <2>1, <2>3, <2>8, <3>1
    <3>3. Under(f) = s
      BY <1>1, <1>4, <3>2 DEF Layout
    <3>4. s # n /\ fdc'.sub = "SEARCHING_FOR_NEXT_ID"
      BY <1>5, <2>8, <3>3 DEF HeaderStates, SEARCHING_FOR_NEXT_DATAID
    <3>5. f.offset < Start(n)
      BY <1>6, <1>7, <1>8, <3>2, <3>4
    <3>6. QED
      BY <3>4, <3>5
  <2>9. QED
    BY <2>5, <2>6, <2>7, <2>8 DEF HeaderStates
<1>11. QED
  BY <1>9, <1>10 DEF SoonFound

LEMMA SearchesHeaderFinds ==
  ASSUME FoundInv, SearchesHeader
  PROVE  AskInv' /\ SearchInv' /\ SeekInv'
<1> DEFINE f == Turned
<1>1. /\ Shapes /\ HeadInv /\ Layout(disks) /\ AskInv /\ SearchInv /\ DOMAIN fdc = FdcFields
      /\ fdc.stage = 3 /\ fdc.sub \in HeaderStates /\ prog' = prog /\ fdc' = Header(f)
  BY DEF FoundInv, Inv, Shapes, SearchesHeader, At, Chip
<1>2. CASE ~Asking
  BY <1>1, <1>2, NothingAsked
<1>3. CASE Asking
  <2>1. fdc.type \in {0, 2} /\ fdc.type \in {2, 3}
    BY <1>1, <1>3 DEF AskInv, SearchesHeader, At
  <2>2. fdc.type = 2 /\ HeaderPosition /\ (There => SoonFound)
    BY <1>1, <1>3, <2>1 DEF SearchInv
  <2>3. /\ DOMAIN f = FdcFields /\ f.type = fdc.type /\ f.stage = fdc.stage
        /\ f.command = fdc.command /\ f.status = fdc.status /\ f.track = fdc.track
        /\ f.sector = fdc.sector /\ f.at = fdc.at /\ f.side = fdc.side /\ f.sub = fdc.sub
    BY <1>1, HeadGoesOn
  <2>4. IF fdc.offset = TrackLength THEN f.offset = 0 /\ f.turns = fdc.turns + 1
        ELSE f.offset = fdc.offset + 1 /\ f.turns = fdc.turns
    BY <1>1, TurnsCounted
  <2> HIDE DEF f
  <2>5. /\ fdc'.type \in {0, 2} /\ fdc'.stage = 3 /\ fdc'.command = fdc.command
        /\ fdc'.at = fdc.at /\ fdc'.side = fdc.side /\ fdc'.track = fdc.track
        /\ fdc'.sector = fdc.sector
    BY <1>1, <2>2, <2>3, HeaderIs
  <2>6. There => fdc.track = fdc.at /\ fdc.sector \in Sectors /\ SoonFound
    BY <1>1, <1>3, <2>2 DEF There, AskInv
  <2>7. There => f.turns <= 1
    <3>1. ASSUME There, fdc.turns = 1, BeforeHeader PROVE f.turns = 1
      <4>1. fdc.offset <= Start(fdc.sector) + 3 /\ fdc.sector \in Sectors
        <5>1. fdc.sector \in Sectors
          BY <2>6, <3>1
        <5>2. Start(fdc.sector) \in Nat /\ fdc.offset \in Nat
          BY <1>1, <5>1, SectorsOfTrack DEF HeadInv
        <5>3. QED
          BY <1>1, <3>1, <5>1, <5>2 DEF BeforeHeader, HeaderStates
      <4>2. fdc.offset # TrackLength
        BY <1>1, <4>1, SectorsOfTrack DEF HeadInv
      <4>3. QED
        BY <2>4, <3>1, <4>2
    <3>2. ASSUME There, fdc.turns = 0 PROVE f.turns <= 1
      BY <2>4, <3>2
    <3>3. QED
      BY <2>6, <3>1, <3>2 DEF SoonFound
  <2>8. There /\ "seek" \in fdc'.status => "seek" \in fdc.status
    <3>1. There => ~(f.turns > Revolutions)
      <4>1. Revolutions \in Nat \ {0}
        BY DiskAssumption
      <4>2. There => f.turns \in Int
        BY <2>4, <2>6 DEF SoonFound
      <4>3. QED
        BY <2>7, <4>1, <4>2
    <3>2. QED
      BY <1>1, <2>3, <3>1, GivenUp
  <2>9. ASSUME fdc'.type = 2 PROVE SearchInv'
    <3>1. HeaderPosition'
      BY <1>1, <2>2, <2>9, SearchesOn DEF f
    <3>2. There' /\ fdc'.sub \in HeaderStates => SoonFound'
      <4>1. There' <=> There
        BY <1>1 DEF There, Asked
      <4>2. There /\ fdc'.sub \in HeaderStates => SoonFound'
        BY <1>1, <2>2, <2>6, <2>9, ComesNearer DEF f
      <4>3. QED
        BY <4>1, <4>2
    <3>3. QED
      BY <2>5, <3>1, <3>2 DEF SearchInv
  <2>10. QED
    BY <1>1, <2>2, <2>5, <2>8, <2>9, RegistersStay
<1>4. QED
  BY <1>2, <1>3

\* What a cell of a read does to the controller.
LEMMA ReadsSectorIs ==
  ASSUME Inv, ReadsSector, NEW f, f = Turned
  PROVE  /\ fdc.type = 2 /\ fdc.stage = 3 /\ fdc.command = READ_SECTOR
         /\ disks' = disks /\ image' = image /\ prog' = prog
         /\ fdc'.stage = 3 /\ fdc'.command = fdc.command /\ fdc'.track = fdc.track
         /\ fdc'.sector = fdc.sector /\ fdc'.at = fdc.at /\ fdc'.side = fdc.side
         /\ fdc'.offset = f.offset /\ fdc'.deleted = fdc.deleted
         /\ \/ /\ fdc.sub = SEARCHING_FOR_NEXT_DATAID /\ fdc'.type = 2
               /\ fdc'.status = fdc.status /\ fdc'.sync = (f.offset \in SyncCells)
               /\ IF Found(f, MARK) THEN fdc'.index = 0 /\ fdc'.sub = "READING_SECTOR"
                                    ELSE fdc'.sub = fdc.sub
            \/ /\ fdc.sub = "READING_SECTOR" /\ fdc'.sub = fdc.sub
               /\ fdc'.type = IF fdc.index + 1 = SectorLength THEN 0 ELSE 2
               /\ fdc'.status = fdc.status \union {"drq"}
                                  \union IF "drq" \in fdc.status THEN {"lost"} ELSE {}
               /\ fdc'.data = Under(f) /\ fdc'.index = fdc.index + 1
<1>1. /\ Shapes /\ HeadInv /\ fdc.stage = 3 /\ fdc.command = READ_SECTOR
      /\ fdc.type \in {2, 3} /\ disks' = disks /\ image' = image /\ prog' = prog
  BY DEF Inv, ReadsSector, At, Chip
<1>2. fdc.type = 2
  BY <1>1 DEF HeadInv, READ_SECTOR, READ_ADDRESS, READ_TRACK, WRITE_TRACK
<1>3. /\ DOMAIN f = FdcFields /\ f.type = 2 /\ f.stage = 3
      /\ f.command = fdc.command /\ f.status = fdc.status /\ f.track = fdc.track
      /\ f.sector = fdc.sector /\ f.at = fdc.at /\ f.side = fdc.side /\ f.sub = fdc.sub
      /\ f.index = fdc.index /\ f.deleted = fdc.deleted
  BY <1>1, <1>2, HeadGoesOn
<1> DEFINE h == SetDataRegister(f, Under(f))
           i == h.index + 1
           g == [h EXCEPT !.index = i]
           b == f.offset \in SyncCells
           s == [f EXCEPT !.sync = b]
           status == f.status \union {"drq"} \union IF "drq" \in f.status THEN {"lost"} ELSE {}
           byte == Under(f)
<1>4. /\ h = [[f EXCEPT !.status = status] EXCEPT !.data = byte]
      /\ Synced(f) = s
  BY <1>3 DEF SetDataRegister, Requested, Synced, FdcFields
<1>5. status = fdc.status \union {"drq"} \union IF "drq" \in fdc.status THEN {"lost"} ELSE {}
  BY <1>3
<1> HIDE DEF status, byte
<1>6. /\ DOMAIN h = FdcFields /\ h.type = 2 /\ h.stage = 3 /\ h.command = f.command
      /\ h.status = status /\ h.track = f.track /\ h.sector = f.sector /\ h.at = f.at
      /\ h.side = f.side /\ h.sub = f.sub /\ h.index = f.index /\ h.deleted = f.deleted
      /\ h.offset = f.offset /\ h.data = byte
  <2> HIDE DEF h
  <2>1. QED
    BY <1>3, <1>4 DEF FdcFields
<1>7. [SetDataRegister(f, Under(f)) EXCEPT !.index = @ + 1] = g
  BY <1>6 DEF FdcFields
<1>8. \/ /\ fdc.sub = SEARCHING_FOR_NEXT_DATAID
         /\ fdc' = IF Found(f, MARK)
                   THEN [Synced(f) EXCEPT !.index = 0, !.sub = "READING_SECTOR"]
                   ELSE Synced(f)
      \/ /\ fdc.sub = "READING_SECTOR"
         /\ fdc' = IF g.index = SectorLength THEN Completed(g) ELSE g
  <2> HIDE DEF g
  <2>1. QED
    BY <1>7 DEF ReadsSector, Chip
<1> HIDE DEF h, s
<1>9. /\ DOMAIN g = FdcFields /\ g.type = 2 /\ g.stage = 3 /\ g.command = fdc.command
      /\ g.status = status /\ g.track = fdc.track /\ g.sector = fdc.sector /\ g.at = fdc.at
      /\ g.side = fdc.side /\ g.sub = fdc.sub /\ g.index = fdc.index + 1
      /\ g.deleted = fdc.deleted /\ g.offset = f.offset /\ g.data = byte
  <2>1. i = fdc.index + 1
    BY <1>3, <1>6
  <2> HIDE DEF i
  <2>2. QED
    BY <1>3, <1>6, <2>1 DEF FdcFields
<1> HIDE DEF g, i, b
<1>10. /\ DOMAIN s = FdcFields /\ s.type = 2 /\ s.stage = 3 /\ s.command = fdc.command
       /\ s.status = fdc.status /\ s.track = fdc.track /\ s.sector = fdc.sector
       /\ s.at = fdc.at /\ s.side = fdc.side /\ s.sub = fdc.sub
       /\ s.deleted = fdc.deleted /\ s.offset = f.offset /\ s.sync = b
  BY <1>3 DEF s, FdcFields
<1>11. CASE fdc.sub = SEARCHING_FOR_NEXT_DATAID
  <2>1. fdc' = IF Found(f, MARK) THEN [s EXCEPT !.index = 0, !.sub = "READING_SECTOR"] ELSE s
    BY <1>4, <1>8, <1>11 DEF SEARCHING_FOR_NEXT_DATAID
  <2>2. CASE Found(f, MARK)
    <3>1. fdc' = [s EXCEPT !.index = 0, !.sub = "READING_SECTOR"]
      BY <2>1, <2>2
    <3>2. /\ fdc'.type = 2 /\ fdc'.stage = 3 /\ fdc'.command = fdc.command
          /\ fdc'.status = fdc.status /\ fdc'.track = fdc.track /\ fdc'.sector = fdc.sector
          /\ fdc'.at = fdc.at /\ fdc'.side = fdc.side /\ fdc'.sub = "READING_SECTOR"
          /\ fdc'.deleted = fdc.deleted /\ fdc'.offset = f.offset /\ fdc'.sync = b
          /\ fdc'.index = 0
      BY <1>10, <3>1 DEF FdcFields
    <3>3. QED
      BY <1>1, <1>2, <1>11, <2>2, <3>2 DEF b
  <2>3. CASE ~Found(f, MARK)
    <3>1. fdc' = s
      BY <2>1, <2>3
    <3>2. QED
      BY <1>1, <1>2, <1>10, <1>11, <2>3, <3>1 DEF b
  <2>4. QED
    BY <2>2, <2>3
<1>12. CASE fdc.sub # SEARCHING_FOR_NEXT_DATAID
  <2>1. fdc.sub = "READING_SECTOR" /\ fdc' = IF g.index = SectorLength THEN Completed(g) ELSE g
    BY <1>8, <1>12
  <2>2. /\ fdc'.type = IF fdc.index + 1 = SectorLength THEN 0 ELSE 2
        /\ fdc'.stage = 3 /\ fdc'.command = fdc.command
        /\ fdc'.status = status /\ fdc'.track = fdc.track /\ fdc'.sector = fdc.sector
        /\ fdc'.at = fdc.at /\ fdc'.side = fdc.side /\ fdc'.sub = fdc.sub
        /\ fdc'.index = fdc.index + 1
        /\ fdc'.deleted = fdc.deleted /\ fdc'.offset = f.offset /\ fdc'.data = byte
    <3>1. CASE g.index = SectorLength
      <4>1. fdc' = Completed(g)
        BY <2>1, <3>1
      <4>2. QED
        BY <1>9, <3>1, <4>1 DEF Completed, FdcFields
    <3>2. CASE g.index # SectorLength
      <4>1. fdc' = g
        BY <2>1, <3>2
      <4>2. QED
        BY <1>9, <3>2, <4>1
    <3>3. QED
      BY <3>1, <3>2
  <2>3. QED
    BY <1>1, <1>2, <1>5, <2>1, <2>2 DEF byte
<1>13. QED
  BY <1>11, <1>12

LEMMA ReadsSectorFinds == ASSUME FoundInv, ReadsSector PROVE AskInv' /\ SearchInv' /\ SeekInv'
<1>1. /\ fdc.type = 2 /\ prog' = prog
      /\ fdc'.type \in {0, fdc.type} /\ fdc'.stage = 3 /\ fdc'.command = fdc.command
      /\ fdc'.track = fdc.track /\ fdc'.sector = fdc.sector /\ fdc'.at = fdc.at
      /\ fdc'.side = fdc.side
      /\ fdc'.sub \in {SEARCHING_FOR_NEXT_DATAID, "READING_SECTOR"}
      /\ "seek" \in fdc'.status => "seek" \in fdc.status
  BY ReadsSectorIs DEF FoundInv
<1>2. SearchInv'
  BY <1>1 DEF SearchInv, HeaderStates, SEARCHING_FOR_NEXT_DATAID
<1>3. QED
  BY <1>1, <1>2, RegistersStay

LEMMA WritesSectorFinds ==
  ASSUME FoundInv, WritesSector
  PROVE  AskInv' /\ SearchInv' /\ SeekInv'
<1> DEFINE f == Turned
           r == Requested(f)
           status == f.status \union {"drq"} \union IF "drq" \in f.status THEN {"lost"} ELSE {}
           mark == IF f.deleted THEN DELETED ELSE MARK
           crc  == CRC(IF f.index = 0 THEN CRC(63, f.mark) ELSE f.crc, f.data)
           i == r.index + 1
           sub == IF f.index + 1 = SectorLength THEN "WAIT_FOR_CRC1" ELSE r.sub
           b == f.offset \in SyncCells
           c == r.offset \in SyncCells
<1>1. /\ Shapes /\ HeadInv /\ fdc.stage = 3 /\ fdc.command = WRITE_SECTOR
      /\ fdc.type \in {2, 3} /\ prog' = prog
  BY DEF FoundInv, Inv, WritesSector, At, Chip
<1>2. fdc.type = 2
  BY <1>1 DEF HeadInv, WRITE_SECTOR, READ_ADDRESS, READ_TRACK, WRITE_TRACK
<1>3. /\ DOMAIN f = FdcFields /\ f.type = 2 /\ f.stage = 3
      /\ f.command = fdc.command /\ f.status = fdc.status /\ f.track = fdc.track
      /\ f.sector = fdc.sector /\ f.at = fdc.at /\ f.side = fdc.side /\ f.sub = fdc.sub
  BY <1>1, <1>2, HeadGoesOn
<1>4. r = [f EXCEPT !.status = status] /\ ("seek" \in status => "seek" \in fdc.status)
  BY <1>3 DEF Requested, FdcFields
<1> HIDE DEF status
<1>5. /\ DOMAIN r = FdcFields /\ r.type = 2 /\ r.stage = 3
      /\ r.command = fdc.command /\ r.status = status /\ r.track = fdc.track
      /\ r.sector = fdc.sector /\ r.at = fdc.at /\ r.side = fdc.side /\ r.sub = fdc.sub
  <2> HIDE DEF r
  <2>1. QED
    BY <1>3, <1>4 DEF FdcFields
<1>6. \/ /\ fdc.sub = SEARCHING_FOR_NEXT_DATAID
         /\ \/ fdc' = [[r EXCEPT !.sync = c] EXCEPT !.mark = mark, !.index = 0,
                                                    !.sub = "WRITING_SECTOR"]
            \/ fdc' = [f EXCEPT !.sync = b]
      \/ /\ fdc.sub = "WRITING_SECTOR"
         /\ fdc' = [r EXCEPT !.crc = crc, !.index = i, !.sub = sub]
      \/ fdc' = [f EXCEPT !.sub = "WAIT_FOR_CRC2"]
      \/ fdc' = Completed(f)
  <2>1. [Requested(f) EXCEPT !.crc = crc, !.index = @ + 1,
                       !.sub = IF f.index + 1 = SectorLength THEN "WAIT_FOR_CRC1" ELSE @]
          = [r EXCEPT !.crc = crc, !.index = i, !.sub = sub]
    BY <1>5 DEF FdcFields
  <2>2. Synced(f) = [f EXCEPT !.sync = b] /\ Synced(Requested(f)) = [r EXCEPT !.sync = c]
    BY DEF Synced
  <2>3. \/ /\ fdc.sub = SEARCHING_FOR_NEXT_DATAID
           /\ \/ fdc' = [Synced(Requested(f)) EXCEPT !.mark = mark, !.index = 0,
                                                     !.sub = "WRITING_SECTOR"]
              \/ fdc' = Synced(f)
        \/ /\ fdc.sub = "WRITING_SECTOR"
           /\ fdc' = [Requested(f) EXCEPT !.crc = crc, !.index = @ + 1,
                       !.sub = IF f.index + 1 = SectorLength THEN "WAIT_FOR_CRC1" ELSE @]
        \/ fdc' = [f EXCEPT !.sub = "WAIT_FOR_CRC2"]
        \/ fdc' = Completed(f)
    BY DEF WritesSector, Chip
  <2> HIDE DEF f, r, crc, mark, i, sub, b, c
  <2>4. QED
    BY <2>1, <2>2, <2>3 DEF r
<1>7. sub \in {"WAIT_FOR_CRC1", fdc.sub}
  BY <1>5
<1> HIDE DEF f, r, mark, crc, i, sub, b, c
<1>8. /\ fdc'.type \in {0, 2} /\ fdc'.stage = 3 /\ fdc'.command = fdc.command
      /\ fdc'.track = fdc.track /\ fdc'.sector = fdc.sector /\ fdc'.at = fdc.at
      /\ fdc'.side = fdc.side /\ fdc'.status \in {fdc.status, status}
      /\ fdc'.type = 2 => fdc'.sub \in {SEARCHING_FOR_NEXT_DATAID, "WRITING_SECTOR",
                                        "WAIT_FOR_CRC1", "WAIT_FOR_CRC2"}
  <2>1. CASE /\ fdc.sub = SEARCHING_FOR_NEXT_DATAID
             /\ fdc' = [[r EXCEPT !.sync = c] EXCEPT !.mark = mark, !.index = 0,
                                                     !.sub = "WRITING_SECTOR"]
    BY <1>5, <2>1 DEF FdcFields
  <2>2. CASE fdc.sub = SEARCHING_FOR_NEXT_DATAID /\ fdc' = [f EXCEPT !.sync = b]
    BY <1>3, <2>2 DEF FdcFields
  <2>3. CASE /\ fdc.sub = "WRITING_SECTOR"
             /\ fdc' = [r EXCEPT !.crc = crc, !.index = i, !.sub = sub]
    BY <1>5, <1>7, <2>3 DEF FdcFields
  <2>4. CASE fdc' = [f EXCEPT !.sub = "WAIT_FOR_CRC2"]
    BY <1>3, <2>4 DEF FdcFields
  <2>5. CASE fdc' = Completed(f)
    BY <1>3, <2>5 DEF Completed, FdcFields
  <2>6. QED
    BY <1>6, <2>1, <2>2, <2>3, <2>4, <2>5
<1>9. fdc'.type = 2 => SearchInv'
  BY <1>8 DEF SearchInv, HeaderStates, SEARCHING_FOR_NEXT_DATAID
<1>10. QED
  BY <1>1, <1>2, <1>4, <1>8, <1>9, RegistersStay

\* The program's steps.
LEMMA PollFinds == ASSUME FoundInv, Poll PROVE AskInv' /\ SearchInv' /\ SeekInv'
<1> DEFINE far == fdc.command >= READ_SECTOR
           at == IF prog.at = "rising" THEN IF "busy" \in fdc.status THEN "running" ELSE prog.at
                 ELSE IF "busy" \notin fdc.status THEN "free"
                 ELSE IF "drq" \in fdc.status /\ far THEN "moving"
                 ELSE prog.at
<1>1. fdc' = fdc /\ prog.at # "free" /\ DOMAIN prog = ProgFields
  BY DEF Poll, FoundInv, Inv, Shapes
<1>2. prog' = [prog EXCEPT !.seen = fdc.status, !.at = at]
  BY <1>1 DEF Poll, ProgFields
<1> HIDE DEF at
<1>3. prog'.op = prog.op /\ prog'.where = prog.where /\ prog'.seen = fdc.status
  BY <1>1, <1>2 DEF ProgFields
<1>4. (Asking' => Asking) /\ (There' <=> There) /\ Asked' = Asked
  BY <1>1, <1>3 DEF Asking, There, Asked
<1>5. AskInv'
  BY <1>1, <1>3, <1>4 DEF FoundInv, AskInv
<1>6. SearchInv'
  BY <1>1, <1>3, <1>4 DEF FoundInv, SearchInv, NothingYet, HeaderPosition, AtHeader, SoonFound,
                          BeforeHeader
<1>7. SeekInv'
  BY <1>1, <1>3, <1>4 DEF FoundInv, SeekInv
<1>8. QED
  BY <1>5, <1>6, <1>7

LEMMA MovingFinds ==
  ASSUME FoundInv, prog.at = "moving", prog'.at = "running", prog'.op = prog.op,
         prog'.where = prog.where, prog'.seen = prog.seen,
         fdc'.status = fdc.status \ {"drq"},
         \A field \in FdcFields \ {"status", "data"} : fdc'[field] = fdc[field]
  PROVE  AskInv' /\ SearchInv' /\ SeekInv'
<1>1. /\ fdc'.type = fdc.type /\ fdc'.stage = fdc.stage /\ fdc'.command = fdc.command
      /\ fdc'.track = fdc.track /\ fdc'.sector = fdc.sector /\ fdc'.at = fdc.at
      /\ fdc'.side = fdc.side /\ fdc'.offset = fdc.offset /\ fdc'.turns = fdc.turns
      /\ fdc'.sync = fdc.sync /\ fdc'.sub = fdc.sub
  BY DEF FdcFields
<1>2. (Asking' <=> Asking) /\ (There' <=> There) /\ Asked' = Asked
  BY DEF Asking, There, Asked
<1>3. AskInv'
  BY <1>1, <1>2 DEF FoundInv, AskInv
<1>4. SearchInv'
  BY <1>1, <1>2 DEF FoundInv, SearchInv, NothingYet, HeaderPosition, AtHeader, SoonFound,
                    BeforeHeader
<1>5. SeekInv'
  BY <1>2 DEF FoundInv, SeekInv
<1>6. QED
  BY <1>3, <1>4, <1>5

LEMMA ReadDataFinds == ASSUME FoundInv, ReadData PROVE AskInv' /\ SearchInv' /\ SeekInv'
<1>1. DOMAIN fdc = FdcFields /\ DOMAIN prog = ProgFields
  BY DEF FoundInv, Inv, Shapes
<1> DEFINE status == fdc.status \ {"drq"}
           moved == IF prog.op = "read" THEN Append(prog.moved, fdc.data) ELSE prog.moved
<1>2. /\ prog.at = "moving" /\ fdc' = [fdc EXCEPT !.status = status]
      /\ prog' = [prog EXCEPT !.at = "running", !.moved = moved]
  BY <1>1 DEF ReadData, ProgFields
<1> HIDE DEF moved
<1>3. /\ prog'.at = "running" /\ prog'.op = prog.op
      /\ prog'.where = prog.where /\ prog'.seen = prog.seen
  BY <1>1, <1>2 DEF ProgFields
<1>4. /\ fdc'.status = status
      /\ \A field \in FdcFields \ {"status", "data"} : fdc'[field] = fdc[field]
  BY <1>1, <1>2 DEF FdcFields
<1>5. QED
  BY <1>2, <1>3, <1>4, MovingFinds

LEMMA WriteDataFinds ==
  ASSUME FoundInv, NEW b \in Given, WriteData(b)
  PROVE  AskInv' /\ SearchInv' /\ SeekInv'
<1>1. DOMAIN fdc = FdcFields /\ DOMAIN prog = ProgFields
  BY DEF FoundInv, Inv, Shapes
<1> DEFINE status == fdc.status \ {"drq"}
           moved == Append(prog.moved, b)
<1>2. /\ prog.at = "moving" /\ fdc' = [fdc EXCEPT !.data = b, !.status = status]
      /\ prog' = [prog EXCEPT !.at = "running", !.moved = moved]
  BY <1>1 DEF WriteData, ProgFields
<1> HIDE DEF moved
<1>3. /\ prog'.at = "running" /\ prog'.op = prog.op
      /\ prog'.where = prog.where /\ prog'.seen = prog.seen
  BY <1>1, <1>2 DEF ProgFields
<1>4. /\ fdc'.status = status
      /\ \A field \in FdcFields \ {"status", "data"} : fdc'[field] = fdc[field]
  BY <1>1, <1>2 DEF FdcFields
<1>5. QED
  BY <1>2, <1>3, <1>4, MovingFinds

LEMMA SetRegistersFinds ==
  ASSUME FoundInv, SetRegisters
  PROVE  AskInv' /\ SearchInv' /\ SeekInv'
<1>1. prog.at = "free" /\ prog' = prog
  BY DEF SetRegisters, Register
<1>2. ~Asking
  BY <1>1 DEF Asking
<1>3. QED
  BY <1>1, <1>2, NothingAsked

LEMMA InsertFinds ==
  ASSUME FoundInv, NEW i \in Images, Insert(i)
  PROVE  AskInv' /\ SearchInv' /\ SeekInv'
<1> DEFINE left == prog.left - 1
<1>1. DOMAIN prog = ProgFields
  BY DEF FoundInv, Inv, Shapes
<1>2. prog' = [prog EXCEPT !.op = "none", !.left = left]
  BY <1>1 DEF Insert, ProgFields
<1> HIDE DEF left
<1>3. prog'.op = "none"
  BY <1>1, <1>2 DEF ProgFields
<1>4. QED
  BY <1>3 DEF AskInv, SearchInv, SeekInv, Asking

\* A command is taken with the registers as they are.
LEMMA CommandIs ==
  ASSUME Inv, NEW c \in Commands, Command(c), prog'.op \in {"read", "write"}
  PROVE  /\ prog.at = "free" /\ prog'.at = "rising" /\ prog'.seen = {} /\ prog'.moved = <<>>
         /\ prog'.where = [track |-> fdc.track, side |-> fdc.side, sector |-> fdc.sector,
                           at |-> fdc.at]
         /\ fdc'.command = IF prog'.op = "read" THEN READ_SECTOR ELSE WRITE_SECTOR
         /\ fdc'.type = 2 /\ fdc'.stage = 0 /\ fdc'.sub = "SEARCHING_FOR_NEXT_ID"
         /\ fdc'.status = IF prog'.op = "read" THEN {} ELSE {"drq"}
         /\ fdc'.track = fdc.track /\ fdc'.sector = fdc.sector /\ fdc'.at = fdc.at
         /\ fdc'.side = fdc.side
<1> USE DEF READ_SECTOR, WRITE_SECTOR
<1>1. /\ DOMAIN fdc = FdcFields /\ ProgramInv
      /\ prog.at = "free" \/ c.number = FORCE_INTERRUPT
  BY DEF Inv, Shapes, Command
<1>2. /\ prog'.at = IF c.number = FORCE_INTERRUPT THEN "free" ELSE "rising"
      /\ prog'.seen = {} /\ prog'.moved = <<>>
      /\ prog'.where = [track |-> fdc.track, side |-> fdc.side, sector |-> fdc.sector,
                        at |-> fdc.at]
      /\ prog'.op = CASE c.number = READ_SECTOR -> "read"
                      [] c.number = WRITE_SECTOR -> "write"
                      [] OTHER -> "other"
  BY DEF Command
<1>3. /\ c.number \in {READ_SECTOR, WRITE_SECTOR}
      /\ prog'.op = IF c.number = READ_SECTOR THEN "read" ELSE "write"
  BY <1>2
<1>4. c.number # FORCE_INTERRUPT /\ prog.at = "free" /\ "busy" \notin fdc.status
  BY <1>1, <1>3 DEF FORCE_INTERRUPT, ProgramInv
<1> DEFINE f == [fdc EXCEPT !.command = c.number, !.deleted = c.deleted, !.spin = c.spin]
           status == IF c.number = WRITE_SECTOR THEN {"drq"} ELSE {}
           type == TypeOf(c.number)
<1>5. DOMAIN f = FdcFields
  BY <1>1 DEF FdcFields
<1>6. type = 2
  BY <1>3 DEF TypeOf, READ_ADDRESS, READ_TRACK, WRITE_TRACK
<1>7. \E dir : fdc' = [f EXCEPT !.stage = 0, !.type = type, !.status = status,
                                !.sub = "SEARCHING_FOR_NEXT_ID", !.dir = dir]
  <2> DEFINE sub == IF c.number \in {READ_SECTOR, WRITE_SECTOR, READ_ADDRESS}
                    THEN "SEARCHING_FOR_NEXT_ID" ELSE f.sub
             dir == IF c.number \in {STEP_IN, STEP_IN + 1} THEN 1
                    ELSE IF c.number \in {STEP_OUT, STEP_OUT + 1} THEN -1 ELSE f.dir
  <2>1. fdc' = [f EXCEPT !.stage = 0, !.type = TypeOf(c.number),
                     !.status = IF c.number = WRITE_SECTOR THEN {"drq"} ELSE {},
                     !.sub = IF c.number \in {READ_SECTOR, WRITE_SECTOR, READ_ADDRESS}
                             THEN "SEARCHING_FOR_NEXT_ID" ELSE @,
                     !.dir = IF c.number \in {STEP_IN, STEP_IN + 1} THEN 1
                             ELSE IF c.number \in {STEP_OUT, STEP_OUT + 1} THEN -1 ELSE @]
    BY <1>4 DEF Command, WriteCommand
  <2>2. sub = "SEARCHING_FOR_NEXT_ID"
    BY <1>3
  <2> HIDE DEF f
  <2>3. fdc' = [f EXCEPT !.stage = 0, !.type = type, !.status = status, !.sub = sub, !.dir = dir]
    BY <1>5, <2>1 DEF FdcFields
  <2> HIDE DEF sub, dir, status, type
  <2>4. QED
    BY <2>2, <2>3
<1>8. /\ f.command = c.number /\ f.track = fdc.track /\ f.sector = fdc.sector
      /\ f.at = fdc.at /\ f.side = fdc.side
  BY <1>1 DEF FdcFields
<1> HIDE DEF f, status, type
<1>9. /\ fdc'.command = c.number /\ fdc'.type = 2 /\ fdc'.stage = 0 /\ fdc'.status = status
      /\ fdc'.sub = "SEARCHING_FOR_NEXT_ID" /\ fdc'.track = fdc.track
      /\ fdc'.sector = fdc.sector /\ fdc'.at = fdc.at /\ fdc'.side = fdc.side
  BY <1>5, <1>6, <1>7, <1>8 DEF FdcFields
<1>10. QED
  BY <1>2, <1>3, <1>4, <1>9 DEF status

LEMMA CommandFinds ==
  ASSUME FoundInv, NEW c \in Commands, Command(c)
  PROVE  AskInv' /\ SearchInv' /\ SeekInv'
<1>1. CASE prog'.op \notin {"read", "write"}
  BY <1>1 DEF AskInv, SearchInv, SeekInv, Asking
<1>2. CASE prog'.op \in {"read", "write"}
  <2>1. /\ prog'.seen = {}
        /\ prog'.where = [track |-> fdc.track, side |-> fdc.side, sector |-> fdc.sector,
                          at |-> fdc.at]
        /\ fdc'.command = IF prog'.op = "read" THEN READ_SECTOR ELSE WRITE_SECTOR
        /\ fdc'.type = 2 /\ fdc'.stage = 0 /\ fdc'.sub = "SEARCHING_FOR_NEXT_ID"
        /\ fdc'.status = IF prog'.op = "read" THEN {} ELSE {"drq"}
        /\ fdc'.track = fdc.track /\ fdc'.sector = fdc.sector /\ fdc'.at = fdc.at
        /\ fdc'.side = fdc.side
    BY <1>2, CommandIs DEF FoundInv
  <2>2. AskInv'
    BY <2>1 DEF AskInv, Asked
  <2>3. SearchInv' /\ SeekInv'
    BY <2>1 DEF SearchInv, SeekInv, NothingYet
  <2>4. QED
    BY <2>2, <2>3
<1>3. QED
  BY <1>1, <1>2

LEMMA InitFound == Init => FoundInv
<1> SUFFICES ASSUME Init PROVE FoundInv
  OBVIOUS
<1>1. Inv
  BY InitInv
<1>2. prog.at = "free" /\ prog.op = "none"
  BY DEF Init
<1>3. QED
  BY <1>1, <1>2 DEF FoundInv, AskInv, SearchInv, SeekInv, Asking

LEMMA NextFound == ASSUME FoundInv, [Next]_vars PROVE FoundInv'
<1> SUFFICES AskInv' /\ SearchInv' /\ SeekInv'
  BY NextInv DEF FoundInv
<1>1. CASE BusyGoes \/ Begins \/ Settled
  BY <1>1, BusyGoesFinds, BeginsFinds, SettledFinds
<1>2. CASE Pulse \/ Moves \/ ReadsAddress \/ ReadsTrack
  BY <1>2, OtherCommandsFind
<1>3. CASE SearchesHeader \/ ReadsSector \/ WritesSector
  BY <1>3, SearchesHeaderFinds, ReadsSectorFinds, WritesSectorFinds
<1>4. CASE Poll \/ ReadData \/ SetRegisters
  BY <1>4, PollFinds, ReadDataFinds, SetRegistersFinds
<1>5. CASE \E c \in Commands : Command(c)
  BY <1>5, CommandFinds
<1>6. CASE \E b \in Given : WriteData(b)
  BY <1>6, WriteDataFinds
<1>7. CASE \E i \in Images : Insert(i)
  BY <1>7, InsertFinds
<1>8. CASE UNCHANGED vars
  <2>1. fdc' = fdc /\ prog' = prog
    BY <1>8 DEF vars
  <2>2. QED
    BY <2>1 DEF FoundInv, AskInv, SearchInv, SeekInv, Asking, There, Asked, NothingYet,
                HeaderPosition, AtHeader, SoonFound, BeforeHeader
<1>9. QED
  BY <1>1, <1>2, <1>3, <1>4, <1>5, <1>6, <1>7, <1>8 DEF Next, Execute

\* A sector that is on the track the head is over is found before the turns of
\* the disk are counted out, wherever the head was when the command came and
\* whatever passed under it: one turn brings the head before the sector's header
\* and no header in between is mistaken for it (wd177x.h CheckForSeekError).
THEOREM FindsTheSector == Spec => []FoundIfThere
<1>1. FoundInv => FoundIfThere
  BY DEF FoundInv, SeekInv, FoundIfThere, Ended, There
<1>2. FoundInv /\ [Next]_vars => FoundInv'
  BY NextFound
<1>3. QED
  BY <1>1, <1>2, InitFound, PTL DEF Spec

-----------------------------------------------------------------------------
(* What is read is what is there *)

\* No command writes the mark of a deleted sector, which a read does not know.
Normal == \A c \in Commands : ~c.deleted

Marked(d) ==
  \A i \in Images, t \in Tracks, side \in Sides, s \in Sectors :
    d[i][t][side][Start(s) + 7] = MARK
MarkInv == ~fdc.deleted /\ Marked(disks)

\* The bytes of the sector under the head; those the program has taken, all that
\* were read but the one that still waits.
DataByte(k) == disks[image][fdc.at][fdc.side][Start(fdc.sector) + 7 + k]
Taken ==
  IF "drq" \in fdc.status
  THEN /\ fdc.index >= 1 /\ fdc.data = DataByte(fdc.index)
       /\ prog.moved = [k \in 1 .. fdc.index - 1 |-> DataByte(k)]
  ELSE prog.moved = [k \in 1 .. fdc.index |-> DataByte(k)]

NotFoundYet ==
  /\ fdc.type = 2 /\ fdc.sub \in HeaderStates \union {SEARCHING_FOR_NEXT_DATAID}
  /\ "drq" \notin fdc.status /\ prog.moved = <<>>
  /\ fdc.sub = SEARCHING_FOR_NEXT_DATAID =>
       /\ fdc.stage = 3
       /\ \/ ~fdc.sync /\ (OfSector(4) \/ OfSector(5))
          \/ fdc.sync /\ OfSector(6)
UnderWay ==
  /\ fdc.type = 2 /\ fdc.stage = 3 /\ fdc.sub = "READING_SECTOR"
  /\ fdc.index \in 0 .. SectorLength - 1 /\ OfSector(7 + fdc.index) /\ Taken
AllRead ==
  /\ fdc.type = 0 /\ fdc.index = SectorLength
  /\ fdc.track = fdc.at /\ fdc.sector \in Sectors /\ Taken

ReadInv ==
  prog.op = "read" /\ prog.at # "free" =>
    /\ prog.at = "moving" => "drq" \in fdc.status
    /\ \/ "lost" \in fdc.status \/ "seek" \in fdc.status
       \/ NotFoundYet \/ UnderWay \/ AllRead

\* The bit of a command for the mark changes with the command only.
LEMMA MarkBitStays ==
  ASSUME Inv, Execute \/ Poll \/ ReadData \/ SetRegisters \/ (\E b \in Given : WriteData(b))
               \/ (\E i \in Images : Insert(i))
  PROVE  fdc'.deleted = fdc.deleted
<1>1. Shapes /\ HeadInv /\ DOMAIN fdc = FdcFields
  BY DEF Inv, Shapes
<1>2. CASE BusyGoes \/ Begins \/ Pulse
  <2>1. CASE BusyGoes
    BY <1>1, <2>1 DEF BusyGoes, Chip, FdcFields
  <2>2. CASE Begins
    <3> DEFINE sync == IF fdc.type = 1 THEN fdc.sync ELSE FALSE
               status == {"busy"} \union IF fdc.type = 1 /\ fdc.spin THEN {"spinup"} ELSE {}
    <3>1. fdc' = [fdc EXCEPT !.stage = 2, !.sync = sync, !.status = status]
      BY <2>2 DEF Begins, Chip
    <3> HIDE DEF sync, status
    <3>2. QED
      BY <1>1, <3>1 DEF FdcFields
  <2>3. CASE Pulse
    BY <1>1, <2>3 DEF Pulse, Chip, FdcFields
  <2>4. QED
    BY <1>2, <2>1, <2>2, <2>3
<1>3. CASE Settled
  <2>1. \/ fdc' = Completed([fdc EXCEPT !.status = @ \union {"protect"}])
        \/ fdc' = [[fdc EXCEPT !.stage = 3] EXCEPT !.index = 0, !.offset = 0]
        \/ fdc' = Completed([fdc EXCEPT !.stage = 3])
        \/ fdc' = [[fdc EXCEPT !.stage = 3] EXCEPT !.sub = "SEARCHING_FOR_NEXT_ID"]
        \/ fdc' = [[fdc EXCEPT !.stage = 3] EXCEPT !.turns = 0]
    BY <1>3 DEF Settled, Chip
  <2>2. QED
    BY <1>1, <2>1 DEF Completed, FdcFields
<1>4. CASE Moves
  <2>1. \E at, track : fdc' = Completed([fdc EXCEPT !.at = at, !.track = track])
    BY <1>1, <1>4 DEF Moves, Chip, FdcFields
  <2>2. QED
    BY <1>1, <2>1 DEF Completed, FdcFields
<1>5. CASE SearchesHeader
  <2> DEFINE f == Turned
  <2>1. fdc' = Header(f) /\ fdc.sub \in HeaderStates
    BY <1>5 DEF SearchesHeader, Chip
  <2>2. DOMAIN f = FdcFields /\ f.sub = fdc.sub /\ f.deleted = fdc.deleted
    BY <1>1, HeadGoesOn
  <2> HIDE DEF f
  <2>3. QED
    BY <2>1, <2>2, GivenUp
<1>6. CASE ReadsSector
  BY <1>6, ReadsSectorIs
<1>7. CASE WritesSector
  <2> DEFINE f == Turned
             r == Requested(f)
             status == f.status \union {"drq"} \union IF "drq" \in f.status THEN {"lost"} ELSE {}
  <2>1. DOMAIN f = FdcFields /\ f.deleted = fdc.deleted
    BY <1>1, HeadGoesOn
  <2>2. r = [f EXCEPT !.status = status]
    BY <2>1 DEF Requested, FdcFields
  <2> HIDE DEF status
  <2>3. DOMAIN r = FdcFields /\ r.deleted = fdc.deleted
    <3> HIDE DEF r
    <3>1. QED
      BY <2>1, <2>2 DEF FdcFields
  <2> DEFINE mark == IF f.deleted THEN DELETED ELSE MARK
             crc == CRC(IF f.index = 0 THEN CRC(63, f.mark) ELSE f.crc, f.data)
             i == r.index + 1
             sub == IF f.index + 1 = SectorLength THEN "WAIT_FOR_CRC1" ELSE r.sub
             b == f.offset \in SyncCells
             c == r.offset \in SyncCells
  <2>4. \/ fdc' = [[r EXCEPT !.sync = c] EXCEPT !.mark = mark, !.index = 0,
                                                !.sub = "WRITING_SECTOR"]
        \/ fdc' = [f EXCEPT !.sync = b]
        \/ fdc' = [r EXCEPT !.crc = crc, !.index = i, !.sub = sub]
        \/ fdc' = [f EXCEPT !.sub = "WAIT_FOR_CRC2"]
        \/ fdc' = Completed(f)
    <3>1. [Requested(f) EXCEPT !.crc = crc, !.index = @ + 1,
                       !.sub = IF f.index + 1 = SectorLength THEN "WAIT_FOR_CRC1" ELSE @]
            = [r EXCEPT !.crc = crc, !.index = i, !.sub = sub]
      BY <2>3 DEF FdcFields
    <3>2. \/ fdc' = [Synced(Requested(f)) EXCEPT !.mark = mark, !.index = 0,
                                                 !.sub = "WRITING_SECTOR"]
          \/ fdc' = Synced(f)
          \/ fdc' = [Requested(f) EXCEPT !.crc = crc, !.index = @ + 1,
                       !.sub = IF f.index + 1 = SectorLength THEN "WAIT_FOR_CRC1" ELSE @]
          \/ fdc' = [f EXCEPT !.sub = "WAIT_FOR_CRC2"]
          \/ fdc' = Completed(f)
      BY <1>7 DEF WritesSector, Chip
    <3>3. Synced(f) = [f EXCEPT !.sync = b] /\ Synced(Requested(f)) = [r EXCEPT !.sync = c]
      BY DEF Synced
    <3> HIDE DEF f, r, crc, mark, i, sub, b, c
    <3>4. QED
      BY <3>1, <3>2, <3>3 DEF r
  <2> HIDE DEF mark, crc, i, sub, b, c
  <2> HIDE DEF f, r
  <2>5. QED
    BY <2>1, <2>3, <2>4 DEF Completed, FdcFields
<1>8. CASE ReadsAddress \/ ReadsTrack
  BY <1>1, <1>8, ReadsAddressNear, ReadsTrackNear, HeadGoesOn DEF Near
<1>9. CASE Poll
  BY <1>9 DEF Poll
<1>10. CASE ReadData \/ \E b \in Given : WriteData(b)
  <2>1. \E b, status : fdc' \in {[fdc EXCEPT !.status = status],
                                 [fdc EXCEPT !.data = b, !.status = status]}
    BY <1>1, <1>10 DEF ReadData, WriteData, FdcFields
  <2>2. QED
    BY <1>1, <2>1 DEF FdcFields
<1>11. CASE SetRegisters
  <2>1. \E t, s, side, status : fdc' \in {[fdc EXCEPT !.track = t], [fdc EXCEPT !.sector = s],
          [fdc EXCEPT !.side = side], [fdc EXCEPT !.data = t, !.status = status]}
    BY <1>1, <1>11 DEF SetRegisters, Register, FdcFields
  <2>2. QED
    BY <1>1, <2>1 DEF FdcFields
<1>12. CASE \E i \in Images : Insert(i)
  <2>1. \E protected : fdc' = [fdc EXCEPT !.protected = protected]
    BY <1>1, <1>12 DEF Insert
  <2>2. QED
    BY <1>1, <2>1 DEF FdcFields
<1>13. QED
  BY <1>2, <1>3, <1>4, <1>5, <1>6, <1>7, <1>8, <1>9, <1>10, <1>11, <1>12 DEF Execute

LEMMA MarksStay ==
  ASSUME Normal, Inv, MarkInv, [Next]_vars
  PROVE  MarkInv'
<1>1. ~fdc'.deleted
  <2>1. CASE \E c \in Commands : Command(c)
    <3>1. PICK c \in Commands : Command(c)
      BY <2>1
    <3>2. ~c.deleted /\ DOMAIN fdc = FdcFields
      BY DEF Normal, Inv, Shapes
    <3> DEFINE f == [fdc EXCEPT !.command = c.number, !.deleted = c.deleted, !.spin = c.spin]
               type == TypeOf(c.number)
    <3>3. DOMAIN f = FdcFields /\ f.deleted = c.deleted
      BY <3>2 DEF FdcFields
    <3> DEFINE status == IF c.number = WRITE_SECTOR THEN {"drq"} ELSE {}
               sub == IF c.number \in {READ_SECTOR, WRITE_SECTOR, READ_ADDRESS}
                      THEN "SEARCHING_FOR_NEXT_ID" ELSE f.sub
               dir == IF c.number \in {STEP_IN, STEP_IN + 1} THEN 1
                      ELSE IF c.number \in {STEP_OUT, STEP_OUT + 1} THEN -1 ELSE f.dir
               g == [f EXCEPT !.stage = 0, !.type = type, !.status = status, !.sub = sub,
                              !.dir = dir]
    <3>4. \/ fdc' = Completed([f EXCEPT !.stage = 0, !.status = {}])
          \/ fdc' = f
          \/ fdc' = g
      <4>1. \/ fdc' = Completed([f EXCEPT !.stage = 0, !.status = {}])
            \/ fdc' = f
            \/ fdc' = [f EXCEPT !.stage = 0, !.type = TypeOf(c.number),
                     !.status = IF c.number = WRITE_SECTOR THEN {"drq"} ELSE {},
                     !.sub = IF c.number \in {READ_SECTOR, WRITE_SECTOR, READ_ADDRESS}
                             THEN "SEARCHING_FOR_NEXT_ID" ELSE @,
                     !.dir = IF c.number \in {STEP_IN, STEP_IN + 1} THEN 1
                             ELSE IF c.number \in {STEP_OUT, STEP_OUT + 1} THEN -1 ELSE @]
        BY <3>1 DEF Command, WriteCommand
      <4> HIDE DEF f
      <4>2. [f EXCEPT !.stage = 0, !.type = TypeOf(c.number),
                     !.status = IF c.number = WRITE_SECTOR THEN {"drq"} ELSE {},
                     !.sub = IF c.number \in {READ_SECTOR, WRITE_SECTOR, READ_ADDRESS}
                             THEN "SEARCHING_FOR_NEXT_ID" ELSE @,
                     !.dir = IF c.number \in {STEP_IN, STEP_IN + 1} THEN 1
                             ELSE IF c.number \in {STEP_OUT, STEP_OUT + 1} THEN -1 ELSE @]
              = g
        BY <3>3 DEF FdcFields
      <4> HIDE DEF g
      <4>3. QED
        BY <4>1, <4>2
    <3> HIDE DEF status, sub, dir
    <3> HIDE DEF f, type
    <3>5. fdc'.deleted = c.deleted
      BY <3>3, <3>4 DEF Completed, FdcFields
    <3>6. QED
      BY <3>2, <3>5
  <2>2. CASE UNCHANGED vars
    BY <2>2 DEF vars, MarkInv
  <2>3. CASE Next /\ ~(\E c \in Commands : Command(c))
    <3>1. fdc'.deleted = fdc.deleted
      BY <2>3, MarkBitStays DEF Next
    <3>2. QED
      BY <3>1 DEF MarkInv
  <2>4. QED
    BY <2>1, <2>2, <2>3
<1>2. Marked(disks')
  <2>1. WritesItsSector
    BY NextInv
  <2>2. CASE disks' = disks
    BY <2>2 DEF MarkInv, Marked
  <2>3. CASE disks' # disks
    <3>1. fdc.sector \in Sectors /\ ~fdc.deleted /\ Marked(disks)
      BY <2>1, <2>3 DEF WritesItsSector, MarkInv
    <3>2. PICK k \in 7 .. 9 + SectorLength : \E b :
            /\ k = 7 => b = IF fdc.deleted THEN DELETED ELSE MARK
            /\ disks' = CellSet(disks, image, fdc.at, fdc.side, Start(fdc.sector) + k, b)
      BY <2>1, <2>3 DEF WritesItsSector
    <3>3. PICK b :
            /\ k = 7 => b = IF fdc.deleted THEN DELETED ELSE MARK
            /\ disks' = CellSet(disks, image, fdc.at, fdc.side, Start(fdc.sector) + k, b)
      BY <3>2
    <3> DEFINE o == Start(fdc.sector) + k
               e == disks'
    <3>4. k = 7 => b = MARK
      BY <3>1, <3>3
    <3>5. o \in 0 .. TrackLength /\ k \in 0 .. SectorCells - 1 /\ 7 \in 0 .. SectorCells - 1
      BY <3>1, SectorsOfTrack
    <3>6. /\ DisksShape(disks) /\ image \in Images /\ fdc.at \in Tracks /\ fdc.side \in Sides
          /\ e = CellSet(disks, image, fdc.at, fdc.side, o, b)
      BY <3>3 DEF Inv, Shapes, HeadInv
    <3>7. ASSUME NEW s \in Sectors
          PROVE  Start(s) + 7 \in 0 .. TrackLength /\ (Start(s) + 7 = o => k = 7)
      BY <3>1, <3>5, SectorsOfTrack
    <3> HIDE DEF o, e
    <3>8. /\ e[image][fdc.at][fdc.side][o] = b
          /\ \A j \in Images, u \in Tracks, v \in Sides, p \in 0 .. TrackLength :
               ~(j = image /\ u = fdc.at /\ v = fdc.side /\ p = o)
                 => e[j][u][v][p] = disks[j][u][v][p]
      BY <3>5, <3>6, OneCell
    <3>9. ASSUME NEW j \in Images, NEW u \in Tracks, NEW v \in Sides, NEW s \in Sectors
          PROVE  e[j][u][v][Start(s) + 7] = MARK
      <4>1. disks[j][u][v][Start(s) + 7] = MARK
        BY <3>1 DEF Marked
      <4>2. CASE j = image /\ u = fdc.at /\ v = fdc.side /\ Start(s) + 7 = o
        BY <3>4, <3>7, <3>8, <4>2
      <4>3. CASE ~(j = image /\ u = fdc.at /\ v = fdc.side /\ Start(s) + 7 = o)
        BY <3>7, <3>8, <4>1, <4>3
      <4>4. QED
        BY <4>2, <4>3
    <3>10. QED
      BY <3>9 DEF Marked, e
  <2>4. QED
    BY <2>2, <2>3
<1>3. QED
  BY <1>1, <1>2 DEF MarkInv

\* A step that leaves the read where it is.
LEMMA ReadStays ==
  ASSUME ReadInv, disks' = disks, image' = image, prog'.op = prog.op,
         prog'.moved = prog.moved, prog.at # "free",
         fdc'.type = fdc.type, fdc'.stage = fdc.stage, fdc'.sub = fdc.sub,
         fdc'.sync = fdc.sync, fdc'.track = fdc.track, fdc'.sector = fdc.sector,
         fdc'.at = fdc.at, fdc'.side = fdc.side, fdc'.offset = fdc.offset,
         fdc'.index = fdc.index, fdc'.data = fdc.data,
         \A flag \in {"drq", "lost", "seek"} : flag \in fdc'.status <=> flag \in fdc.status,
         prog'.at = "moving" => "drq" \in fdc.status
  PROVE  ReadInv'
<1> SUFFICES ASSUME prog'.op = "read", prog'.at # "free"
             PROVE  /\ prog'.at = "moving" => "drq" \in fdc'.status
                    /\ \/ "lost" \in fdc'.status \/ "seek" \in fdc'.status
                       \/ NotFoundYet' \/ UnderWay' \/ AllRead'
  BY DEF ReadInv
<1>1. \/ "lost" \in fdc.status \/ "seek" \in fdc.status
      \/ NotFoundYet \/ UnderWay \/ AllRead
  BY DEF ReadInv
<1>2. \A k : OfSector(k)' <=> OfSector(k)
  BY DEF OfSector
<1>3. \A k : DataByte(k)' = DataByte(k)
  BY DEF DataByte
<1>4. Taken => Taken'
  BY <1>3 DEF Taken
<1>5. NotFoundYet => NotFoundYet'
  BY <1>2 DEF NotFoundYet
<1>6. UnderWay => UnderWay'
  <2>1. OfSector(7 + fdc.index) => OfSector(7 + fdc.index)'
    BY DEF OfSector
  <2>2. QED
    BY <1>4, <2>1 DEF UnderWay
<1>7. AllRead => AllRead'
  BY <1>4 DEF AllRead
<1>8. QED
  BY <1>1, <1>5, <1>6, <1>7

LEMMA BusyGoesReads == ASSUME FoundInv, ReadInv, BusyGoes PROVE ReadInv'
<1>1. DOMAIN fdc = FdcFields
  BY DEF FoundInv, Inv, Shapes
<1>2. /\ prog' = prog /\ disks' = disks /\ image' = image
      /\ fdc' = [fdc EXCEPT !.wait = FALSE, !.status = @ \ {"busy"}]
  BY DEF BusyGoes, Chip
<1>3. /\ fdc'.type = fdc.type /\ fdc'.stage = fdc.stage /\ fdc'.sub = fdc.sub
      /\ fdc'.sync = fdc.sync /\ fdc'.track = fdc.track /\ fdc'.sector = fdc.sector
      /\ fdc'.at = fdc.at /\ fdc'.side = fdc.side /\ fdc'.offset = fdc.offset
      /\ fdc'.index = fdc.index /\ fdc'.data = fdc.data
      /\ fdc'.status = fdc.status \ {"busy"}
  BY <1>1, <1>2 DEF FdcFields
<1>4. CASE prog.at = "free" \/ prog.op # "read"
  BY <1>2, <1>4 DEF ReadInv
<1>5. CASE prog.at # "free" /\ prog.op = "read"
  BY <1>2, <1>3, <1>5, ReadStays DEF ReadInv
<1>6. QED
  BY <1>4, <1>5

\* While a read is under way the controller carries out no other command.
LEMMA OtherStepsRead ==
  ASSUME FoundInv, Pulse \/ Moves \/ ReadsAddress \/ ReadsTrack \/ WritesSector
  PROVE  ReadInv'
<1>1. prog' = prog
  BY DEF Pulse, Moves, ReadsAddress, ReadsTrack, WritesSector, Chip
<1>2. fdc.type = 1 \/ fdc.command \in {READ_ADDRESS, READ_TRACK, WRITE_SECTOR}
  BY DEF Pulse, Moves, ReadsAddress, ReadsTrack, WritesSector, At
<1>3. prog.op # "read" \/ prog.at = "free"
  BY <1>2 DEF FoundInv, AskInv, Asking, READ_SECTOR, WRITE_SECTOR, READ_TRACK, READ_ADDRESS
<1>4. QED
  BY <1>1, <1>3 DEF ReadInv

LEMMA BeginsReads == ASSUME FoundInv, ReadInv, Begins \/ Settled PROVE ReadInv'
<1>1. prog' = prog /\ DOMAIN fdc = FdcFields
  BY DEF FoundInv, Inv, Shapes, Begins, Settled, Chip
<1> SUFFICES ASSUME prog.op = "read", prog.at # "free"
             PROVE  /\ prog.at = "moving" => "drq" \in fdc'.status
                    /\ NotFoundYet'
  BY <1>1 DEF ReadInv
<1>2. fdc.type = 2 /\ fdc.command = READ_SECTOR /\ fdc.stage # 3 /\ NothingYet
  BY DEF FoundInv, AskInv, SearchInv, Asking, Begins, Settled
<1>3. NotFoundYet /\ "drq" \notin fdc.status /\ prog.at # "moving"
  BY <1>2 DEF ReadInv, NothingYet, UnderWay, AllRead, NotFoundYet
<1>4. fdc.sub = "SEARCHING_FOR_NEXT_ID" /\ prog.moved = <<>>
  BY <1>2, <1>3 DEF NothingYet, NotFoundYet
<1>5. fdc'.type = 2 /\ fdc'.sub = fdc.sub /\ "drq" \notin fdc'.status
  <2>1. CASE Begins
    <3>1. fdc' = [fdc EXCEPT !.stage = 2, !.sync = FALSE, !.status = {"busy"}]
      <4>1. fdc' = [fdc EXCEPT !.stage = 2, !.sync = IF fdc.type = 1 THEN @ ELSE FALSE,
                               !.status = {"busy"} \union IF fdc.type = 1 /\ fdc.spin
                                                          THEN {"spinup"} ELSE {}]
        BY <2>1 DEF Begins, Chip
      <4>2. {"busy"} \union {} = {"busy"}
        OBVIOUS
      <4>3. QED
        BY <1>2, <4>1, <4>2
    <3>2. QED
      BY <1>1, <1>2, <3>1 DEF FdcFields
  <2>2. CASE Settled
    <3>1. fdc' = [[fdc EXCEPT !.stage = 3] EXCEPT !.turns = 0]
      BY <1>2, <2>2 DEF Settled, Chip, READ_SECTOR, WRITE_SECTOR, READ_TRACK, WRITE_TRACK,
                        READ_ADDRESS
    <3>2. QED
      BY <1>1, <1>2, <1>3, <3>1 DEF FdcFields
  <2>3. QED
    BY <2>1, <2>2
<1>6. QED
  BY <1>1, <1>3, <1>4, <1>5 DEF NotFoundYet, HeaderStates, SEARCHING_FOR_NEXT_DATAID

LEMMA SearchesHeaderReads == ASSUME FoundInv, ReadInv, SearchesHeader PROVE ReadInv'
<1> DEFINE f == Turned
<1>1. /\ Shapes /\ HeadInv /\ Layout(disks) /\ fdc.stage = 3 /\ fdc.sub \in HeaderStates
      /\ prog' = prog /\ fdc' = Header(f)
  BY DEF FoundInv, Inv, SearchesHeader, At, Chip
<1> SUFFICES ASSUME prog.op = "read", prog.at # "free"
             PROVE  /\ prog.at = "moving" => "drq" \in fdc'.status
                    /\ "lost" \in fdc'.status \/ "seek" \in fdc'.status \/ NotFoundYet'
  BY <1>1 DEF ReadInv
<1>2. fdc.type = 2 /\ HeaderPosition
  BY <1>1 DEF FoundInv, AskInv, SearchInv, Asking, SearchesHeader, At
<1>3. /\ DOMAIN f = FdcFields /\ f.type = 2 /\ f.stage = 3 /\ f.status = fdc.status
      /\ f.sub = fdc.sub
  BY <1>1, <1>2, HeadGoesOn
<1> HIDE DEF f
<1>4. \/ fdc'.status = fdc.status /\ fdc'.type = 2
      \/ fdc'.status = fdc.status \union {"seek"}
  BY <1>1, <1>3, GivenUp
<1>5. CASE "lost" \in fdc.status \/ "seek" \in fdc.status \/ "seek" \in fdc'.status
  BY <1>4, <1>5 DEF ReadInv
<1>6. CASE ~("lost" \in fdc.status \/ "seek" \in fdc.status \/ "seek" \in fdc'.status)
  <2>1. fdc'.status = fdc.status /\ fdc'.type = 2 /\ fdc'.stage = 3
    BY <1>1, <1>3, <1>4, <1>6, HeaderIs
  <2>2. NotFoundYet
    BY <1>1, <1>2, <1>6 DEF ReadInv, UnderWay, AllRead, HeaderStates
  <2>3. /\ fdc'.sub \in HeaderStates \union {SEARCHING_FOR_NEXT_DATAID}
        /\ fdc'.sub = SEARCHING_FOR_NEXT_DATAID => ~fdc'.sync /\ OfSector(4)'
    BY <1>1, <1>2, <2>1, SearchesOn DEF f
  <2>4. QED
    BY <1>1, <2>1, <2>2, <2>3 DEF NotFoundYet, ReadInv
<1>7. QED
  BY <1>5, <1>6

\* The data begins after the mark; then each byte read is the next of the sector.
LEMMA ReadsSectorReads == ASSUME FoundInv, MarkInv, ReadInv, ReadsSector PROVE ReadInv'
<1> DEFINE f == Turned
           n == fdc.sector
<1>1. /\ Shapes /\ HeadInv /\ Marked(disks) /\ fdc.at \in Tracks /\ fdc.side \in Sides
      /\ image \in Images
  BY DEF FoundInv, Inv, HeadInv, MarkInv
<1>2. /\ fdc.type = 2 /\ fdc.stage = 3
      /\ disks' = disks /\ image' = image /\ prog' = prog
      /\ fdc'.stage = 3 /\ fdc'.track = fdc.track
      /\ fdc'.sector = fdc.sector /\ fdc'.at = fdc.at /\ fdc'.side = fdc.side
      /\ fdc'.offset = f.offset
      /\ \/ /\ fdc.sub = SEARCHING_FOR_NEXT_DATAID /\ fdc'.type = 2
            /\ fdc'.status = fdc.status /\ fdc'.sync = (f.offset \in SyncCells)
            /\ IF Found(f, MARK) THEN fdc'.index = 0 /\ fdc'.sub = "READING_SECTOR"
                                 ELSE fdc'.sub = fdc.sub
         \/ /\ fdc.sub = "READING_SECTOR" /\ fdc'.sub = fdc.sub
            /\ fdc'.type = IF fdc.index + 1 = SectorLength THEN 0 ELSE 2
            /\ fdc'.status = fdc.status \union {"drq"}
                               \union IF "drq" \in fdc.status THEN {"lost"} ELSE {}
            /\ fdc'.data = Under(f) /\ fdc'.index = fdc.index + 1
  BY ReadsSectorIs DEF FoundInv
<1> SUFFICES ASSUME prog.op = "read", prog.at # "free"
             PROVE  /\ prog.at = "moving" => "drq" \in fdc'.status
                    /\ \/ "lost" \in fdc'.status \/ "seek" \in fdc'.status
                       \/ NotFoundYet' \/ UnderWay' \/ AllRead'
  BY <1>2 DEF ReadInv
<1>3. prog.at = "moving" => "drq" \in fdc'.status
  BY <1>2 DEF ReadInv
<1>4. CASE "lost" \in fdc.status \/ "seek" \in fdc.status
  BY <1>2, <1>3, <1>4
<1>5. /\ f.at = fdc.at /\ f.side = fdc.side /\ f.sync = fdc.sync
      /\ fdc.offset < TrackLength => f.offset = fdc.offset + 1
  BY <1>1, HeadGoesOn
<1>6. Under(f) = disks[image][fdc.at][fdc.side][f.offset]
  BY <1>5 DEF Under
<1> HIDE DEF f
<1>7. CASE ~("lost" \in fdc.status \/ "seek" \in fdc.status)
           /\ fdc.sub = SEARCHING_FOR_NEXT_DATAID
  <2>1. /\ NotFoundYet /\ "drq" \notin fdc.status /\ prog.moved = <<>>
        /\ \/ ~fdc.sync /\ (OfSector(4) \/ OfSector(5))
           \/ fdc.sync /\ OfSector(6)
    BY <1>2, <1>7 DEF ReadInv, NotFoundYet, UnderWay, AllRead, SEARCHING_FOR_NEXT_DATAID
  <2>2. fdc.track = fdc.at /\ n \in Sectors
    BY <2>1 DEF OfSector
  <2>3. /\ fdc.offset = Start(n) + 4 => f.offset = Start(n) + 5
        /\ fdc.offset = Start(n) + 5 => f.offset = Start(n) + 6
        /\ fdc.offset = Start(n) + 6 => f.offset = Start(n) + 7
    BY <1>5, <2>2, SectorsOfTrack
  <2>4. /\ Start(n) + 5 \notin SyncCells /\ Start(n) + 6 \in SyncCells
        /\ Start(n) + 7 \notin SyncCells
    <3>1. {5, 6, 7} \subseteq 0 .. SectorCells - 1
      BY SectorsOfTrack
    <3>2. QED
      BY <2>2, <3>1, SyncPlaces
  <2>5. /\ fdc'.type = 2 /\ fdc'.status = fdc.status
        /\ fdc'.sync = (f.offset \in SyncCells)
        /\ IF Found(f, MARK) THEN fdc'.index = 0 /\ fdc'.sub = "READING_SECTOR"
                             ELSE fdc'.sub = fdc.sub
    BY <1>2, <1>7 DEF SEARCHING_FOR_NEXT_DATAID
  <2>6. CASE ~fdc.sync /\ (OfSector(4) \/ OfSector(5))
    <3>1. ~Found(f, MARK)
      BY <1>5, <2>6 DEF Found
    <3>2. fdc'.sub = SEARCHING_FOR_NEXT_DATAID
      BY <1>7, <2>5, <3>1
    <3>3. \/ f.offset = Start(n) + 5 /\ ~fdc'.sync
          \/ f.offset = Start(n) + 6 /\ fdc'.sync
      <4>1. CASE OfSector(4)
        BY <2>3, <2>4, <2>5, <4>1 DEF OfSector
      <4>2. CASE OfSector(5)
        BY <2>3, <2>4, <2>5, <4>2 DEF OfSector
      <4>3. QED
        BY <2>6, <4>1, <4>2
    <3>4. \/ ~fdc'.sync /\ OfSector(5)'
          \/ fdc'.sync /\ OfSector(6)'
      BY <1>2, <2>2, <3>3 DEF OfSector
    <3>5. NotFoundYet'
      BY <1>2, <2>1, <2>5, <3>2, <3>4 DEF NotFoundYet
    <3>6. QED
      BY <1>3, <3>5
  <2>7. CASE fdc.sync /\ OfSector(6)
    <3>1. f.offset = Start(n) + 7
      BY <2>3, <2>7 DEF OfSector
    <3>2. Under(f) = MARK
      BY <1>1, <1>6, <2>2, <3>1 DEF Marked
    <3>3. Found(f, MARK)
      BY <1>5, <2>4, <2>7, <3>1, <3>2 DEF Found
    <3>4. fdc'.index = 0 /\ fdc'.sub = "READING_SECTOR"
      BY <2>5, <3>3
    <3>5. OfSector(7 + fdc.index)' /\ fdc'.index \in 0 .. SectorLength - 1
      <4>1. 7 + fdc'.index = 7
        BY <3>4
      <4>2. QED
        BY <1>2, <2>2, <3>1, <3>4, <4>1, SectorsOfTrack DEF OfSector
    <3>6. Taken'
      <4>1. "drq" \notin fdc'.status /\ prog'.moved = <<>>
        BY <1>2, <2>1, <2>5
      <4>2. 1 .. fdc'.index = {}
        BY <3>4
      <4> DEFINE none == [k \in 1 .. fdc'.index |-> DataByte(k)']
      <4>3. none = <<>>
        BY <4>2
      <4>4. QED
        BY <4>1, <4>3 DEF Taken
    <3>7. UnderWay'
      BY <1>2, <2>5, <3>4, <3>5, <3>6 DEF UnderWay
    <3>8. QED
      BY <1>3, <3>7
  <2>8. QED
    BY <2>1, <2>6, <2>7
<1>8. CASE ~("lost" \in fdc.status \/ "seek" \in fdc.status)
           /\ fdc.sub = "READING_SECTOR"
  <2> DEFINE i == fdc.index
  <2>1. UnderWay
    BY <1>2, <1>8 DEF ReadInv, NotFoundYet, AllRead, HeaderStates, SEARCHING_FOR_NEXT_DATAID
  <2>2. i \in 0 .. SectorLength - 1 /\ OfSector(7 + i) /\ Taken
    BY <2>1 DEF UnderWay
  <2>3. n \in Sectors /\ fdc.track = fdc.at /\ fdc.offset = Start(n) + (7 + i)
    BY <2>2 DEF OfSector
  <2>4. /\ fdc'.sub = "READING_SECTOR"
        /\ fdc'.type = IF i + 1 = SectorLength THEN 0 ELSE 2
        /\ fdc'.status = fdc.status \union {"drq"}
                            \union IF "drq" \in fdc.status THEN {"lost"} ELSE {}
        /\ fdc'.data = Under(f) /\ fdc'.index = i + 1
    BY <1>2, <1>8 DEF SEARCHING_FOR_NEXT_DATAID
  <2>5. CASE "drq" \in fdc.status
    BY <1>3, <2>4, <2>5
  <2>6. CASE "drq" \notin fdc.status
    <3>1. prog.moved = [k \in 1 .. i |-> DataByte(k)]
      BY <2>2, <2>6 DEF Taken
    <3>2. f.offset = Start(n) + (7 + (i + 1))
      BY <1>5, <2>2, <2>3, SectorsOfTrack
    <3>3. \A k : DataByte(k)' = DataByte(k)
      BY <1>2 DEF DataByte
    <3>4. Under(f) = DataByte(i + 1)
      <4>1. Start(n) + (7 + (i + 1)) = Start(n) + 7 + (i + 1)
        BY <2>2, <2>3, SectorsOfTrack
      <4>2. QED
        BY <1>6, <3>2, <4>1 DEF DataByte
    <3>5. Taken'
      <4>1. "drq" \in fdc'.status /\ fdc'.index >= 1 /\ fdc'.index - 1 = i
        BY <2>2, <2>4, SectorsOfTrack
      <4>2. fdc'.data = DataByte(fdc.index)'
        BY <1>2, <2>4, <3>4 DEF DataByte
      <4> DEFINE taken == [k \in 1 .. fdc'.index - 1 |-> DataByte(k)']
      <4>3. prog'.moved = taken
        BY <1>2, <3>1, <3>3, <4>1
      <4>4. QED
        BY <4>1, <4>2, <4>3 DEF Taken
    <3>6. CASE i + 1 = SectorLength
      <4>1. AllRead'
        BY <1>2, <2>3, <2>4, <3>5, <3>6 DEF AllRead
      <4>2. QED
        BY <1>3, <4>1
    <3>7. CASE i + 1 # SectorLength
      <4>1. OfSector(7 + fdc.index)'
        BY <1>2, <2>3, <2>4, <3>2 DEF OfSector
      <4>2. fdc'.index \in 0 .. SectorLength - 1
        BY <2>2, <2>4, <3>7, SectorsOfTrack
      <4>3. UnderWay'
        BY <1>2, <2>4, <3>5, <3>7, <4>1, <4>2 DEF UnderWay
      <4>4. QED
        BY <1>3, <4>3
    <3>8. QED
      BY <3>6, <3>7
  <2>7. QED
    BY <2>5, <2>6
<1>9. QED
  BY <1>2, <1>4, <1>7, <1>8

\* The program's steps.
LEMMA PollReads == ASSUME FoundInv, ReadInv, Poll PROVE ReadInv'
<1> DEFINE far == fdc.command >= READ_SECTOR
           at == IF prog.at = "rising" THEN IF "busy" \in fdc.status THEN "running" ELSE prog.at
                 ELSE IF "busy" \notin fdc.status THEN "free"
                 ELSE IF "drq" \in fdc.status /\ far THEN "moving"
                 ELSE prog.at
<1>1. /\ fdc' = fdc /\ disks' = disks /\ image' = image /\ DOMAIN prog = ProgFields
      /\ prog.at \in {"rising", "running"}
  BY DEF Poll, FoundInv, Inv, Shapes
<1>2. prog' = [prog EXCEPT !.seen = fdc.status, !.at = at]
  BY <1>1 DEF Poll, ProgFields
<1>3. at = "moving" => "drq" \in fdc.status
  BY <1>1
<1> HIDE DEF at
<1>4. prog'.op = prog.op /\ prog'.moved = prog.moved /\ prog'.at = at
  BY <1>1, <1>2 DEF ProgFields
<1>5. QED
  BY <1>1, <1>3, <1>4, ReadStays

\* Bytes taken one after the other are those bytes.
LEMMA OneMoreByte ==
  ASSUME NEW m \in Nat, NEW n \in 1 .. m, NEW g, DOMAIN g = 1 .. m
  PROVE  Append([k \in 1 .. n - 1 |-> g[k]], g[n]) = [k \in 1 .. n |-> g[k]]
<1> DEFINE S == {g[k] : k \in 1 .. m}
           s == [k \in 1 .. n - 1 |-> g[k]]
           t == [k \in 1 .. n |-> g[k]]
           a == Append(s, g[n])
<1>1. \A k \in 1 .. m : g[k] \in S
  OBVIOUS
<1>2. n - 1 \in Nat /\ n \in Nat
  OBVIOUS
<1> HIDE DEF S
<1>3. s \in Seq(S) /\ Len(s) = n - 1 /\ t \in Seq(S) /\ Len(t) = n /\ g[n] \in S
  <2>1. \A k \in 1 .. n - 1 : g[k] \in S
    BY <1>1
  <2>2. \A k \in 1 .. n : g[k] \in S
    BY <1>1
  <2>3. QED
    BY <1>2, <2>1, <2>2
<1>4. \A k \in 1 .. n - 1 : s[k] = g[k]
  OBVIOUS
<1>5. \A k \in 1 .. n : t[k] = g[k]
  OBVIOUS
<1>5a. t = [k \in 1 .. n |-> t[k]]
  OBVIOUS
<1> DEFINE e == g[n]
<1> HIDE DEF s, t, e, a
<1>6. /\ Append(s, e) \in Seq(S)
      /\ Len(Append(s, e)) = Len(s)+1
      /\ \A k \in 1.. Len(s) : Append(s, e)[k] = s[k]
      /\ Append(s, e)[Len(s)+1] = e
  <2>1. s \in Seq(S) /\ e \in S
    BY <1>3 DEF e
  <2>2. QED
    BY <2>1, AppendProperties
<1>7. a = Append(s, e)
  BY DEF a, e
<1>8. /\ DOMAIN a = 1 .. n /\ a = [k \in 1 .. n |-> a[k]]
      /\ \A k \in 1 .. n : a[k] = t[k]
  <2>1. a \in Seq(S) /\ Len(a) = n
    BY <1>2, <1>3, <1>6, <1>7
  <2>2. DOMAIN a = 1 .. n /\ a = [k \in 1 .. n |-> a[k]]
    BY <2>1
  <2>3. \A k \in 1 .. n - 1 : a[k] = t[k]
    <3>1. \A k \in 1 .. n - 1 : a[k] = s[k]
      BY <1>3, <1>6, <1>7
    <3>2. QED
      BY <1>2, <1>4, <1>5, <3>1
  <2>4. a[n] = t[n]
    <3>1. a[n] = e
      BY <1>2, <1>3, <1>6, <1>7
    <3>2. t[n] = g[n]
      BY <1>2, <1>5
    <3>3. QED
      BY <3>1, <3>2 DEF e
  <2>5. \A k \in 1 .. n : k \in 1 .. n - 1 \/ k = n
    BY <1>2
  <2>6. \A k \in 1 .. n : a[k] = t[k]
    BY <2>3, <2>4, <2>5
  <2>7. QED
    BY <2>2, <2>6
<1>10. a = t
  BY <1>8, <1>5a
<1>11. QED
  BY <1>10 DEF s, t, a

LEMMA ReadDataReads == ASSUME FoundInv, ReadInv, ReadData PROVE ReadInv'
<1> DEFINE status == fdc.status \ {"drq"}
           moved == Append(prog.moved, fdc.data)
<1>1. /\ DOMAIN fdc = FdcFields /\ DOMAIN prog = ProgFields /\ prog.at = "moving"
      /\ disks' = disks /\ image' = image
      /\ fdc' = [fdc EXCEPT !.status = status]
  BY DEF FoundInv, Inv, Shapes, ReadData
<1>2. CASE prog.op # "read"
  <2>1. prog'.op = prog.op
    BY <1>1 DEF ReadData, ProgFields
  <2>2. QED
    BY <1>2, <2>1 DEF ReadInv
<1>3. CASE prog.op = "read"
  <2>1. prog' = [prog EXCEPT !.at = "running", !.moved = moved]
    BY <1>1, <1>3 DEF ReadData, ProgFields
  <2>2. "drq" \notin status /\ \A flag \in {"lost", "seek"} : flag \in fdc.status => flag \in status
    OBVIOUS
  <2> HIDE DEF moved, status
  <2>3. prog'.at = "running" /\ prog'.op = "read" /\ prog'.moved = moved
    BY <1>1, <1>3, <2>1 DEF ProgFields
  <2>4. /\ fdc'.type = fdc.type /\ fdc'.stage = fdc.stage /\ fdc'.sub = fdc.sub
        /\ fdc'.sync = fdc.sync /\ fdc'.track = fdc.track /\ fdc'.sector = fdc.sector
        /\ fdc'.at = fdc.at /\ fdc'.side = fdc.side /\ fdc'.offset = fdc.offset
        /\ fdc'.index = fdc.index /\ fdc'.data = fdc.data /\ fdc'.status = status
    BY <1>1 DEF FdcFields
  <2>5. /\ "drq" \in fdc.status
        /\ "lost" \in fdc.status \/ "seek" \in fdc.status \/ UnderWay \/ AllRead
    BY <1>1, <1>3 DEF ReadInv, NotFoundYet
  <2>6. SUFFICES \/ "lost" \in fdc'.status \/ "seek" \in fdc'.status
                 \/ UnderWay' \/ AllRead'
    BY <2>3 DEF ReadInv
  <2>7. ASSUME Taken, fdc.index \in 0 .. SectorLength
        PROVE  Taken'
    <3> DEFINE i == fdc.index
               g == [k \in 1 .. SectorLength |-> DataByte(k)]
    <3>1. /\ i \in 1 .. SectorLength /\ fdc.data = DataByte(i)
          /\ prog.moved = [k \in 1 .. i - 1 |-> DataByte(k)]
      BY <2>5, <2>7, SectorsOfTrack DEF Taken
    <3>2. DOMAIN g = 1 .. SectorLength /\ SectorLength \in Nat
      BY SectorsOfTrack
    <3>3. \A k \in 1 .. SectorLength : g[k] = DataByte(k)
      OBVIOUS
    <3> HIDE DEF g, i
    <3>4. /\ \A k \in 1 .. i - 1 : k \in 1 .. SectorLength
          /\ \A k \in 1 .. i : k \in 1 .. SectorLength
      BY <3>1, <3>2
    <3>5. /\ prog.moved = [k \in 1 .. i - 1 |-> g[k]] /\ fdc.data = g[i]
          /\ [k \in 1 .. i |-> DataByte(k)] = [k \in 1 .. i |-> g[k]]
      BY <3>1, <3>3, <3>4
    <3>6. Append([k \in 1 .. i - 1 |-> g[k]], g[i]) = [k \in 1 .. i |-> g[k]]
      BY <3>1, <3>2, OneMoreByte
    <3>7. moved = [k \in 1 .. i |-> DataByte(k)]
      BY <3>5, <3>6 DEF moved
    <3>8. \A k : DataByte(k)' = DataByte(k)
      BY <1>1, <2>4 DEF DataByte
    <3>9. QED
      BY <2>2, <2>3, <2>4, <3>7, <3>8 DEF Taken, i
  <2>8. CASE "lost" \in fdc.status \/ "seek" \in fdc.status
    BY <2>2, <2>4, <2>8
  <2>9. CASE UnderWay
    <3>1. Taken' /\ fdc.index \in 0 .. SectorLength - 1 /\ OfSector(7 + fdc.index)
      BY <2>7, <2>9, SectorsOfTrack DEF UnderWay
    <3>2. OfSector(7 + fdc.index)'
      BY <2>4, <3>1 DEF OfSector
    <3>3. QED
      BY <2>4, <2>9, <3>1, <3>2 DEF UnderWay
  <2>10. CASE AllRead
    <3>1. Taken'
      BY <2>7, <2>10, SectorsOfTrack DEF AllRead
    <3>2. QED
      BY <2>4, <2>10, <3>1 DEF AllRead
  <2>11. QED
    BY <2>5, <2>8, <2>9, <2>10
<1>4. QED
  BY <1>2, <1>3

LEMMA CommandReads ==
  ASSUME FoundInv, NEW c \in Commands, Command(c)
  PROVE  ReadInv'
<1>1. CASE prog'.op # "read"
  BY <1>1 DEF ReadInv
<1>2. CASE prog'.op = "read"
  <2>1. /\ prog'.at = "rising" /\ prog'.moved = <<>> /\ fdc'.type = 2
        /\ fdc'.sub = "SEARCHING_FOR_NEXT_ID" /\ fdc'.status = {}
    BY <1>2, CommandIs DEF FoundInv
  <2>2. QED
    BY <2>1 DEF ReadInv, NotFoundYet, HeaderStates, SEARCHING_FOR_NEXT_DATAID
<1>3. QED
  BY <1>1, <1>2

LEMMA ReadInvStays ==
  ASSUME FoundInv, MarkInv, ReadInv, [Next]_vars
  PROVE  ReadInv'
<1>1. CASE BusyGoes \/ Begins \/ Settled \/ SearchesHeader \/ ReadsSector
  BY <1>1, BusyGoesReads, BeginsReads, SearchesHeaderReads, ReadsSectorReads
<1>2. CASE Pulse \/ Moves \/ ReadsAddress \/ ReadsTrack \/ WritesSector
  BY <1>2, OtherStepsRead
<1>3. CASE Poll \/ ReadData
  BY <1>3, PollReads, ReadDataReads
<1>4. CASE SetRegisters
  BY <1>4 DEF SetRegisters, Register, ReadInv
<1>5. CASE \E c \in Commands : Command(c)
  BY <1>5, CommandReads
<1>6. CASE \E b \in Given : WriteData(b)
  <2>1. DOMAIN prog = ProgFields
    BY DEF FoundInv, Inv, Shapes
  <2>2. prog'.op = prog.op /\ prog.op = "write"
    BY <1>6, <2>1 DEF WriteData, ProgFields
  <2>3. QED
    BY <2>2 DEF ReadInv
<1>7. CASE \E i \in Images : Insert(i)
  <2>1. DOMAIN prog = ProgFields
    BY DEF FoundInv, Inv, Shapes
  <2>2. prog'.op = "none"
    BY <1>7, <2>1 DEF Insert, ProgFields
  <2>3. QED
    BY <2>2 DEF ReadInv
<1>8. CASE UNCHANGED vars
  <2>1. fdc' = fdc /\ disks' = disks /\ image' = image /\ prog' = prog
    BY <1>8 DEF vars
  <2>2. CASE prog.at = "free"
    BY <2>1, <2>2 DEF ReadInv
  <2>3. CASE prog.at # "free"
    <3>1. CASE prog.op = "read"
      BY <2>1, <2>3, <3>1, ReadStays DEF ReadInv
    <3>2. CASE prog.op # "read"
      BY <2>1, <3>2 DEF ReadInv
    <3>3. QED
      BY <3>1, <3>2
  <2>4. QED
    BY <2>2, <2>3
<1>9. QED
  BY <1>1, <1>2, <1>3, <1>4, <1>5, <1>6, <1>7, <1>8 DEF Next, Execute

\* What the property says of a program that has polled the last time.
LEMMA BytesOfSector ==
  SubSeq(OnDisk, 9, 8 + SectorLength) =
    [k \in 1 .. SectorLength |->
       disks[image][Asked.track][Asked.side][Start(Asked.sector) + (k + 9 - 1) - 1]]
<1> DEFINE l == SectorLength
           S == {OnDisk[k] : k \in 1 .. SectorCells}
           s == SubSeq(OnDisk, 9, 8 + l)
           t == [k \in 1 .. l |->
                   disks[image][Asked.track][Asked.side][Start(Asked.sector) + (k + 9 - 1) - 1]]
<1>1. l \in Nat /\ SectorCells = l + 11 /\ l >= 1
  BY SectorsOfTrack
<1> HIDE DEF l
<1>2. \A k \in 1 .. l : k + 9 - 1 \in 1 .. SectorCells
  BY <1>1
<1>3. \A k \in 1 .. l : OnDisk[k + 9 - 1] = t[k]
  BY <1>2 DEF OnDisk
<1>4. \A k \in 9 .. 8 + l : OnDisk[k] \in S
  BY <1>1
<1> HIDE DEF S
<1>5. /\ s \in Seq(S) /\ Len(s) = IF 9 <= 8 + l THEN (8 + l) - 9 + 1 ELSE 0
      /\ \A k \in 1 .. (8 + l) - 9 + 1 : s[k] = OnDisk[9 + k - 1]
  <2>1. 8 + l \in Int /\ 9 \in Int
    BY <1>1
  <2>2. QED
    BY <1>4, <2>1, SubSeqProperties
<1>6. Len(s) = l /\ (8 + l) - 9 + 1 = l /\ \A k \in 1 .. l : 9 + k - 1 = k + 9 - 1
  BY <1>1, <1>5
<1> HIDE DEF s
<1>7. DOMAIN s = 1 .. l /\ s = [k \in 1 .. l |-> s[k]]
  BY <1>1, <1>5, <1>6
<1>8. \A k \in 1 .. l : s[k] = t[k]
  BY <1>3, <1>5, <1>6
<1>9. t = [k \in 1 .. l |-> t[k]]
  OBVIOUS
<1> HIDE DEF t
<1>10. s = t
  BY <1>7, <1>8, <1>9
<1>11. QED
  BY <1>10 DEF s, t, l

LEMMA WhatIsReadStays ==
  ASSUME FoundInv, MarkInv, ReadInv, ReadsWhatIsThere, [Next]_vars
  PROVE  ReadsWhatIsThere'
<1> SUFFICES ASSUME prog'.at = "free", prog'.op = "read",
                    prog'.seen \intersect (Errors \union {"drq"}) = {}
             PROVE  prog'.moved = SubSeq(OnDisk, 9, 8 + SectorLength)'
  BY DEF ReadsWhatIsThere, Ended
<1>1. DOMAIN prog = ProgFields /\ ProgramInv
  BY DEF FoundInv, Inv, Shapes
<1>2. CASE prog' = prog /\ disks' = disks /\ image' = image
  <2>1. prog.moved = SubSeq(OnDisk, 9, 8 + SectorLength)
    BY <1>2 DEF ReadsWhatIsThere, Ended
  <2>2. QED
    BY <1>2, <2>1 DEF OnDisk, Asked
<1>3. CASE Poll
  <2> DEFINE far == fdc.command >= READ_SECTOR
             at == IF prog.at = "rising" THEN IF "busy" \in fdc.status THEN "running" ELSE prog.at
                   ELSE IF "busy" \notin fdc.status THEN "free"
                   ELSE IF "drq" \in fdc.status /\ far THEN "moving"
                   ELSE prog.at
  <2>1. /\ disks' = disks /\ image' = image /\ prog.at \in {"rising", "running"}
    BY <1>3 DEF Poll
  <2>2. prog' = [prog EXCEPT !.seen = fdc.status, !.at = at]
    BY <1>1, <1>3 DEF Poll, ProgFields
  <2>3. at = "free" => prog.at = "running" /\ "busy" \notin fdc.status
    BY <2>1
  <2> HIDE DEF at
  <2>4. /\ prog'.at = at /\ prog'.seen = fdc.status /\ prog'.op = prog.op
        /\ prog'.moved = prog.moved /\ prog'.where = prog.where
    BY <1>1, <2>2 DEF ProgFields
  <2>5. prog.at = "running" /\ "busy" \notin fdc.status /\ prog.op = "read"
    BY <2>3, <2>4
  <2>6. fdc.type = 0
    BY <1>1, <2>5 DEF ProgramInv
  <2>7. "lost" \notin fdc.status /\ "seek" \notin fdc.status /\ "drq" \notin fdc.status
    BY <2>4 DEF Errors
  <2>8. AllRead
    BY <2>5, <2>6, <2>7 DEF ReadInv, NotFoundYet, UnderWay
  <2>9. /\ prog.moved = [k \in 1 .. SectorLength |-> DataByte(k)]
        /\ fdc.track = fdc.at /\ fdc.sector \in Sectors
    BY <2>7, <2>8 DEF AllRead, Taken
  <2>10. /\ fdc.track = Asked.track /\ fdc.sector = Asked.sector
         /\ fdc.at = Asked.at /\ fdc.side = Asked.side
    BY <2>5 DEF FoundInv, AskInv, Asking
  <2>11. \A k \in 1 .. SectorLength :
           DataByte(k) = disks[image][Asked.track][Asked.side][Start(Asked.sector) + (k + 9 - 1) - 1]
    <3>1. Start(fdc.sector) \in Nat /\ SectorLength \in Nat
      BY <2>9, SectorsOfTrack
    <3> DEFINE b == Start(fdc.sector)
    <3>2. \A k \in 1 .. SectorLength : b + 7 + k = b + (k + 9 - 1) - 1
      <4> HIDE DEF b
      <4>1. b \in Nat
        BY <3>1 DEF b
      <4>2. QED
        BY <3>1, <4>1
    <3>3. QED
      BY <2>9, <2>10, <3>2 DEF DataByte
  <2>12. prog.moved = SubSeq(OnDisk, 9, 8 + SectorLength)
    BY <2>9, <2>11, BytesOfSector
  <2>13. OnDisk' = OnDisk
    BY <2>1, <2>4 DEF OnDisk, Asked
  <2>14. QED
    BY <2>4, <2>12, <2>13
<1>4. CASE Execute /\ ~WritesSector
  <2>1. prog' = prog /\ image' = image
    BY <1>4 DEF Execute, BusyGoes, Begins, Settled, Pulse, Moves, SearchesHeader, ReadsSector,
                ReadsAddress, ReadsTrack, Chip
  <2>2. disks' = disks
    BY <1>4 DEF Execute, BusyGoes, Begins, Settled, Pulse, Moves, SearchesHeader, ReadsSector,
                ReadsAddress, ReadsTrack
  <2>3. QED
    BY <1>2, <2>1, <2>2
<1>5. CASE WritesSector
  <2>1. prog' = prog /\ fdc.type \in {2, 3}
    BY <1>5 DEF WritesSector, Chip, At
  <2>2. QED
    BY <1>1, <2>1 DEF ProgramInv
<1>6. CASE ReadData \/ \E b \in Given : WriteData(b)
  <2>1. prog'.at = "running"
    BY <1>1, <1>6 DEF ReadData, WriteData, ProgFields
  <2>2. QED
    BY <2>1
<1>7. CASE SetRegisters
  BY <1>2, <1>7 DEF SetRegisters, Register
<1>8. CASE \E c \in Commands : Command(c)
  <2>1. prog'.at = "rising"
    BY <1>8, CommandIs DEF FoundInv
  <2>2. QED
    BY <2>1
<1>9. CASE \E i \in Images : Insert(i)
  <2>1. prog'.op = "none"
    BY <1>1, <1>9 DEF Insert, ProgFields
  <2>2. QED
    BY <2>1
<1>10. CASE UNCHANGED vars
  BY <1>2, <1>10 DEF vars
<1>11. QED
  BY <1>3, <1>4, <1>5, <1>6, <1>7, <1>8, <1>9, <1>10 DEF Next

LEMMA InitRead == Init => MarkInv /\ ReadInv /\ ReadsWhatIsThere
<1> SUFFICES ASSUME Init PROVE MarkInv /\ ReadInv /\ ReadsWhatIsThere
  OBVIOUS
<1>1. /\ disks = [i \in Images |-> OpenD81(i)] /\ ~fdc.deleted
      /\ prog.op = "none"
  BY DEF Init
<1> HIDE DEF Init
<1>2. Marked(disks)
  BY <1>1, LaidOut DEF Marked
<1>3. QED
  BY <1>1, <1>2 DEF MarkInv, ReadInv, ReadsWhatIsThere, Ended

\* A program that reads a sector and sees no error at the end has every byte of
\* it, in order, once: it cannot miss or repeat one unseen, because a byte the
\* head brings before the last was taken raises the lost flag, which stays, and
\* no byte of another sector, because the mark the data begins with is the one
\* after the header that matched.  It holds while no command writes the mark of
\* a deleted sector: a read runs past that mark to the next one there is
\* (wd177x.cpp 266-357).
THEOREM ReadsItsSector == ASSUME Normal PROVE Spec => []ReadsWhatIsThere
<1>1. FoundInv /\ [Next]_vars => FoundInv'
  BY NextFound
<1>2. FoundInv /\ MarkInv /\ [Next]_vars => MarkInv'
  BY MarksStay DEF FoundInv
<1>3. FoundInv /\ MarkInv /\ ReadInv /\ [Next]_vars => ReadInv'
  BY ReadInvStays
<1>4. FoundInv /\ MarkInv /\ ReadInv /\ ReadsWhatIsThere /\ [Next]_vars => ReadsWhatIsThere'
  BY WhatIsReadStays
<1>5. QED
  BY <1>1, <1>2, <1>3, <1>4, InitFound, InitRead, PTL DEF Spec

-----------------------------------------------------------------------------
(* The sum over the bytes of a sector *)

\* The sums over the first bytes of some data, as CRCOf comes to them.
SumsOf(mark, data, f) ==
  f = [n \in 0 .. Len(data) |-> IF n = 0 THEN CRC(63, mark) ELSE CRC(f[n - 1], data[n])]

LEMMA SumIs ==
  ASSUME NEW mark \in Int, NEW data \in Seq(Int)
  PROVE  \E f : SumsOf(mark, data, f) /\ CRCOf(mark, data) = f[Len(data)]
<1> DEFINE len == Len(data)
           first == CRC(63, mark)
           Is(f) == f = [n \in 0 .. len |-> IF n = 0 THEN first ELSE CRC(f[n - 1], data[n])]
           Added(sum, n) == IF n \in 1 .. len THEN CRC(sum, data[n]) ELSE 0
           step == [p \in Nat \X Int |-> Added(p[2], p[1])]
           sums == CHOOSE g : Is(g)
<1>1. len \in Nat /\ \A n \in 1 .. len : data[n] \in Int
  OBVIOUS
<1>2. \A sum \in Int, byte \in Int : CRC(sum, byte) \in Int
  BY DEF CRC
<1>3. CRCOf(mark, data) = sums[len]
  BY DEF CRCOf
<1> HIDE DEF len
<1>4. first \in Int
  BY <1>2
<1>5. \A sum \in Int, n \in Nat : Added(sum, n) \in Int
  <2>1. ASSUME NEW sum \in Int, NEW n \in Nat PROVE Added(sum, n) \in Int
    <3>1. CASE n \in 1 .. len
      <4>1. data[n] \in Int
        BY <1>1, <3>1
      <4>2. QED
        BY <1>2, <3>1, <4>1
    <3>2. CASE n \notin 1 .. len
      BY <3>2
    <3>3. QED
      BY <3>1, <3>2
  <2>2. QED
    BY <2>1
<1> HIDE DEF Added
<1>6. step \in [Nat \X Int -> Int] /\ \A n \in Nat, sum \in Int : step[<<n, sum>>] = Added(sum, n)
  BY <1>5
<1> HIDE DEF first, step
<1>7. PICK f \in [0 .. len -> Int] :
        f[0] = first /\ \A n \in 1 .. len : f[n] = step[<<n, f[n - 1]>>]
  <2>1. \E f : Recursive(f, Int, first, step, len)
    BY <1>1, <1>4, <1>6, FiniteRecursion
  <2>2. QED
    BY <2>1 DEF Recursive
<1>8. ASSUME NEW n \in 0 .. len
      PROVE  f[n] = IF n = 0 THEN first ELSE CRC(f[n - 1], data[n])
  <2>1. CASE n = 0
    BY <1>7, <2>1
  <2>2. CASE n # 0
    <3>1. n \in 1 .. len /\ n - 1 \in 0 .. len /\ n \in Nat
      BY <1>1, <2>2
    <3>2. step[<<n, f[n - 1]>>] = CRC(f[n - 1], data[n])
      BY <1>6, <1>7, <3>1 DEF Added
    <3>3. QED
      BY <1>7, <3>1, <3>2
  <2>3. QED
    BY <2>1, <2>2
<1>9. Is(f)
  BY <1>7, <1>8
<1>10. Is(sums)
  BY <1>9
<1>11. QED
  BY <1>3, <1>10 DEF SumsOf, len, first

\* A byte more is summed last.
LEMMA SumGrows ==
  ASSUME NEW mark \in Int, NEW m \in Nat, NEW g, \A k \in 1 .. m + 1 : g[k] \in Int
  PROVE  CRCOf(mark, [k \in 1 .. m + 1 |-> g[k]]) = CRC(CRCOf(mark, [k \in 1 .. m |-> g[k]]), g[m + 1])
<1> DEFINE more == [k \in 1 .. m + 1 |-> g[k]]
           data == [k \in 1 .. m |-> g[k]]
<1>1. more \in Seq(Int) /\ Len(more) = m + 1 /\ data \in Seq(Int) /\ Len(data) = m
  OBVIOUS
<1>2. /\ \A k \in 1 .. m : more[k] = data[k]
      /\ more[m + 1] = g[m + 1]
  OBVIOUS
<1> HIDE DEF more, data
<1>3. PICK f : SumsOf(mark, more, f) /\ CRCOf(mark, more) = f[m + 1]
  BY <1>1, SumIs
<1>4. PICK h : SumsOf(mark, data, h) /\ CRCOf(mark, data) = h[m]
  BY <1>1, SumIs
<1>5. /\ \A n \in 0 .. m + 1 : f[n] = IF n = 0 THEN CRC(63, mark) ELSE CRC(f[n - 1], more[n])
      /\ \A n \in 0 .. m : h[n] = IF n = 0 THEN CRC(63, mark) ELSE CRC(h[n - 1], data[n])
  BY <1>1, <1>3, <1>4 DEF SumsOf
<1> DEFINE Agree == {n \in Nat : n <= m => f[n] = h[n]}
<1>6. 0 \in Agree
  BY <1>5
<1>7. ASSUME NEW n \in Nat, n \in Agree PROVE n + 1 \in Agree
  <2>1. SUFFICES ASSUME n + 1 <= m PROVE f[n + 1] = h[n + 1]
    OBVIOUS
  <2>2. n <= m /\ n + 1 \in 0 .. m /\ n + 1 \in 0 .. m + 1 /\ n + 1 # 0 /\ (n + 1) - 1 = n
        /\ n + 1 \in 1 .. m
    BY <2>1
  <2>3. f[n] = h[n]
    BY <1>7, <2>2
  <2>4. f[n + 1] = CRC(f[n], more[n + 1]) /\ h[n + 1] = CRC(h[n], data[n + 1])
    BY <1>5, <2>2
  <2>5. QED
    BY <1>2, <2>2, <2>3, <2>4
<1>8. m \in Agree
  <2> HIDE DEF Agree
  <2>1. QED
    BY <1>6, <1>7, SetInduction
<1>9. f[m + 1] = CRC(f[m], more[m + 1])
  BY <1>5
<1>10. QED
  BY <1>2, <1>3, <1>4, <1>8, <1>9 DEF more, data

LEMMA SumOfNone ==
  ASSUME NEW mark \in Int
  PROVE  CRCOf(mark, <<>>) = CRC(63, mark)
<1>1. <<>> \in Seq(Int) /\ Len(<<>>) = 0
  OBVIOUS
<1>2. PICK f : SumsOf(mark, <<>>, f) /\ CRCOf(mark, <<>>) = f[0]
  BY <1>1, SumIs
<1>3. QED
  BY <1>1, <1>2 DEF SumsOf

-----------------------------------------------------------------------------
(* What is written is what was given *)

\* A step of a write: what it makes of the controller, and where it writes.
Stays(field) == fdc'[field] = fdc[field]
WritesCell(k, b) ==
  /\ fdc.track = fdc.at /\ fdc.sector \in Sectors
  /\ disks' = CellSet(disks, image, fdc.at, fdc.side, Start(fdc.sector) + k, b)
Requests ==
  /\ "drq" \in fdc'.status
  /\ "drq" \in fdc.status => "lost" \in fdc'.status
  /\ \A flag \in Flags \ {"drq", "lost"} : flag \in fdc'.status <=> flag \in fdc.status
  /\ "lost" \in fdc.status => "lost" \in fdc'.status
Seeks ==
  /\ fdc.sub = SEARCHING_FOR_NEXT_DATAID /\ fdc'.sub = SEARCHING_FOR_NEXT_DATAID
  /\ disks' = disks /\ Stays("status") /\ Stays("mark") /\ fdc'.type = 2
Marks ==
  /\ fdc.sub = SEARCHING_FOR_NEXT_DATAID /\ fdc'.sub = "WRITING_SECTOR"
  /\ fdc'.mark \in {MARK, DELETED} /\ WritesCell(7, fdc'.mark) /\ fdc'.index = 0
  /\ Requests /\ fdc'.type = 2
Stores ==
  /\ fdc.sub = "WRITING_SECTOR" /\ fdc.index \in 0 .. SectorLength - 1
  /\ WritesCell(8 + fdc.index, fdc.data) /\ fdc'.index = fdc.index + 1
  /\ fdc'.sub = IF fdc'.index = SectorLength THEN "WAIT_FOR_CRC1" ELSE "WRITING_SECTOR"
  /\ fdc'.crc = CRC(IF fdc.index = 0 THEN CRC(63, fdc.mark) ELSE fdc.crc, fdc.data)
  /\ Requests /\ Stays("mark") /\ fdc'.type = 2
Sums1 ==
  /\ fdc.sub = "WAIT_FOR_CRC1" /\ fdc'.sub = "WAIT_FOR_CRC2"
  /\ WritesCell(8 + SectorLength, fdc.crc \div 8)
  /\ Stays("crc") /\ Stays("status") /\ Stays("mark") /\ fdc'.type = 2
Sums2 ==
  /\ fdc.sub = "WAIT_FOR_CRC2" /\ fdc'.type = 0
  /\ WritesCell(9 + SectorLength, fdc.crc % 8)
  /\ Stays("crc") /\ Stays("status") /\ Stays("mark")

LEMMA WritesSectorIs ==
  ASSUME Inv, WritesSector
  PROVE  /\ fdc.type = 2 /\ fdc.stage = 3 /\ fdc'.stage = 3 /\ fdc.command = WRITE_SECTOR
         /\ prog' = prog /\ image' = image /\ Stays("data")
         /\ Stays("track") /\ Stays("sector") /\ Stays("at") /\ Stays("side")
         /\ Seeks \/ Marks \/ Stores \/ Sums1 \/ Sums2
<1> DEFINE f == Turned
           n == fdc.sector
<1>1. /\ Shapes /\ HeadInv /\ ProgramInv /\ WriteInv /\ Layout(disks)
      /\ fdc.type = 2 /\ fdc.stage = 3 /\ fdc.command = WRITE_SECTOR
  <2>1. /\ Shapes /\ HeadInv /\ ProgramInv /\ WriteInv /\ Layout(disks)
        /\ fdc.type \in {2, 3} /\ fdc.stage = 3 /\ fdc.command = WRITE_SECTOR
    BY DEF Inv, WritesSector, At
  <2>2. WRITE_SECTOR # READ_ADDRESS /\ WRITE_SECTOR # READ_TRACK /\ WRITE_SECTOR # WRITE_TRACK
    BY DEF WRITE_SECTOR, READ_ADDRESS, READ_TRACK, WRITE_TRACK
  <2>3. QED
    BY <2>1, <2>2 DEF HeadInv
<1>2. /\ Position /\ prog' = prog /\ image' = image
  BY <1>1 DEF WriteInv, WritesSector, Chip
<1>3. /\ DOMAIN f = FdcFields
      /\ f.type = fdc.type /\ f.stage = fdc.stage /\ f.command = fdc.command
      /\ f.status = fdc.status /\ f.track = fdc.track /\ f.sector = fdc.sector
      /\ f.data = fdc.data /\ f.at = fdc.at /\ f.side = fdc.side
      /\ f.sync = fdc.sync /\ f.sub = fdc.sub /\ f.index = fdc.index /\ f.deleted = fdc.deleted
      /\ f.crc = fdc.crc /\ f.mark = fdc.mark /\ f.offset \in 0 .. TrackLength
      /\ fdc.offset < TrackLength => f.offset = fdc.offset + 1
  BY <1>1, HeadGoesOn
<1> DEFINE mark == IF f.deleted THEN DELETED ELSE MARK
           crc  == CRC(IF f.index = 0 THEN CRC(63, f.mark) ELSE f.crc, f.data)
           last == f.index + 1 = SectorLength
           b == f.offset \in SyncCells
           status == f.status \union {"drq"} \union IF "drq" \in f.status THEN {"lost"} ELSE {}
           r == [f EXCEPT !.status = status]
           sub == IF last THEN "WAIT_FOR_CRC1" ELSE f.sub
           i == f.index + 1
<1>4. Requested(f) = r /\ Synced(f) = [f EXCEPT !.sync = b]
  BY <1>3 DEF Requested, Synced, FdcFields
<1>5. /\ DOMAIN r = FdcFields
      /\ r.type = f.type /\ r.stage = f.stage /\ r.offset = f.offset /\ r.index = f.index
      /\ r.track = f.track /\ r.sector = f.sector /\ r.at = f.at /\ r.side = f.side
      /\ r.sub = f.sub /\ r.mark = f.mark /\ r.data = f.data /\ r.status = status
  <2> HIDE DEF f, status
  <2>1. QED
    BY <1>3 DEF FdcFields
<1>6. \/ /\ fdc.sub = SEARCHING_FOR_NEXT_DATAID
         /\ IF f.sync /\ f.offset \notin SyncCells
            THEN /\ Writes(f, mark)
                 /\ fdc' = [[r EXCEPT !.sync = b] EXCEPT !.mark = mark, !.index = 0,
                                                          !.sub = "WRITING_SECTOR"]
            ELSE fdc' = [f EXCEPT !.sync = b] /\ disks' = disks
      \/ /\ fdc.sub = "WRITING_SECTOR" /\ Writes(f, f.data)
         /\ fdc' = [r EXCEPT !.crc = crc, !.index = i, !.sub = sub]
      \/ /\ fdc.sub = "WAIT_FOR_CRC1" /\ Writes(f, f.crc \div 8)
         /\ fdc' = [f EXCEPT !.sub = "WAIT_FOR_CRC2"]
      \/ /\ fdc.sub = "WAIT_FOR_CRC2" /\ Writes(f, f.crc % 8)
         /\ fdc' = Completed(f)
  <2>1. [r EXCEPT !.crc = crc, !.index = @ + 1, !.sub = IF last THEN "WAIT_FOR_CRC1" ELSE @]
          = [r EXCEPT !.crc = crc, !.index = i, !.sub = sub]
    <3> HIDE DEF r, f
    <3>1. QED
      BY <1>5 DEF FdcFields
  <2>2. Synced(Requested(f)) = [r EXCEPT !.sync = b]
    BY <1>4, <1>5 DEF Synced
  <2>3. \/ /\ fdc.sub = SEARCHING_FOR_NEXT_DATAID
           /\ IF f.sync /\ f.offset \notin SyncCells
              THEN /\ Writes(f, mark)
                   /\ fdc' = [Synced(Requested(f)) EXCEPT !.mark = mark, !.index = 0,
                                                          !.sub = "WRITING_SECTOR"]
              ELSE fdc' = Synced(f) /\ disks' = disks
        \/ /\ fdc.sub = "WRITING_SECTOR" /\ Writes(f, f.data)
           /\ fdc' = [Requested(f) EXCEPT !.crc = crc, !.index = @ + 1,
                         !.sub = IF last THEN "WAIT_FOR_CRC1" ELSE @]
        \/ /\ fdc.sub = "WAIT_FOR_CRC1" /\ Writes(f, f.crc \div 8)
           /\ fdc' = [f EXCEPT !.sub = "WAIT_FOR_CRC2"]
        \/ /\ fdc.sub = "WAIT_FOR_CRC2" /\ Writes(f, f.crc % 8)
           /\ fdc' = Completed(f)
    BY DEF WritesSector, Chip
  <2> HIDE DEF r, f, crc, mark, i, sub, b, last
  <2>4. QED
    BY <1>4, <2>1, <2>2, <2>3
<1>7. /\ mark \in {MARK, DELETED}
      /\ crc = CRC(IF fdc.index = 0 THEN CRC(63, fdc.mark) ELSE fdc.crc, fdc.data)
      /\ i = fdc.index + 1
      /\ sub = IF i = SectorLength THEN "WAIT_FOR_CRC1" ELSE fdc.sub
  <2> HIDE DEF f
  <2>1. QED
    BY <1>3
<1>8. /\ "drq" \in status /\ ("drq" \in fdc.status => "lost" \in status)
      /\ \A flag \in Flags \ {"drq", "lost"} : flag \in status <=> flag \in fdc.status
      /\ "lost" \in fdc.status => "lost" \in status
  BY <1>3
<1>9. \A c : Writes(f, c) <=> disks' = CellSet(disks, image, fdc.at, fdc.side, f.offset, c)
  BY <1>3 DEF Writes, CellSet
<1> HIDE DEF f, mark, crc, b, status, r, sub, i, last
<1>10. CASE fdc.sub = SEARCHING_FOR_NEXT_DATAID
  <2>1. \/ ~fdc.sync /\ (OfSector(4) \/ OfSector(5))
        \/ fdc.sync /\ OfSector(6)
    BY <1>2, <1>10 DEF Position
  <2>2. IF f.sync /\ f.offset \notin SyncCells
        THEN /\ Writes(f, mark)
             /\ fdc' = [[r EXCEPT !.sync = b] EXCEPT !.mark = mark, !.index = 0,
                                                      !.sub = "WRITING_SECTOR"]
        ELSE fdc' = [f EXCEPT !.sync = b] /\ disks' = disks
    BY <1>6, <1>10 DEF SEARCHING_FOR_NEXT_DATAID
  <2>3. CASE f.sync /\ f.offset \notin SyncCells
    <3>1. OfSector(6) /\ n \in Sectors /\ fdc.track = fdc.at
      BY <1>3, <2>1, <2>3 DEF OfSector
    <3>2. f.offset = Start(n) + 7
      BY <1>3, <3>1, SectorsOfTrack DEF OfSector
    <3>3. /\ fdc' = [[r EXCEPT !.sync = b] EXCEPT !.mark = mark, !.index = 0, !.sub = "WRITING_SECTOR"]
          /\ disks' = CellSet(disks, image, fdc.at, fdc.side, Start(n) + 7, mark)
      BY <1>9, <2>2, <2>3, <3>2
    <3>4. /\ fdc'.type = r.type /\ fdc'.stage = r.stage /\ fdc'.track = r.track
          /\ fdc'.sector = r.sector /\ fdc'.at = r.at /\ fdc'.side = r.side /\ fdc'.data = r.data
          /\ fdc'.mark = mark /\ fdc'.index = 0 /\ fdc'.sub = "WRITING_SECTOR"
          /\ fdc'.status = status
      BY <1>5, <3>3 DEF FdcFields
    <3>5. Marks
      BY <1>1, <1>3, <1>5, <1>7, <1>8, <1>10, <3>1, <3>3, <3>4 DEF Marks, WritesCell, Requests
    <3>6. QED
      BY <1>1, <1>2, <1>3, <1>5, <3>4, <3>5 DEF Stays
  <2>4. CASE ~(f.sync /\ f.offset \notin SyncCells)
    <3>1. fdc' = [f EXCEPT !.sync = b] /\ disks' = disks
      BY <2>2, <2>4
    <3>2. /\ fdc'.type = f.type /\ fdc'.stage = f.stage /\ fdc'.track = f.track
          /\ fdc'.sector = f.sector /\ fdc'.at = f.at /\ fdc'.side = f.side /\ fdc'.data = f.data
          /\ fdc'.mark = f.mark /\ fdc'.sub = f.sub /\ fdc'.status = f.status
      BY <1>3, <3>1 DEF FdcFields
    <3>3. QED
      BY <1>1, <1>2, <1>3, <1>10, <3>1, <3>2 DEF Seeks, Stays
  <2>5. QED
    BY <2>3, <2>4
<1>11. CASE fdc.sub = "WRITING_SECTOR"
  <2>1. fdc.index \in 0 .. SectorLength - 1 /\ OfSector(7 + fdc.index)
    BY <1>2, <1>11 DEF Position
  <2>2. n \in Sectors /\ fdc.track = fdc.at /\ fdc.offset = Start(n) + (7 + fdc.index)
    BY <2>1 DEF OfSector
  <2>3. f.offset = Start(n) + (8 + fdc.index)
    BY <1>3, <2>1, <2>2, SectorsOfTrack
  <2>4. /\ fdc' = [r EXCEPT !.crc = crc, !.index = i, !.sub = sub]
        /\ disks' = CellSet(disks, image, fdc.at, fdc.side, Start(n) + (8 + fdc.index), fdc.data)
    BY <1>3, <1>6, <1>9, <1>11, <2>3, SubStateNames
  <2>5. /\ fdc'.type = r.type /\ fdc'.stage = r.stage /\ fdc'.track = r.track
        /\ fdc'.sector = r.sector /\ fdc'.at = r.at /\ fdc'.side = r.side /\ fdc'.data = r.data
        /\ fdc'.mark = r.mark /\ fdc'.index = i /\ fdc'.sub = sub
        /\ fdc'.status = status /\ fdc'.crc = crc
    BY <1>5, <2>4 DEF FdcFields
  <2>6. Stores
    BY <1>1, <1>3, <1>5, <1>7, <1>8, <1>11, <2>1, <2>2, <2>4, <2>5
       DEF Stores, WritesCell, Requests, Stays
  <2>7. QED
    BY <1>1, <1>2, <1>3, <1>5, <2>5, <2>6 DEF Stays
<1>12. CASE fdc.sub = "WAIT_FOR_CRC1"
  <2>1. fdc.track = fdc.at /\ n \in Sectors /\ fdc.offset = Start(n) + (7 + SectorLength)
    BY <1>2, <1>12 DEF Position, OfSector
  <2>2. f.offset = Start(n) + (8 + SectorLength)
    BY <1>3, <2>1, SectorsOfTrack
  <2>3. /\ disks' = CellSet(disks, image, fdc.at, fdc.side, Start(n) + (8 + SectorLength), fdc.crc \div 8)
        /\ fdc' = [f EXCEPT !.sub = "WAIT_FOR_CRC2"]
    BY <1>3, <1>6, <1>9, <1>12, <2>2, SubStateNames
  <2>4. /\ fdc'.type = f.type /\ fdc'.stage = f.stage /\ fdc'.track = f.track
        /\ fdc'.sector = f.sector /\ fdc'.at = f.at /\ fdc'.side = f.side /\ fdc'.data = f.data
        /\ fdc'.mark = f.mark /\ fdc'.sub = "WAIT_FOR_CRC2" /\ fdc'.status = f.status
        /\ fdc'.crc = f.crc
    BY <1>3, <2>3 DEF FdcFields
  <2>5. QED
    BY <1>1, <1>2, <1>3, <1>12, <2>1, <2>3, <2>4 DEF Sums1, WritesCell, Stays
<1>13. CASE fdc.sub = "WAIT_FOR_CRC2"
  <2>1. fdc.track = fdc.at /\ n \in Sectors /\ fdc.offset = Start(n) + (8 + SectorLength)
    BY <1>2, <1>13 DEF Position, OfSector
  <2>2. f.offset = Start(n) + (9 + SectorLength)
    BY <1>3, <2>1, SectorsOfTrack
  <2>3. /\ disks' = CellSet(disks, image, fdc.at, fdc.side, Start(n) + (9 + SectorLength), fdc.crc % 8)
        /\ fdc' = Completed(f)
    BY <1>3, <1>6, <1>9, <1>13, <2>2, SubStateNames
  <2>4. /\ fdc'.type = 0 /\ fdc'.stage = f.stage /\ fdc'.track = f.track
        /\ fdc'.sector = f.sector /\ fdc'.at = f.at /\ fdc'.side = f.side /\ fdc'.data = f.data
        /\ fdc'.mark = f.mark /\ fdc'.status = f.status /\ fdc'.crc = f.crc
    BY <1>3, <2>3 DEF Completed, FdcFields
  <2>5. QED
    BY <1>1, <1>2, <1>3, <1>13, <2>1, <2>3, <2>4 DEF Sums2, WritesCell, Stays
<1>14. QED
  BY <1>6, <1>10, <1>11, <1>12, <1>13

\* A cell of the sector under the head, by its place in it.
Cell(k) == disks[image][fdc.at][fdc.side][Start(fdc.sector) + k]

LEMMA CellsAfter ==
  ASSUME Inv, NEW k \in 7 .. 9 + SectorLength, NEW b, WritesCell(k, b), image' = image,
         Stays("at"), Stays("side"), Stays("sector")
  PROVE  Cell(k)' = b /\ \A j \in 0 .. SectorCells - 1 : j # k => Cell(j)' = Cell(j)
<1> DEFINE n == fdc.sector
           o == Start(n) + k
<1>1. /\ DisksShape(disks) /\ image \in Images /\ fdc.at \in Tracks /\ fdc.side \in Sides
      /\ n \in Sectors /\ disks' = CellSet(disks, image, fdc.at, fdc.side, o, b)
  BY DEF Inv, Shapes, HeadInv, WritesCell
<1>2. k \in 0 .. SectorCells - 1 /\ o \in 0 .. TrackLength
  BY <1>1, SectorsOfTrack
<1> HIDE DEF o
<1>3. /\ disks'[image][fdc.at][fdc.side][o] = b
      /\ \A p \in 0 .. TrackLength :
           p # o => disks'[image][fdc.at][fdc.side][p] = disks[image][fdc.at][fdc.side][p]
  BY <1>1, <1>2, OneCell
<1>4. fdc'.at = fdc.at /\ fdc'.side = fdc.side /\ fdc'.sector = n
  BY DEF Stays
<1>5. \A j \in 0 .. SectorCells - 1 : Start(n) + j \in 0 .. TrackLength /\ (j # k => Start(n) + j # o)
  BY <1>1, <1>2, SectorsOfTrack DEF o
<1>6. Cell(k)' = b
  BY <1>3, <1>4 DEF Cell, o
<1>7. ASSUME NEW j \in 0 .. SectorCells - 1, j # k PROVE Cell(j)' = Cell(j)
  BY <1>3, <1>4, <1>5, <1>7 DEF Cell
<1>8. QED
  BY <1>6, <1>7

\* The first n bytes of the sector are the first the program gave, after a mark;
\* the sum has come over them.
Kept(n) ==
  /\ Cell(7) = fdc.mark /\ fdc.mark \in {MARK, DELETED}
  /\ n <= Len(prog.moved) /\ \A k \in 1 .. n : Cell(7 + k) = prog.moved[k]
SumOf(n) == CRCOf(fdc.mark, [k \in 1 .. n |-> prog.moved[k]])
Summed(n) == n > 0 => fdc.crc = SumOf(n)

NotWritten ==
  /\ fdc.type = 2 /\ fdc.sub \in HeaderStates \union {SEARCHING_FOR_NEXT_DATAID}
  /\ fdc.stage # 0 => "drq" \notin fdc.status
  /\ prog.moved = <<>>
Storing ==
  /\ fdc.type = 2 /\ fdc.stage = 3 /\ fdc.sub = "WRITING_SECTOR"
  /\ fdc.index \in 0 .. SectorLength - 1 /\ Kept(fdc.index) /\ Summed(fdc.index)
  /\ IF "drq" \in fdc.status THEN Len(prog.moved) = fdc.index
     ELSE Len(prog.moved) = fdc.index + 1 /\ fdc.data = prog.moved[fdc.index + 1]
Summing ==
  /\ fdc.type = 2 /\ fdc.stage = 3 /\ fdc.sub \in {"WAIT_FOR_CRC1", "WAIT_FOR_CRC2"}
  /\ Kept(SectorLength) /\ Summed(SectorLength)
  /\ fdc.sub = "WAIT_FOR_CRC2" => Cell(8 + SectorLength) = fdc.crc \div 8
AllWritten ==
  /\ fdc.type = 0 /\ fdc.track = fdc.at /\ fdc.sector \in Sectors
  /\ Kept(SectorLength) /\ Summed(SectorLength)
  /\ Cell(8 + SectorLength) = fdc.crc \div 8 /\ Cell(9 + SectorLength) = fdc.crc % 8

GivenInv ==
  prog.op = "write" /\ prog.at # "free" =>
    /\ prog.moved \in Seq(Given)
    /\ prog.at = "moving" => "drq" \in fdc.status
    /\ \/ "lost" \in fdc.status \/ "seek" \in fdc.status
       \/ fdc.type = 0 /\ "protect" \in fdc.status
       \/ NotWritten \/ Storing \/ Summing \/ AllWritten

\* A step that leaves what is written, what was given and what is asked for.
LEMMA GivenStays ==
  ASSUME GivenInv, disks' = disks, image' = image, prog'.op = prog.op,
         prog'.moved = prog.moved, prog.at # "free",
         Stays("type"), Stays("stage"), Stays("sub"), Stays("track"), Stays("sector"),
         Stays("at"), Stays("side"), Stays("index"), Stays("data"), Stays("crc"), Stays("mark"),
         \A flag \in {"drq", "lost", "seek", "protect"} : flag \in fdc'.status <=> flag \in fdc.status,
         prog'.at = "moving" => "drq" \in fdc.status
  PROVE  GivenInv'
<1> SUFFICES ASSUME prog.op = "write"
             PROVE  GivenInv'
  BY DEF GivenInv
<1> USE DEF Stays
<1>1. /\ prog.moved \in Seq(Given)
      /\ \/ "lost" \in fdc.status \/ "seek" \in fdc.status
         \/ fdc.type = 0 /\ "protect" \in fdc.status
         \/ NotWritten \/ Storing \/ Summing \/ AllWritten
  BY DEF GivenInv
<1>2. \A k : Cell(k)' = Cell(k)
  BY DEF Cell
<1>3. \A n : (Kept(n) => Kept(n)') /\ (Summed(n) => Summed(n)')
  BY <1>2 DEF Kept, Summed, SumOf
<1>4. NotWritten => NotWritten'
  BY DEF NotWritten
<1>5. Storing => Storing'
  <2>1. \A n : n = fdc.index => (Kept(n)' <=> Kept(fdc.index)') /\ (Summed(n)' <=> Summed(fdc.index)')
    BY DEF Kept, Summed, SumOf
  <2>2. QED
    BY <1>3, <2>1 DEF Storing
<1>6. Summing => Summing'
  BY <1>2, <1>3 DEF Summing
<1>7. AllWritten => AllWritten'
  BY <1>2, <1>3 DEF AllWritten
<1>8. QED
  BY <1>1, <1>4, <1>5, <1>6, <1>7 DEF GivenInv

LEMMA BusyGoesWrites == ASSUME FoundInv, GivenInv, BusyGoes PROVE GivenInv'
<1>1. DOMAIN fdc = FdcFields
  BY DEF FoundInv, Inv, Shapes
<1>2. /\ prog' = prog /\ disks' = disks /\ image' = image
      /\ fdc' = [fdc EXCEPT !.wait = FALSE, !.status = @ \ {"busy"}]
  BY DEF BusyGoes, Chip
<1>3. /\ Stays("type") /\ Stays("stage") /\ Stays("sub") /\ Stays("track") /\ Stays("sector")
      /\ Stays("at") /\ Stays("side") /\ Stays("index") /\ Stays("data") /\ Stays("crc")
      /\ Stays("mark") /\ fdc'.status = fdc.status \ {"busy"}
  BY <1>1, <1>2 DEF FdcFields, Stays
<1>4. CASE prog.at = "free"
  BY <1>2, <1>4 DEF GivenInv
<1>5. CASE prog.at # "free"
  BY <1>2, <1>3, <1>5, GivenStays DEF GivenInv
<1>6. QED
  BY <1>4, <1>5

\* While a write is under way the controller carries out no other command.
LEMMA OtherStepsWrite ==
  ASSUME FoundInv, Pulse \/ Moves \/ ReadsAddress \/ ReadsTrack \/ ReadsSector
  PROVE  GivenInv'
<1>1. prog' = prog
  BY DEF Pulse, Moves, ReadsAddress, ReadsTrack, ReadsSector, Chip
<1>2. fdc.type = 1 \/ fdc.command \in {READ_ADDRESS, READ_TRACK, READ_SECTOR}
  BY DEF Pulse, Moves, ReadsAddress, ReadsTrack, ReadsSector, At
<1>3. prog.op # "write" \/ prog.at = "free"
  BY <1>2 DEF FoundInv, AskInv, Asking, READ_SECTOR, WRITE_SECTOR, READ_TRACK, READ_ADDRESS
<1>4. QED
  BY <1>1, <1>3 DEF GivenInv

\* Nothing is asked for, or given, before the sector is found.
LEMMA BeginsWrites == ASSUME FoundInv, GivenInv, Begins \/ Settled PROVE GivenInv'
<1>1. prog' = prog /\ DOMAIN fdc = FdcFields /\ ProgramInv
  BY DEF FoundInv, Inv, Shapes, Begins, Settled, Chip
<1> SUFFICES ASSUME prog.op = "write", prog.at # "free"
             PROVE  /\ prog.at = "moving" => "drq" \in fdc'.status
                    /\ (fdc'.type = 0 /\ "protect" \in fdc'.status) \/ NotWritten'
  BY <1>1 DEF GivenInv
<1>2. fdc.type = 2 /\ fdc.command = WRITE_SECTOR /\ fdc.stage # 3 /\ NothingYet
  BY DEF FoundInv, AskInv, SearchInv, Asking, Begins, Settled
<1>3. NotWritten
  BY <1>2 DEF GivenInv, NothingYet, Storing, Summing, AllWritten
<1>4. fdc.sub = "SEARCHING_FOR_NEXT_ID" /\ prog.moved = <<>>
  BY <1>2, <1>3 DEF NothingYet, NotWritten
<1>5. prog.at # "moving"
  BY <1>1, <1>2, <1>3 DEF ProgramInv, GivenInv, NotWritten
<1>6. CASE Begins
  <2>1. fdc' = [fdc EXCEPT !.stage = 2, !.sync = FALSE, !.status = {"busy"}]
    <3>1. fdc' = [fdc EXCEPT !.stage = 2, !.sync = IF fdc.type = 1 THEN @ ELSE FALSE,
                             !.status = {"busy"} \union IF fdc.type = 1 /\ fdc.spin
                                                        THEN {"spinup"} ELSE {}]
      BY <1>6 DEF Begins, Chip
    <3>2. {"busy"} \union {} = {"busy"}
      OBVIOUS
    <3>3. QED
      BY <1>2, <3>1, <3>2
  <2>2. fdc'.type = 2 /\ fdc'.sub = fdc.sub /\ "drq" \notin fdc'.status
    BY <1>1, <1>2, <2>1 DEF FdcFields
  <2>3. QED
    BY <1>1, <1>4, <1>5, <2>2 DEF NotWritten, HeaderStates
<1>7. CASE Settled
  <2>1. \/ fdc' = Completed([fdc EXCEPT !.status = @ \union {"protect"}])
        \/ fdc' = [[fdc EXCEPT !.stage = 3] EXCEPT !.turns = 0]
    BY <1>2, <1>7 DEF Settled, Chip, WRITE_SECTOR, READ_TRACK, WRITE_TRACK, READ_ADDRESS
  <2>2. fdc.stage # 0
    BY <1>7 DEF Settled
  <2>3. CASE fdc' = Completed([fdc EXCEPT !.status = @ \union {"protect"}])
    BY <1>1, <1>5, <2>3 DEF Completed, FdcFields
  <2>4. CASE fdc' = [[fdc EXCEPT !.stage = 3] EXCEPT !.turns = 0]
    <3>1. fdc'.type = 2 /\ fdc'.sub = fdc.sub /\ fdc'.status = fdc.status
      BY <1>1, <1>2, <2>4 DEF FdcFields
    <3>2. QED
      BY <1>1, <1>3, <1>4, <1>5, <2>2, <3>1 DEF NotWritten
  <2>5. QED
    BY <2>1, <2>3, <2>4
<1>8. QED
  BY <1>6, <1>7

LEMMA SearchesHeaderWrites == ASSUME FoundInv, GivenInv, SearchesHeader PROVE GivenInv'
<1> DEFINE f == Turned
<1>1. /\ Shapes /\ HeadInv /\ Layout(disks) /\ fdc.stage = 3 /\ fdc.sub \in HeaderStates
      /\ prog' = prog /\ fdc' = Header(f)
  BY DEF FoundInv, Inv, SearchesHeader, At, Chip
<1> SUFFICES ASSUME prog.op = "write", prog.at # "free"
             PROVE  /\ prog.at = "moving" => "drq" \in fdc'.status
                    /\ "lost" \in fdc'.status \/ "seek" \in fdc'.status \/ NotWritten'
  BY <1>1 DEF GivenInv
<1>2. fdc.type = 2 /\ HeaderPosition
  BY <1>1 DEF FoundInv, AskInv, SearchInv, Asking, SearchesHeader, At
<1>3. /\ DOMAIN f = FdcFields /\ f.type = 2 /\ f.stage = 3 /\ f.status = fdc.status
      /\ f.sub = fdc.sub
  BY <1>1, <1>2, HeadGoesOn
<1> HIDE DEF f
<1>4. \/ fdc'.status = fdc.status /\ fdc'.type = 2
      \/ fdc'.status = fdc.status \union {"seek"}
  BY <1>1, <1>3, GivenUp
<1>5. CASE "lost" \in fdc.status \/ "seek" \in fdc.status \/ "seek" \in fdc'.status
  BY <1>4, <1>5 DEF GivenInv
<1>6. CASE ~("lost" \in fdc.status \/ "seek" \in fdc.status \/ "seek" \in fdc'.status)
  <2>1. fdc'.status = fdc.status /\ fdc'.type = 2 /\ fdc'.stage = 3
    BY <1>1, <1>3, <1>4, <1>6, HeaderIs
  <2>2. NotWritten
    BY <1>1, <1>2, <1>6 DEF GivenInv, Storing, Summing, AllWritten, HeaderStates
  <2>3. fdc'.sub \in HeaderStates \union {SEARCHING_FOR_NEXT_DATAID}
    BY <1>1, <1>2, <2>1, SearchesOn DEF f
  <2>4. QED
    BY <1>1, <2>1, <2>2, <2>3 DEF NotWritten, GivenInv
<1>7. QED
  BY <1>5, <1>6

LEMMA PollWrites == ASSUME FoundInv, GivenInv, Poll PROVE GivenInv'
<1> DEFINE far == fdc.command >= READ_SECTOR
           at == IF prog.at = "rising" THEN IF "busy" \in fdc.status THEN "running" ELSE prog.at
                 ELSE IF "busy" \notin fdc.status THEN "free"
                 ELSE IF "drq" \in fdc.status /\ far THEN "moving"
                 ELSE prog.at
<1>1. /\ fdc' = fdc /\ disks' = disks /\ image' = image /\ DOMAIN prog = ProgFields
      /\ prog.at \in {"rising", "running"}
  BY DEF Poll, FoundInv, Inv, Shapes
<1>2. prog' = [prog EXCEPT !.seen = fdc.status, !.at = at]
  BY <1>1 DEF Poll, ProgFields
<1>3. at = "moving" => "drq" \in fdc.status
  BY <1>1
<1> HIDE DEF at
<1>4. prog'.op = prog.op /\ prog'.moved = prog.moved /\ prog'.at = at
  BY <1>1, <1>2 DEF ProgFields
<1>5. QED
  BY <1>1, <1>3, <1>4, GivenStays DEF Stays

LEMMA CommandWrites ==
  ASSUME FoundInv, NEW c \in Commands, Command(c)
  PROVE  GivenInv'
<1>1. CASE prog'.op # "write"
  BY <1>1 DEF GivenInv
<1>2. CASE prog'.op = "write"
  <2>1. /\ prog'.at = "rising" /\ prog'.moved = <<>> /\ fdc'.type = 2 /\ fdc'.stage = 0
        /\ fdc'.sub = "SEARCHING_FOR_NEXT_ID"
    BY <1>2, CommandIs DEF FoundInv
  <2>2. <<>> \in Seq(Given)
    OBVIOUS
  <2>3. QED
    BY <2>1, <2>2 DEF GivenInv, NotWritten, HeaderStates
<1>3. QED
  BY <1>1, <1>2

\* A byte given is kept behind those given before.
LEMMA WriteDataWrites ==
  ASSUME FoundInv, GivenInv, NEW b \in Given, WriteData(b)
  PROVE  GivenInv'
<1> DEFINE status == fdc.status \ {"drq"}
           moved == Append(prog.moved, b)
<1>1. /\ DOMAIN fdc = FdcFields /\ DOMAIN prog = ProgFields /\ prog.at = "moving"
      /\ prog.op = "write" /\ disks' = disks /\ image' = image /\ ProgramInv
      /\ fdc' = [fdc EXCEPT !.data = b, !.status = status]
      /\ prog' = [prog EXCEPT !.at = "running", !.moved = moved]
  BY DEF FoundInv, Inv, Shapes, WriteData, ProgFields
<1>2. "drq" \notin status /\ \A flag \in {"lost", "seek", "protect"} : flag \in fdc.status => flag \in status
  OBVIOUS
<1>3. /\ prog.moved \in Seq(Given) /\ "drq" \in fdc.status
      /\ \/ "lost" \in fdc.status \/ "seek" \in fdc.status
         \/ fdc.type = 0 /\ "protect" \in fdc.status
         \/ NotWritten \/ Storing \/ Summing \/ AllWritten
  BY <1>1 DEF GivenInv
<1>4. /\ moved \in Seq(Given) /\ Len(moved) = Len(prog.moved) + 1
      /\ \A k \in 1 .. Len(prog.moved) : moved[k] = prog.moved[k]
      /\ moved[Len(prog.moved) + 1] = b
  BY <1>3, AppendProperties
<1>5. Len(prog.moved) \in Nat
  BY <1>3
<1> HIDE DEF moved, status
<1>6. prog'.at = "running" /\ prog'.op = "write" /\ prog'.moved = moved
  BY <1>1 DEF ProgFields
<1>7. /\ fdc'.type = fdc.type /\ fdc'.stage = fdc.stage /\ fdc'.sub = fdc.sub
      /\ fdc'.track = fdc.track /\ fdc'.sector = fdc.sector
      /\ fdc'.at = fdc.at /\ fdc'.side = fdc.side /\ fdc'.index = fdc.index
      /\ fdc'.crc = fdc.crc /\ fdc'.mark = fdc.mark /\ fdc'.data = b /\ fdc'.status = status
  BY <1>1 DEF FdcFields
<1>8. ~NotWritten
  BY <1>1, <1>3 DEF ProgramInv, NotWritten
<1>9. \A k : Cell(k)' = Cell(k)
  BY <1>1, <1>7 DEF Cell
<1>10. ASSUME NEW n \in Nat, Kept(n) PROVE Kept(n)' /\ (Summed(n) => Summed(n)')
  <2>1. n <= Len(prog.moved) /\ \A k \in 1 .. n : k \in 1 .. Len(prog.moved)
    BY <1>5, <1>10 DEF Kept
  <2>2. \A k \in 1 .. n : prog'.moved[k] = prog.moved[k]
    BY <1>4, <1>6, <2>1
  <2>3. n <= Len(prog'.moved)
    BY <1>4, <1>5, <1>6, <2>1
  <2>4. Kept(n)'
    BY <1>7, <1>9, <1>10, <2>2, <2>3 DEF Kept
  <2>5. [k \in 1 .. n |-> prog'.moved[k]] = [k \in 1 .. n |-> prog.moved[k]]
    BY <2>2
  <2>6. Summed(n) => Summed(n)'
    BY <1>7, <2>5 DEF Summed, SumOf
  <2>7. QED
    BY <2>4, <2>6
<1>11. SectorLength \in Nat
  BY SectorsOfTrack
<1>12. CASE Storing
  <2>1. /\ fdc.index \in Nat /\ Kept(fdc.index) /\ Summed(fdc.index) /\ Len(prog.moved) = fdc.index
    BY <1>3, <1>11, <1>12 DEF Storing
  <2>2. \A n : n = fdc.index => Kept(n)' /\ Summed(n)'
    <3>1. \A n : n = fdc.index => n \in Nat /\ Kept(n) /\ Summed(n)
      BY <2>1
    <3>2. QED
      BY <1>10, <3>1
  <2>3. \A n : n = fdc'.index => (Kept(n)' => Kept(fdc.index)') /\ (Summed(n)' => Summed(fdc.index)')
    BY DEF Kept, Summed, SumOf
  <2>4. Storing'
    BY <1>2, <1>4, <1>6, <1>7, <1>12, <2>1, <2>2, <2>3 DEF Storing
  <2>5. QED
    BY <1>4, <1>6, <2>4 DEF GivenInv
<1>13. CASE Summing
  <2>1. Kept(SectorLength)' /\ Summed(SectorLength)'
    BY <1>10, <1>11, <1>13 DEF Summing
  <2>2. Summing'
    BY <1>7, <1>9, <1>13, <2>1 DEF Summing
  <2>3. QED
    BY <1>4, <1>6, <2>2 DEF GivenInv
<1>14. CASE AllWritten
  <2>1. Kept(SectorLength)' /\ Summed(SectorLength)'
    BY <1>10, <1>11, <1>14 DEF AllWritten
  <2>2. AllWritten'
    BY <1>7, <1>9, <1>14, <2>1 DEF AllWritten
  <2>3. QED
    BY <1>4, <1>6, <2>2 DEF GivenInv
<1>15. QED
  BY <1>2, <1>3, <1>4, <1>6, <1>7, <1>8, <1>12, <1>13, <1>14 DEF GivenInv

\* The sum over one byte more.
LEMMA SummedOn ==
  ASSUME NEW n \in Nat, NEW s \in Seq(Int), n < Len(s), NEW mark \in Int, NEW crc,
         n > 0 => crc = CRCOf(mark, [k \in 1 .. n |-> s[k]])
  PROVE  CRCOf(mark, [k \in 1 .. n + 1 |-> s[k]])
           = CRC(IF n = 0 THEN CRC(63, mark) ELSE crc, s[n + 1])
<1>1. \A k \in 1 .. n + 1 : s[k] \in Int
  OBVIOUS
<1>2. CRCOf(mark, [k \in 1 .. n + 1 |-> s[k]]) = CRC(CRCOf(mark, [k \in 1 .. n |-> s[k]]), s[n + 1])
  BY <1>1, SumGrows
<1>3. CASE n = 0
  <2>1. [k \in 1 .. n |-> s[k]] = <<>>
    BY <1>3
  <2>2. QED
    BY <1>2, <1>3, <2>1, SumOfNone
<1>4. CASE n # 0
  BY <1>2, <1>4
<1>5. QED
  BY <1>3, <1>4

\* The bytes kept stay when a later cell is written.
LEMMA KeptOn ==
  ASSUME NEW n \in Nat, n <= SectorLength, Kept(n), NEW k, k > 7 + n, prog' = prog, Stays("mark"),
         \A j \in 0 .. SectorCells - 1 : j # k => Cell(j)' = Cell(j)
  PROVE  Kept(n)' /\ (Stays("crc") /\ Summed(n) => Summed(n)')
<1>1. /\ 7 \in 0 .. SectorCells - 1 /\ 7 # k
      /\ \A j \in 1 .. n : 7 + j \in 0 .. SectorCells - 1 /\ 7 + j # k
  BY SectorsOfTrack
<1>2. Cell(7)' = Cell(7) /\ \A j \in 1 .. n : Cell(7 + j)' = Cell(7 + j)
  BY <1>1
<1>3. Kept(n)'
  BY <1>2 DEF Kept, Stays
<1>4. Stays("crc") /\ Summed(n) => Summed(n)'
  BY DEF Summed, SumOf, Stays
<1>5. QED
  BY <1>3, <1>4

\* The mark is written first, then each byte given, and the sum over both.
LEMMA WritesSectorWrites == ASSUME FoundInv, GivenInv, WritesSector PROVE GivenInv'
<1>1. /\ Inv /\ fdc.type = 2 /\ fdc.stage = 3 /\ fdc'.stage = 3
      /\ prog' = prog /\ image' = image /\ Stays("data")
      /\ Stays("track") /\ Stays("sector") /\ Stays("at") /\ Stays("side")
      /\ Seeks \/ Marks \/ Stores \/ Sums1 \/ Sums2
  BY WritesSectorIs DEF FoundInv
<1> SUFFICES ASSUME prog.op = "write", prog.at # "free"
             PROVE  /\ prog.at = "moving" => "drq" \in fdc'.status
                    /\ \/ "lost" \in fdc'.status \/ "seek" \in fdc'.status
                       \/ NotWritten' \/ Storing' \/ Summing' \/ AllWritten'
  BY <1>1 DEF GivenInv
<1>2. /\ prog.moved \in Seq(Given) /\ (prog.at = "moving" => "drq" \in fdc.status)
      /\ \/ "lost" \in fdc.status \/ "seek" \in fdc.status
         \/ NotWritten \/ Storing \/ Summing
  BY <1>1 DEF GivenInv, AllWritten
<1>3. /\ "drq" \in fdc.status => "drq" \in fdc'.status
      /\ "lost" \in fdc.status => "lost" \in fdc'.status
      /\ "seek" \in fdc.status => "seek" \in fdc'.status
  <2>1. "seek" \in Flags \ {"drq", "lost"}
    BY DEF Flags
  <2>2. QED
    BY <1>1, <2>1 DEF Seeks, Marks, Stores, Sums1, Sums2, Requests, Stays
<1>4. CASE "lost" \in fdc.status \/ "seek" \in fdc.status
  BY <1>2, <1>3, <1>4
<1>5. ASSUME "lost" \notin fdc.status, "seek" \notin fdc.status
      PROVE  NotWritten \/ Storing \/ Summing
  BY <1>2, <1>5
<1>6. SectorLength \in Nat /\ SectorLength >= 1 /\ SectorCells = SectorLength + 11
  BY SectorsOfTrack
<1>7. ASSUME "lost" \notin fdc.status, "seek" \notin fdc.status, Seeks PROVE NotWritten'
  <2>1. NotWritten
    BY <1>5, <1>7 DEF Seeks, Storing, Summing, SEARCHING_FOR_NEXT_DATAID
  <2>2. QED
    BY <1>1, <1>7, <2>1 DEF Seeks, NotWritten, Stays
<1>8. ASSUME "lost" \notin fdc.status, "seek" \notin fdc.status, Marks PROVE Storing'
  <2>1. NotWritten
    BY <1>5, <1>8 DEF Marks, Storing, Summing, SEARCHING_FOR_NEXT_DATAID
  <2>2. Cell(7)' = fdc'.mark /\ fdc'.mark \in {MARK, DELETED}
    <3>1. 7 \in 7 .. 9 + SectorLength
      BY <1>6
    <3>2. \A b : b = fdc'.mark => WritesCell(7, b)
      BY <1>8 DEF Marks, WritesCell
    <3>3. \A b : WritesCell(7, b) => Cell(7)' = b
      BY <1>1, <3>1, CellsAfter
    <3>4. QED
      BY <1>8, <3>2, <3>3 DEF Marks
  <2>3. Len(prog.moved) = 0 /\ fdc'.index = 0 /\ 0 \in 0 .. SectorLength - 1
    BY <1>6, <1>8, <2>1 DEF Marks, NotWritten
  <2>4. Kept(fdc.index)' /\ Summed(fdc.index)'
    BY <1>1, <2>2, <2>3 DEF Kept, Summed
  <2>5. QED
    BY <1>1, <1>8, <2>3, <2>4 DEF Storing, Marks, Requests
<1>9. ASSUME "lost" \notin fdc.status, "seek" \notin fdc.status, Stores
      PROVE  "lost" \in fdc'.status \/ Storing' \/ Summing'
  <2>1. Storing
    BY <1>5, <1>9 DEF Stores, NotWritten, Summing, HeaderStates, SEARCHING_FOR_NEXT_DATAID
  <2>2. CASE "drq" \in fdc.status
    BY <1>9, <2>2 DEF Stores, Requests
  <2>3. CASE "drq" \notin fdc.status
    <3>1. PICK n \in 0 .. SectorLength - 1 : n = fdc.index
      BY <2>1 DEF Storing
    <3>2. /\ Kept(n) /\ Summed(n)
          /\ Len(prog.moved) = n + 1 /\ fdc.data = prog.moved[n + 1]
          /\ WritesCell(8 + n, fdc.data) /\ fdc'.index = n + 1 /\ Stays("mark")
          /\ fdc'.crc = CRC(IF n = 0 THEN CRC(63, fdc.mark) ELSE fdc.crc, fdc.data)
      BY <1>9, <2>1, <2>3, <3>1 DEF Storing, Stores
    <3>3. /\ 8 + n \in 7 .. 9 + SectorLength /\ n \in Nat /\ n <= SectorLength /\ 8 + n > 7 + n
          /\ n + 1 <= SectorLength /\ n + 1 \in Nat /\ 8 + n = 7 + (n + 1)
      BY <1>6
    <3>4. Cell(8 + n)' = fdc.data /\ \A j \in 0 .. SectorCells - 1 : j # 8 + n => Cell(j)' = Cell(j)
      BY <1>1, <3>2, <3>3, CellsAfter
    <3>5. Kept(n)'
      BY <1>1, <3>2, <3>3, <3>4, KeptOn
    <3>6. Kept(n + 1)'
      <4>1. \A k \in 1 .. n + 1 : k \in 1 .. n \/ k = n + 1
        BY <3>3
      <4>2. \A k \in 1 .. n + 1 : Cell(7 + k)' = prog'.moved[k]
        BY <1>1, <3>2, <3>3, <3>4, <3>5, <4>1 DEF Kept
      <4>3. QED
        BY <1>1, <3>2, <3>3, <3>5, <4>2 DEF Kept
    <3>7. Summed(n + 1)'
      <4>1. prog.moved \in Seq(Int) /\ n < Len(prog.moved) /\ fdc.mark \in Int
        <5>1. Given \subseteq Int
          BY DiskAssumption
        <5>2. Len(prog.moved) \in Nat /\ \A k \in 1 .. Len(prog.moved) : prog.moved[k] \in Given
          BY <1>2
        <5>3. ASSUME NEW s \in Seq(Given) PROVE s \in Seq(Int)
          <6>1. s \in [1 .. Len(s) -> Given] /\ Len(s) \in Nat
            OBVIOUS
          <6>2. s \in [1 .. Len(s) -> Int]
            BY <5>1, <6>1
          <6>3. QED
            BY <6>1, <6>2
        <5>4. n < n + 1
          BY <3>3
        <5>5. fdc.mark \in Int
          BY <3>2 DEF Kept, MARK, DELETED
        <5>6. QED
          BY <1>2, <3>2, <5>3, <5>4, <5>5
      <4>2. n > 0 => fdc.crc = CRCOf(fdc.mark, [k \in 1 .. n |-> prog.moved[k]])
        BY <3>2 DEF Summed, SumOf
      <4>3. fdc'.crc = CRCOf(fdc.mark, [k \in 1 .. n + 1 |-> prog.moved[k]])
        <5> DEFINE s == prog.moved
                   mark == fdc.mark
                   crc == fdc.crc
        <5>1. CRCOf(mark, [k \in 1 .. n + 1 |-> s[k]]) = CRC(IF n = 0 THEN CRC(63, mark) ELSE crc, s[n + 1])
          <6> HIDE DEF s, mark, crc
          <6>1. /\ s \in Seq(Int) /\ n < Len(s) /\ mark \in Int
                /\ n > 0 => crc = CRCOf(mark, [k \in 1 .. n |-> s[k]])
            BY <4>1, <4>2 DEF s, mark, crc
          <6>2. QED
            BY <3>3, <6>1, SummedOn
        <5>2. QED
          BY <3>2, <5>1
      <4>4. QED
        BY <1>1, <3>2, <4>3 DEF Summed, SumOf, Stays
    <3>8. \A m : m = fdc'.index => (Kept(m)' => Kept(fdc.index)') /\ (Summed(m)' => Summed(fdc.index)')
      BY DEF Kept, Summed, SumOf
    <3>9. fdc'.type = 2 /\ "drq" \in fdc'.status /\ Len(prog'.moved) = fdc'.index
          /\ fdc'.sub = IF n + 1 = SectorLength THEN "WAIT_FOR_CRC1" ELSE "WRITING_SECTOR"
      BY <1>1, <1>9, <3>2 DEF Stores, Requests
    <3>10. CASE n + 1 = SectorLength
      <4>1. Kept(SectorLength)' /\ Summed(SectorLength)'
        BY <3>6, <3>7, <3>10
      <4>2. QED
        BY <1>1, <3>9, <3>10, <4>1 DEF Summing
    <3>11. CASE n + 1 # SectorLength
      <4>1. Kept(fdc.index)' /\ Summed(fdc.index)' /\ fdc'.index \in 0 .. SectorLength - 1
        <5>1. n + 1 \in 0 .. SectorLength - 1
          BY <1>6, <3>3, <3>11
        <5>2. Kept(fdc.index)' /\ Summed(fdc.index)'
          BY <3>2, <3>6, <3>7, <3>8, Zenon
        <5>3. QED
          BY <3>2, <5>1, <5>2
      <4>2. QED
        BY <1>1, <3>9, <3>11, <4>1 DEF Storing
    <3>12. QED
      BY <3>10, <3>11
  <2>4. QED
    BY <2>2, <2>3
<1>10. ASSUME "lost" \notin fdc.status, "seek" \notin fdc.status, Sums1 PROVE Summing'
  <2>1. Summing
    BY <1>5, <1>10 DEF Sums1, NotWritten, Storing, HeaderStates, SEARCHING_FOR_NEXT_DATAID
  <2> DEFINE k == 8 + SectorLength
  <2>2. k \in 7 .. 9 + SectorLength /\ SectorLength <= SectorLength /\ k > 7 + SectorLength
    BY <1>6
  <2>3. Cell(k)' = fdc.crc \div 8 /\ \A j \in 0 .. SectorCells - 1 : j # k => Cell(j)' = Cell(j)
    BY <1>1, <1>10, <2>2, CellsAfter DEF Sums1
  <2>4. Kept(SectorLength)' /\ Summed(SectorLength)'
    BY <1>1, <1>6, <1>10, <2>1, <2>2, <2>3, KeptOn DEF Summing, Sums1
  <2>5. QED
    BY <1>1, <1>10, <2>3, <2>4 DEF Summing, Sums1, Stays
<1>11. ASSUME "lost" \notin fdc.status, "seek" \notin fdc.status, Sums2 PROVE AllWritten'
  <2>1. Summing /\ Cell(8 + SectorLength) = fdc.crc \div 8
    BY <1>5, <1>11 DEF Sums2, NotWritten, Storing, Summing, HeaderStates, SEARCHING_FOR_NEXT_DATAID
  <2> DEFINE k == 9 + SectorLength
  <2>2. /\ k \in 7 .. 9 + SectorLength /\ SectorLength <= SectorLength /\ k > 7 + SectorLength
        /\ 8 + SectorLength \in 0 .. SectorCells - 1 /\ 8 + SectorLength # k
    BY <1>6
  <2>3. Cell(k)' = fdc.crc % 8 /\ \A j \in 0 .. SectorCells - 1 : j # k => Cell(j)' = Cell(j)
    BY <1>1, <1>11, <2>2, CellsAfter DEF Sums2
  <2>4. Kept(SectorLength)' /\ Summed(SectorLength)'
    BY <1>1, <1>6, <1>11, <2>1, <2>2, <2>3, KeptOn DEF Summing, Sums2
  <2>5. fdc'.track = fdc'.at /\ fdc'.sector \in Sectors
    BY <1>1, <1>11 DEF Sums2, WritesCell, Stays
  <2>6. QED
    BY <1>1, <1>11, <2>1, <2>2, <2>3, <2>4, <2>5 DEF AllWritten, Sums2, Stays
<1>12. QED
  BY <1>1, <1>2, <1>3, <1>4, <1>7, <1>8, <1>9, <1>10, <1>11

\* What of a sector no write changes is as it was laid out.
Around == 0 .. 6 \union {10 + SectorLength}
Framed(d) ==
  \A i \in Images, t \in Tracks, side \in Sides, s \in Sectors : \A k \in Around :
    d[i][t][side][Start(s) + k] = OpenD81(i)[t][side][Start(s) + k]

LEMMA FramedStays ==
  ASSUME Inv, WritesItsSector, Framed(disks)
  PROVE  Framed(disks')
<1>1. CASE disks' = disks
  BY <1>1
<1>2. CASE disks' # disks
  <2>1. /\ fdc.sector \in Sectors /\ DisksShape(disks) /\ image \in Images
        /\ fdc.at \in Tracks /\ fdc.side \in Sides
    BY <1>2 DEF WritesItsSector, Inv, Shapes, HeadInv
  <2>2. PICK k \in 7 .. 9 + SectorLength : \E b :
          disks' = CellSet(disks, image, fdc.at, fdc.side, Start(fdc.sector) + k, b)
    BY <1>2 DEF WritesItsSector
  <2>3. PICK b : disks' = CellSet(disks, image, fdc.at, fdc.side, Start(fdc.sector) + k, b)
    BY <2>2
  <2> DEFINE o == Start(fdc.sector) + k
  <2>4. k \in 0 .. SectorCells - 1 /\ o \in 0 .. TrackLength
    BY <2>1, SectorsOfTrack
  <2>5. \A s \in Sectors, j \in Around : Start(s) + j \in 0 .. TrackLength /\ Start(s) + j # o
    <3>1. \A j \in Around : j \in 0 .. SectorCells - 1 /\ j # k
      BY SectorsOfTrack DEF Around
    <3>2. QED
      BY <2>1, <2>4, <3>1, SectorsOfTrack
  <2> HIDE DEF o
  <2>6. \A j \in Images, u \in Tracks, v \in Sides, p \in 0 .. TrackLength :
          p # o => disks'[j][u][v][p] = disks[j][u][v][p]
    BY <2>1, <2>3, <2>4, OneCell DEF o
  <2>7. QED
    BY <2>5, <2>6 DEF Framed
<1>3. QED
  BY <1>1, <1>2

\* A sector written to its end is one as OpenD81 lays them out, with the bytes given.
LEMMA WrittenIsSector ==
  ASSUME Inv, Framed(disks), AllWritten, prog.moved \in Seq(Given)
  PROVE  /\ Len(prog.moved) >= SectorLength
         /\ [k \in 1 .. SectorCells |-> Cell(k - 1)]
              = Sector(fdc.at, fdc.side, fdc.sector, fdc.mark, SubSeq(prog.moved, 1, SectorLength))
<1> DEFINE l == SectorLength
           s == prog.moved
           data == SubSeq(s, 1, l)
           mark == fdc.mark
           t == fdc.at
           side == fdc.side
           n == fdc.sector
           all == Sector(t, side, n, mark, data)
<1>1. l \in Nat /\ l >= 1 /\ SectorCells = l + 11 /\ Len(s) >= l /\ Len(s) \in Nat /\ s \in Seq(Given)
  <2>1. l \in Nat /\ l >= 1 /\ SectorCells = l + 11
    BY SectorsOfTrack
  <2>2. l <= Len(s)
    BY DEF AllWritten, Kept
  <2>3. Len(s) \in Nat
    OBVIOUS
  <2>4. QED
    BY <2>1, <2>2, <2>3
<1>2. /\ t \in Tracks /\ side \in Sides /\ image \in Images /\ n \in Sectors
      /\ t \in Int /\ side \in Int /\ n \in Int /\ mark \in Int
  <2>1. t \in Tracks /\ side \in Sides /\ image \in Images
    BY DEF Inv, HeadInv
  <2>2. n \in Sectors /\ mark \in {MARK, DELETED}
    BY DEF AllWritten, Kept
  <2> HIDE DEF t, side, n, mark
  <2>3. t \in Int /\ side \in Int /\ n \in Int
    BY <2>1, <2>2, DiskAssumption DEF Tracks, Sides, Sectors
  <2>4. mark \in Int
    BY <2>2 DEF MARK, DELETED
  <2>5. QED
    BY <2>1, <2>2, <2>3, <2>4
<1>3. \A k \in 1 .. l : s[k] \in Given
  BY <1>1
<1>4. /\ data \in Seq(Given) /\ Len(data) = l /\ \A k \in 1 .. l : data[k] = s[k]
      /\ data = [k \in 1 .. l |-> s[k]]
  <2> HIDE DEF l, s
  <2>1. /\ data \in Seq(Given) /\ Len(data) = IF 1 <= l THEN l - 1 + 1 ELSE 0
        /\ \A k \in 1 .. l - 1 + 1 : data[k] = s[1 + k - 1]
    <3>1. \A k \in 1 .. l : s[k] \in Given
      BY <1>3 DEF l, s
    <3>2. QED
      BY <1>1, <3>1, SubSeqProperties
  <2>2. Len(data) = l /\ \A k \in 1 .. l : data[k] = s[k]
    BY <1>1, <2>1
  <2> HIDE DEF data
  <2>3. data = [k \in 1 .. Len(data) |-> data[k]]
    BY <2>1
  <2>4. QED
    BY <2>1, <2>2, <2>3
<1>5. data \in Seq(Int)
  <2>1. Given \subseteq Int
    BY DiskAssumption
  <2> HIDE DEF data, l, s
  <2>2. data \in [1 .. l -> Given]
    <3>1. data \in Seq(Given) /\ Len(data) = l
      BY <1>4
    <3>2. QED
      BY <3>1
  <2>3. QED
    BY <1>1, <2>1, <2>2, BytesAreSeq, Zenon
<1>6. SectorCellsAre(all, t, side, n, mark, data)
  <2> HIDE DEF t, side, n, mark, data
  <2>1. QED
    BY <1>2, <1>4, <1>5, SectorIs, Zenon DEF l
<1>7. /\ Cell(0) = SYNC /\ Cell(1) = ID /\ Cell(2) = t /\ Cell(3) = side /\ Cell(4) = n
      /\ Cell(5) = GAP /\ Cell(6) = SYNC /\ Cell(10 + l) = GAP
  <2>1. \A k \in Around : Cell(k) = OpenD81(image)[t][side][Start(n) + k]
    BY <1>2 DEF Framed, Cell
  <2>2. {0, 1, 2, 3, 4, 5, 6, 10 + l} \subseteq Around /\ Start(n) + 0 = Start(n)
    BY <1>1, <1>2, SectorsOfTrack DEF Around
  <2> DEFINE first == OpenD81(image)[t][side]
  <2>3. /\ Cell(0) = first[Start(n)] /\ Cell(1) = first[Start(n) + 1]
        /\ Cell(2) = first[Start(n) + 2] /\ Cell(3) = first[Start(n) + 3]
        /\ Cell(4) = first[Start(n) + 4] /\ Cell(5) = first[Start(n) + 5]
        /\ Cell(6) = first[Start(n) + 6] /\ Cell(10 + l) = first[Start(n) + (10 + l)]
    <3> HIDE DEF first, l, t, side, n
    <3>1. \A k \in Around : Cell(k) = first[Start(n) + k]
      BY <2>1 DEF first
    <3>2. QED
      BY <2>2, <3>1
  <2>4. /\ first[Start(n)] = SYNC /\ first[Start(n) + 1] = ID /\ first[Start(n) + 2] = t
        /\ first[Start(n) + 3] = side /\ first[Start(n) + 4] = n /\ first[Start(n) + 5] = GAP
        /\ first[Start(n) + 6] = SYNC /\ first[Start(n) + (10 + l)] = GAP
    <3>1. image \in Images /\ t \in Tracks /\ side \in Sides /\ n \in Sectors
      BY <1>2
    <3> DEFINE i == image
    <3> HIDE DEF t, side, n, i
    <3>2. i \in Images
      BY <3>1 DEF i
    <3>3. /\ OpenD81(i)[t][side][Start(n)] = SYNC
          /\ OpenD81(i)[t][side][Start(n) + 1] = ID
          /\ OpenD81(i)[t][side][Start(n) + 2] = t
          /\ OpenD81(i)[t][side][Start(n) + 3] = side
          /\ OpenD81(i)[t][side][Start(n) + 4] = n
          /\ OpenD81(i)[t][side][Start(n) + 5] = GAP
          /\ OpenD81(i)[t][side][Start(n) + 6] = SYNC
          /\ OpenD81(i)[t][side][Start(n) + (10 + SectorLength)] = GAP
      BY <3>1, <3>2, LaidOut
    <3>4. QED
      BY <3>3 DEF i
  <2> HIDE DEF first, l, t, side, n
  <2>5. QED
    BY <2>3, <2>4
<1>8. /\ Cell(7) = mark /\ \A k \in 1 .. l : Cell(7 + k) = data[k]
      /\ Cell(8 + l) = CRCOf(mark, data) \div 8 /\ Cell(9 + l) = CRCOf(mark, data) % 8
  <2>1. /\ Cell(7) = mark /\ \A k \in 1 .. l : Cell(7 + k) = s[k]
        /\ Cell(8 + l) = fdc.crc \div 8 /\ Cell(9 + l) = fdc.crc % 8
    BY DEF AllWritten, Kept
  <2>2. fdc.crc = CRCOf(mark, [k \in 1 .. l |-> s[k]])
    <3>1. SectorLength > 0
      BY <1>1
    <3>2. QED
      BY <3>1, Zenon DEF AllWritten, Summed, SumOf
  <2> HIDE DEF l, s, mark, data
  <2>3. QED
    BY <1>4, <2>1, <2>2
<1> HIDE DEF all, data, mark, t, side, n, l, s
<1>9. ASSUME NEW k \in 1 .. SectorCells PROVE Cell(k - 1) = all[k]
  <2>1. CASE k \in 1 .. 8
    BY <1>6, <1>7, <1>8, <2>1 DEF SectorCellsAre
  <2>2. CASE k \in 9 .. 8 + l
    <3>1. k - 8 \in 1 .. l /\ 7 + (k - 8) = k - 1 /\ 8 + (k - 8) = k
      BY <1>1, <2>2
    <3>2. all[8 + (k - 8)] = data[k - 8]
      BY <1>6, <3>1 DEF SectorCellsAre, l
    <3>3. QED
      BY <1>8, <3>1, <3>2
  <2>3. CASE k \in {9 + l, 10 + l, 11 + l}
    <3>1. (9 + l) - 1 = 8 + l /\ (10 + l) - 1 = 9 + l /\ (11 + l) - 1 = 10 + l
      BY <1>1
    <3>2. QED
      BY <1>6, <1>7, <1>8, <2>3, <3>1 DEF SectorCellsAre, l
  <2>4. QED
    BY <1>1, <2>1, <2>2, <2>3
<1>10. all = [k \in 1 .. SectorCells |-> all[k]]
  BY <1>6 DEF SectorCellsAre
<1>11. all = [k \in 1 .. SectorCells |-> Cell(k - 1)]
  BY <1>9, <1>10
<1>12. QED
  BY <1>1, <1>11 DEF all, data, mark, t, side, n, l, s

LEMMA GivenInvStays ==
  ASSUME FoundInv, GivenInv, [Next]_vars
  PROVE  GivenInv'
<1>1. CASE BusyGoes \/ Begins \/ Settled \/ SearchesHeader \/ WritesSector
  BY <1>1, BusyGoesWrites, BeginsWrites, SearchesHeaderWrites, WritesSectorWrites
<1>2. CASE Pulse \/ Moves \/ ReadsAddress \/ ReadsTrack \/ ReadsSector
  BY <1>2, OtherStepsWrite
<1>3. CASE Poll
  BY <1>3, PollWrites
<1>4. CASE SetRegisters
  BY <1>4 DEF SetRegisters, Register, GivenInv
<1>5. CASE \E c \in Commands : Command(c)
  BY <1>5, CommandWrites
<1>6. CASE \E b \in Given : WriteData(b)
  BY <1>6, WriteDataWrites
<1>7. CASE ReadData
  <2>1. DOMAIN prog = ProgFields
    BY DEF FoundInv, Inv, Shapes
  <2>2. prog'.op = prog.op /\ prog.op # "write"
    BY <1>7, <2>1 DEF ReadData, ProgFields
  <2>3. QED
    BY <2>2 DEF GivenInv
<1>8. CASE \E i \in Images : Insert(i)
  <2>1. DOMAIN prog = ProgFields
    BY DEF FoundInv, Inv, Shapes
  <2>2. prog'.op = "none"
    BY <1>8, <2>1 DEF Insert, ProgFields
  <2>3. QED
    BY <2>2 DEF GivenInv
<1>9. CASE UNCHANGED vars
  <2>1. fdc' = fdc /\ disks' = disks /\ image' = image /\ prog' = prog
    BY <1>9 DEF vars
  <2>2. CASE prog.at = "free"
    BY <2>1, <2>2 DEF GivenInv
  <2>3. CASE prog.at # "free"
    <3>1. CASE prog.op = "write"
      BY <2>1, <2>3, <3>1, GivenStays DEF GivenInv, Stays
    <3>2. CASE prog.op # "write"
      BY <2>1, <3>2 DEF GivenInv
    <3>3. QED
      BY <3>1, <3>2
  <2>4. QED
    BY <2>2, <2>3
<1>10. QED
  BY <1>1, <1>2, <1>3, <1>4, <1>5, <1>6, <1>7, <1>8, <1>9 DEF Next, Execute

\* What the property says of a program that has polled the last time.
LEMMA WhatIsWrittenStays ==
  ASSUME FoundInv, Framed(disks), GivenInv, WritesWhatIsGiven, [Next]_vars
  PROVE  WritesWhatIsGiven'
<1> SUFFICES ASSUME prog'.at = "free", prog'.op = "write", prog'.seen \intersect Errors = {}
             PROVE  /\ Len(prog'.moved) >= SectorLength
                    /\ OnDisk' = Sector(Asked.track, Asked.side, Asked.sector, fdc.mark,
                                        SubSeq(prog.moved, 1, SectorLength))'
  BY DEF WritesWhatIsGiven, Ended
<1>1. DOMAIN fdc = FdcFields /\ DOMAIN prog = ProgFields /\ ProgramInv
  BY DEF FoundInv, Inv, Shapes
<1>2. CASE prog' = prog /\ disks' = disks /\ image' = image /\ fdc'.mark = fdc.mark
  <2>1. /\ Len(prog.moved) >= SectorLength
        /\ OnDisk = Sector(Asked.track, Asked.side, Asked.sector, fdc.mark,
                           SubSeq(prog.moved, 1, SectorLength))
    BY <1>2 DEF WritesWhatIsGiven, Ended
  <2>2. OnDisk' = OnDisk /\ Asked' = Asked
    BY <1>2 DEF OnDisk, Asked
  <2>3. QED
    BY <1>2, <2>1, <2>2
<1>3. CASE Poll
  <2> DEFINE far == fdc.command >= READ_SECTOR
             at == IF prog.at = "rising" THEN IF "busy" \in fdc.status THEN "running" ELSE prog.at
                   ELSE IF "busy" \notin fdc.status THEN "free"
                   ELSE IF "drq" \in fdc.status /\ far THEN "moving"
                   ELSE prog.at
  <2>1. /\ fdc' = fdc /\ disks' = disks /\ image' = image /\ prog.at \in {"rising", "running"}
    BY <1>3 DEF Poll
  <2>2. prog' = [prog EXCEPT !.seen = fdc.status, !.at = at]
    BY <1>1, <1>3 DEF Poll, ProgFields
  <2>3. at = "free" => prog.at = "running" /\ "busy" \notin fdc.status
    BY <2>1
  <2> HIDE DEF at
  <2>4. /\ prog'.at = at /\ prog'.seen = fdc.status /\ prog'.op = prog.op
        /\ prog'.moved = prog.moved /\ prog'.where = prog.where
    BY <1>1, <2>2 DEF ProgFields
  <2>5. prog.at = "running" /\ "busy" \notin fdc.status /\ prog.op = "write"
    BY <2>3, <2>4
  <2>6. fdc.type = 0
    BY <1>1, <2>5 DEF ProgramInv
  <2>7. "lost" \notin fdc.status /\ "seek" \notin fdc.status /\ "protect" \notin fdc.status
    BY <2>4 DEF Errors
  <2>8. AllWritten /\ prog.moved \in Seq(Given)
    BY <2>5, <2>6, <2>7 DEF GivenInv, NotWritten, Storing, Summing
  <2>9. /\ Len(prog.moved) >= SectorLength
        /\ [k \in 1 .. SectorCells |-> Cell(k - 1)]
             = Sector(fdc.at, fdc.side, fdc.sector, fdc.mark, SubSeq(prog.moved, 1, SectorLength))
    BY <2>8, WrittenIsSector DEF FoundInv
  <2>10. /\ fdc.track = Asked.track /\ fdc.sector = Asked.sector
         /\ fdc.at = Asked.at /\ fdc.side = Asked.side /\ fdc.at = fdc.track
         /\ fdc.sector \in Sectors
    BY <2>5, <2>8 DEF FoundInv, AskInv, Asking, AllWritten
  <2>11. OnDisk = [k \in 1 .. SectorCells |-> Cell(k - 1)]
    <3>1. Start(Asked.sector) \in Nat /\ SectorCells \in Nat
      BY <2>10, SectorsOfTrack
    <3>2. \A b \in Nat, k \in 1 .. SectorCells : b + k - 1 = b + (k - 1)
      BY <3>1
    <3>3. \A k \in 1 .. SectorCells :
            Cell(k - 1) = disks[image][Asked.track][Asked.side][Start(Asked.sector) + k - 1]
      BY <2>10, <3>1, <3>2 DEF Cell
    <3>4. QED
      BY <3>3 DEF OnDisk
  <2>12. OnDisk' = OnDisk /\ Asked' = Asked
    BY <2>1, <2>4 DEF OnDisk, Asked
  <2>13. QED
    BY <2>1, <2>4, <2>9, <2>10, <2>11, <2>12
<1>4. CASE BusyGoes
  <2>1. prog' = prog /\ disks' = disks /\ image' = image
    BY <1>4 DEF BusyGoes, Chip
  <2>2. fdc' = [fdc EXCEPT !.wait = FALSE, !.status = @ \ {"busy"}]
    BY <1>4 DEF BusyGoes, Chip
  <2>3. fdc'.mark = fdc.mark
    BY <1>1, <2>2 DEF FdcFields
  <2>4. QED
    BY <1>2, <2>1, <2>3
<1>5. CASE Execute /\ ~BusyGoes
  <2>1. prog' = prog
    BY <1>5 DEF Execute, Begins, Settled, Pulse, Moves, SearchesHeader, ReadsSector,
                WritesSector, ReadsAddress, ReadsTrack, Chip
  <2>2. fdc.type # 0
    BY <1>5 DEF Execute, Begins, Settled, Pulse, Moves, SearchesHeader, ReadsSector,
                WritesSector, ReadsAddress, ReadsTrack, At
  <2>3. QED
    BY <1>1, <2>1, <2>2 DEF ProgramInv
<1>6. CASE ReadData \/ \E b \in Given : WriteData(b)
  <2>1. prog'.at = "running"
    BY <1>1, <1>6 DEF ReadData, WriteData, ProgFields
  <2>2. QED
    BY <2>1
<1>7. CASE SetRegisters
  <2>1. prog' = prog /\ disks' = disks /\ image' = image
    BY <1>7 DEF SetRegisters, Register
  <2>2. fdc'.mark = fdc.mark
    <3>1. \/ \E t \in Tracks : \/ fdc' = [fdc EXCEPT !.track = t]
                               \/ fdc' = [fdc EXCEPT !.data = t, !.status = @ \ {"drq"}]
          \/ \E s \in 1 .. LastSector + 1 : fdc' = [fdc EXCEPT !.sector = s]
          \/ \E side \in Sides : fdc' = [fdc EXCEPT !.side = side]
      BY <1>7 DEF SetRegisters, Register
    <3>2. QED
      BY <1>1, <3>1 DEF FdcFields
  <2>3. QED
    BY <1>2, <2>1, <2>2
<1>8. CASE \E c \in Commands : Command(c)
  <2>1. prog'.at = "rising"
    BY <1>8, CommandIs DEF FoundInv
  <2>2. QED
    BY <2>1
<1>9. CASE \E i \in Images : Insert(i)
  <2>1. prog'.op = "none"
    BY <1>1, <1>9 DEF Insert, ProgFields
  <2>2. QED
    BY <2>1
<1>10. CASE UNCHANGED vars
  BY <1>2, <1>10 DEF vars
<1>11. QED
  BY <1>3, <1>4, <1>5, <1>6, <1>7, <1>8, <1>9, <1>10 DEF Next

LEMMA InitWritten == Init => Framed(disks) /\ GivenInv /\ WritesWhatIsGiven
<1> SUFFICES ASSUME Init PROVE Framed(disks) /\ GivenInv /\ WritesWhatIsGiven
  OBVIOUS
<1>1. disks = [i \in Images |-> OpenD81(i)] /\ prog.op = "none"
  BY DEF Init
<1> HIDE DEF Init
<1>2. QED
  BY <1>1 DEF Framed, GivenInv, WritesWhatIsGiven, Ended

\* A program that writes a sector and sees no error at the end has it on the disk
\* byte for byte, between the marks a sector is found by and with the sum that
\* goes with it: it cannot come late unseen, because a request left standing
\* raises the lost flag, which stays, so that the byte written is always the
\* last one given; and the sum takes up the mark when the first byte is written,
\* whatever sum was left from the sector before (wd177x.cpp 359-540).
THEOREM WritesItsData == Spec => []WritesWhatIsGiven
<1>1. FoundInv /\ [Next]_vars => FoundInv'
  BY NextFound
<1>2. FoundInv /\ Framed(disks) /\ [Next]_vars => Framed(disks)'
  BY NextInv, FramedStays DEF FoundInv
<1>3. FoundInv /\ GivenInv /\ [Next]_vars => GivenInv'
  BY GivenInvStays
<1>4. FoundInv /\ Framed(disks) /\ GivenInv /\ WritesWhatIsGiven /\ [Next]_vars => WritesWhatIsGiven'
  BY WhatIsWrittenStays
<1>5. QED
  BY <1>1, <1>2, <1>3, <1>4, InitFound, InitWritten, PTL DEF Spec

-----------------------------------------------------------------------------
(* The numbers of the 8520's timers *)

LEMMA WordType ==
  /\ m8520!Base \in Nat /\ m8520!Base >= 2
  /\ m8520!Base * m8520!Base \in Nat /\ m8520!Base * m8520!Base >= 1
  /\ m8520!Word = 0 .. m8520!Base * m8520!Base - 1
  /\ m8520!Byte = 0 .. m8520!Base - 1
<1> DEFINE b == m8520!Base
<1>1. b \in Nat /\ b >= 2 /\ m8520!Byte = 0 .. b - 1
  BY BoardAssumption DEF m8520!Base, m8520!Byte
<1>2. m8520!Word = 0 .. b * b - 1
  BY DEF m8520!Word
<1> HIDE DEF b
<1>3. \A x \in Nat : x >= 2 => x * x \in Nat /\ x * x >= 1
  OBVIOUS
<1>4. QED
  BY <1>1, <1>2, <1>3 DEF b

LEMMA DownWord ==
  ASSUME NEW w \in m8520!Word
  PROVE  m8520!Down(w) \in m8520!Word /\ (w > 0 => m8520!Down(w) = w - 1)
<1> DEFINE n == m8520!Base * m8520!Base
<1>1. n \in Nat /\ n >= 1 /\ w \in 0 .. n - 1 /\ m8520!Word = 0 .. n - 1
  BY WordType
<1>2. m8520!Down(w) = (w + n - 1) % n
  BY DEF m8520!Down
<1> HIDE DEF n
<1>3. (w + n - 1) % n \in 0 .. n - 1
  BY <1>1
<1>4. ASSUME w > 0 PROVE (w + n - 1) % n = w - 1
  <2> DEFINE v == w - 1
  <2>1. v \in 0 .. n - 1 /\ w + n - 1 = v + n
    BY <1>1, <1>4
  <2> HIDE DEF v
  <2>2. (v + n) % n = v
    BY <1>1, <2>1
  <2>3. QED
    BY <2>1, <2>2 DEF v
<1>5. QED
  BY <1>1, <1>2, <1>3, <1>4

LEMMA JoinedWord ==
  ASSUME NEW h \in m8520!Byte, NEW l \in m8520!Byte
  PROVE  m8520!Joined(h, l) \in m8520!Word
<1> DEFINE b == m8520!Base
<1>1. b \in Nat /\ b >= 2 /\ h \in 0 .. b - 1 /\ l \in 0 .. b - 1 /\ m8520!Word = 0 .. b * b - 1
  BY WordType
<1>2. m8520!Joined(h, l) = h * b + l
  BY DEF m8520!Joined
<1> HIDE DEF b
<1>3. \A x \in Nat : \A y \in 0 .. x - 1 : y * x \in Nat /\ y * x + x <= x * x
  OBVIOUS
<1>4. h * b \in Nat /\ h * b + b <= b * b /\ b * b \in Nat
  BY <1>1, <1>3
<1>5. QED
  BY <1>1, <1>2, <1>4

LEMMA HalvesOfWord ==
  ASSUME NEW w \in m8520!Word
  PROVE  m8520!Low(w) \in m8520!Byte /\ m8520!High(w) \in m8520!Byte
<1> DEFINE b == m8520!Base
<1>1. b \in Nat /\ b >= 2 /\ w \in 0 .. b * b - 1 /\ m8520!Byte = 0 .. b - 1
  BY WordType
<1>2. m8520!Low(w) = w % b /\ m8520!High(w) = w \div b
  BY DEF m8520!Low, m8520!High
<1> HIDE DEF b
<1>3. \A x \in Nat \ {0} : \A y \in 0 .. x * x - 1 : y % x \in 0 .. x - 1 /\ y \div x \in 0 .. x - 1
  OBVIOUS
<1>4. b \in Nat \ {0}
  BY <1>1
<1>5. w % b \in 0 .. b - 1 /\ w \div b \in 0 .. b - 1
  BY <1>1, <1>3, <1>4, Zenon
<1>6. QED
  BY <1>1, <1>2, <1>5

-----------------------------------------------------------------------------
(* A timer *)

TimerFields == {"counter", "latch", "active", "oneShot", "mode", "reloaded"}

\* What a cycle does to a timer; was and is tell its flag before and after.
Ticked(t, u, pulse, was, is) ==
  /\ u.latch = t.latch /\ (u.oneShot <=> t.oneShot)
  /\ pulse /\ m8520!TimesOut(t) => u.counter = t.latch /\ (u.active <=> ~t.oneShot) /\ is
  /\ ~(pulse /\ m8520!TimesOut(t)) =>
       /\ u.active <=> t.active
       /\ is <=> was
       /\ u.counter = IF pulse /\ m8520!Counts(t) THEN m8520!Down(t.counter) ELSE t.counter

\* What the program's access does to one that was not just loaded.
Adjusted(t, u) == \/ u.counter = t.counter /\ ~u.reloaded
                  \/ u.counter = u.latch /\ u.reloaded

LEMMA TimerType ==
  ASSUME NEW modes, NEW t \in m8520!Timers(modes)
  PROVE  /\ DOMAIN t = TimerFields
         /\ t.counter \in m8520!Word /\ t.latch \in m8520!Word /\ t.active \in BOOLEAN
         /\ t.oneShot \in BOOLEAN /\ t.mode \in modes /\ t.reloaded \in BOOLEAN
<1>1. DOMAIN t = TimerFields
  BY DEF m8520!Timers, TimerFields
<1>2. /\ t.counter \in m8520!Word /\ t.latch \in m8520!Word
      /\ t.oneShot \in BOOLEAN /\ t.mode \in modes /\ t.reloaded \in BOOLEAN
      /\ t.active \in BOOLEAN
  BY Zenon DEF m8520!Timers
<1>3. QED
  BY <1>1, <1>2

LEMMA ReloadTimer ==
  ASSUME NEW modes, NEW t \in m8520!Timers(modes), NEW u, u = m8520!Reload(t)
  PROVE  /\ u \in m8520!Timers(modes)
         /\ u.counter = t.latch /\ u.latch = t.latch /\ u.reloaded
         /\ u.active = t.active /\ u.oneShot = t.oneShot /\ u.mode = t.mode
<1> DEFINE v == [t EXCEPT !.counter = t.latch, !.reloaded = TRUE]
<1>1. DOMAIN t = TimerFields /\ t.latch \in m8520!Word /\ TRUE \in BOOLEAN
  BY TimerType
<1>2. v \in m8520!Timers(modes)
  BY <1>1, Zenon DEF m8520!Timers
<1>3. u = v
  BY <1>1 DEF m8520!Reload, TimerFields
<1>4. /\ v.counter = t.latch /\ v.latch = t.latch /\ v.reloaded
      /\ v.active = t.active /\ v.oneShot = t.oneShot /\ v.mode = t.mode
  BY <1>1 DEF TimerFields
<1> HIDE DEF v
<1>5. QED
  BY <1>2, <1>3, <1>4

LEMMA ReloadIs ==
  ASSUME NEW modes, NEW t \in m8520!Timers(modes)
  PROVE  /\ m8520!Reload(t) \in m8520!Timers(modes) /\ m8520!Reload(t).reloaded
         /\ m8520!Reload(t).counter = t.latch /\ m8520!Reload(t).latch = t.latch
<1>1. DOMAIN t = TimerFields
  BY TimerType
<1>2. m8520!Reload(t) \in m8520!Timers(modes)
  BY ReloadTimer
<1>3. /\ m8520!Reload(t).reloaded
      /\ m8520!Reload(t).counter = t.latch /\ m8520!Reload(t).latch = t.latch
  BY <1>1 DEF m8520!Reload, TimerFields
<1>4. QED
  BY <1>2, <1>3

LEMMA CountedTimer ==
  ASSUME NEW modes, NEW t \in m8520!Timers(modes), NEW u, u = m8520!Counted(t)
  PROVE  /\ u \in m8520!Timers(modes)
         /\ u.latch = t.latch /\ u.oneShot = t.oneShot /\ u.mode = t.mode
         /\ m8520!TimesOut(t) => u.counter = t.latch /\ u.active = ~t.oneShot
         /\ ~m8520!TimesOut(t) =>
              /\ u.active = t.active
              /\ u.counter = IF m8520!Counts(t) THEN m8520!Down(t.counter) ELSE t.counter
<1>1. DOMAIN t = TimerFields /\ t.counter \in m8520!Word /\ t.oneShot \in BOOLEAN
  BY TimerType
<1>2. CASE m8520!TimesOut(t)
  <2> DEFINE r == m8520!Reload(t)
             stays == ~t.oneShot
  <2>1. /\ r \in m8520!Timers(modes) /\ DOMAIN r = TimerFields
        /\ r.counter = t.latch /\ r.latch = t.latch /\ r.oneShot = t.oneShot /\ r.mode = t.mode
    <3>1. /\ r \in m8520!Timers(modes)
          /\ r.counter = t.latch /\ r.latch = t.latch /\ r.oneShot = t.oneShot /\ r.mode = t.mode
      BY ReloadTimer
    <3> HIDE DEF r
    <3>2. QED
      BY <3>1, TimerType
  <2>2. u = [r EXCEPT !.active = stays]
    BY <1>2 DEF m8520!Counted, m8520!Underflown
  <2>3. stays \in BOOLEAN
    BY <1>1
  <2> HIDE DEF r, stays
  <2>4. u \in m8520!Timers(modes)
    BY <2>1, <2>2, <2>3, Zenon DEF m8520!Timers
  <2>5. /\ u.counter = r.counter /\ u.latch = r.latch /\ u.oneShot = r.oneShot
        /\ u.mode = r.mode /\ u.active = stays
    BY <2>1, <2>2 DEF TimerFields
  <2>6. QED
    BY <1>2, <2>1, <2>4, <2>5 DEF stays
<1>3. CASE ~m8520!TimesOut(t) /\ m8520!Counts(t)
  <2> DEFINE n == m8520!Down(t.counter)
  <2>1. n \in m8520!Word
    BY <1>1, DownWord
  <2>2. u = [t EXCEPT !.counter = n]
    BY <1>1, <1>3 DEF m8520!Counted, TimerFields
  <2> HIDE DEF n
  <2>3. u \in m8520!Timers(modes)
    BY <2>1, <2>2, Zenon DEF m8520!Timers
  <2>4. /\ u.counter = n /\ u.latch = t.latch /\ u.oneShot = t.oneShot
        /\ u.mode = t.mode /\ u.active = t.active
    BY <1>1, <2>2 DEF TimerFields
  <2>5. QED
    BY <1>3, <2>3, <2>4 DEF n
<1>4. CASE ~m8520!TimesOut(t) /\ ~m8520!Counts(t)
  BY <1>4 DEF m8520!Counted
<1>5. QED
  BY <1>2, <1>3, <1>4

\* A timer that counts, and after the cycle is not marked as loaded.
LEMMA TicksCounted ==
  ASSUME NEW modes, NEW t \in m8520!Timers(modes), NEW pulse, NEW was, NEW is,
         NEW u, u = IF pulse THEN m8520!Counted(t) ELSE t,
         is <=> (was \/ (pulse /\ m8520!TimesOut(t))),
         NEW v, v = [u EXCEPT !.reloaded = FALSE]
  PROVE  v \in m8520!Timers(modes) /\ Ticked(t, v, pulse, was, is) /\ ~v.reloaded
<1>1. /\ u \in m8520!Timers(modes)
      /\ u.latch = t.latch /\ u.oneShot = t.oneShot
      /\ pulse /\ m8520!TimesOut(t) => u.counter = t.latch /\ u.active = ~t.oneShot
      /\ ~(pulse /\ m8520!TimesOut(t)) =>
           /\ u.active = t.active
           /\ u.counter = IF pulse /\ m8520!Counts(t) THEN m8520!Down(t.counter) ELSE t.counter
  BY CountedTimer
<1>2. DOMAIN u = TimerFields /\ FALSE \in BOOLEAN
  BY <1>1, TimerType
<1>3. v \in m8520!Timers(modes)
  BY <1>1, <1>2, Zenon DEF m8520!Timers
<1>4. /\ v.counter = u.counter /\ v.latch = u.latch /\ v.active = u.active
      /\ v.oneShot = u.oneShot /\ v.reloaded = FALSE
  BY <1>2 DEF TimerFields
<1>5. QED
  BY <1>1, <1>3, <1>4, Zenon DEF Ticked

-----------------------------------------------------------------------------
(* The chip *)

CiaFields == {"mask", "data", "irq", "flagPin", "cnt", "cntOld", "output", "bits", "a", "b"}

\* The line of c is what its flags ask for.
Follows(c) == c \in m8520!CiaRecords /\ (c.irq <=> c.mask \intersect c.data # {})

LEMMA CiaType ==
  ASSUME NEW c \in m8520!CiaRecords
  PROVE  /\ DOMAIN c = CiaFields
         /\ c.mask \subseteq m8520!Flags /\ c.data \subseteq m8520!Flags
         /\ c.bits \in 0 .. Bits /\ c.output \in BOOLEAN /\ c.cnt \in BOOLEAN
         /\ c.flagPin \in BOOLEAN /\ c.irq \in BOOLEAN /\ c.cntOld \in BOOLEAN
         /\ c.a \in m8520!Timers(m8520!ModesA) /\ c.b \in m8520!Timers(m8520!ModesB)
<1>1. DOMAIN c = CiaFields
  BY DEF m8520!CiaRecords, CiaFields
<1>2. /\ c.mask \in SUBSET m8520!Flags /\ c.data \in SUBSET m8520!Flags
      /\ c.bits \in 0 .. Bits /\ c.output \in BOOLEAN /\ c.cnt \in BOOLEAN
      /\ c.flagPin \in BOOLEAN /\ c.irq \in BOOLEAN /\ c.cntOld \in BOOLEAN
      /\ c.a \in m8520!Timers(m8520!ModesA) /\ c.b \in m8520!Timers(m8520!ModesB)
  BY Zenon DEF m8520!CiaRecords
<1>3. QED
  BY <1>1, <1>2

\* A record with the fields of c, but for its flags, is of the type c is of.
LEMMA CiaMade ==
  ASSUME NEW c, DOMAIN c = CiaFields, c = [f \in CiaFields |-> c[f]],
         c.mask \in SUBSET m8520!Flags, c.data \in SUBSET m8520!Flags,
         c.bits \in 0 .. Bits, c.output \in BOOLEAN, c.cnt \in BOOLEAN,
         c.flagPin \in BOOLEAN, c.irq \in BOOLEAN, c.cntOld \in BOOLEAN,
         c.a \in m8520!Timers(m8520!ModesA), c.b \in m8520!Timers(m8520!ModesB)
  PROVE  c \in m8520!CiaRecords
BY DEF m8520!CiaRecords, CiaFields

\* d is c but for some fields.
But(fields, c, d) == DOMAIN d = CiaFields /\ \A f \in CiaFields \ fields : d[f] = c[f]

LEMMA OutputIRQIs ==
  ASSUME NEW c \in m8520!CiaRecords, NEW d, d = m8520!OutputIRQ(c)
  PROVE  Follows(d) /\ But({"irq"}, c, d)
<1> DEFINE line == c.mask \intersect c.data # {}
<1>1. DOMAIN c = CiaFields /\ line \in BOOLEAN
  BY CiaType
<1>2. d = [c EXCEPT !.irq = line]
  BY DEF m8520!OutputIRQ
<1> HIDE DEF line
<1>3. d \in m8520!CiaRecords
  BY <1>1, <1>2, Zenon DEF m8520!CiaRecords
<1>4. But({"irq"}, c, d) /\ d.irq = line /\ d.mask = c.mask /\ d.data = c.data
  BY <1>1, <1>2 DEF But, CiaFields
<1>5. QED
  BY <1>3, <1>4 DEF Follows, line

LEMMA SetInterruptIs ==
  ASSUME NEW c \in m8520!CiaRecords, NEW flag \in m8520!Flags,
         NEW d, d = m8520!SetInterrupt(c, flag)
  PROVE  Follows(d) /\ But({"irq", "data"}, c, d) /\ d.data = c.data \union {flag}
<1> DEFINE data == c.data \union {flag}
           e == [c EXCEPT !.data = data]
<1>1. DOMAIN c = CiaFields /\ data \in SUBSET m8520!Flags
  BY CiaType
<1>2. d = m8520!OutputIRQ(e)
  BY DEF m8520!SetInterrupt
<1> HIDE DEF data
<1>3. e \in m8520!CiaRecords
  BY <1>1, Zenon DEF m8520!CiaRecords
<1>4. But({"data"}, c, e) /\ e.data = data
  BY <1>1 DEF But, CiaFields
<1> HIDE DEF e
<1>5. Follows(d) /\ But({"irq"}, e, d)
  BY <1>2, <1>3, OutputIRQIs
<1>6. QED
  BY <1>4, <1>5 DEF data, But, CiaFields

\* The line follows as long as the mask and the flags are left.
LEMMA LineKept ==
  ASSUME NEW c, Follows(c), NEW d \in m8520!CiaRecords,
         d.mask = c.mask, d.data = c.data, d.irq = c.irq
  PROVE  Follows(d)
BY DEF Follows

\* What comes in on a line leaves the timers, and their flags.
Untimed(c, d) == /\ d.a = c.a /\ d.b = c.b
                 /\ \A flag \in {"TA", "TB"} : flag \in d.data <=> flag \in c.data

LEMMA SetPinFLAGIs ==
  ASSUME NEW c, Follows(c), NEW value \in BOOLEAN, NEW d, d = m8520!SetPinFLAG(c, value)
  PROVE  Follows(d) /\ Untimed(c, d)
<1> DEFINE new == IF c.flagPin /\ ~value THEN m8520!SetInterrupt(c, "FLG") ELSE c
<1>1. c \in m8520!CiaRecords /\ "FLG" \in m8520!Flags /\ DOMAIN c = CiaFields
  BY CiaType DEF Follows, m8520!Flags
<1>2. Follows(new) /\ But({"irq", "data"}, c, new) /\ new.data \subseteq c.data \union {"FLG"}
      /\ c.data \subseteq new.data
  <2>1. CASE c.flagPin /\ ~value
    BY <1>1, <2>1, SetInterruptIs
  <2>2. CASE ~(c.flagPin /\ ~value)
    BY <1>1, <2>2 DEF But
  <2>3. QED
    BY <2>1, <2>2
<1>3. d = [new EXCEPT !.flagPin = value]
  BY DEF m8520!SetPinFLAG
<1> HIDE DEF new
<1>4. new \in m8520!CiaRecords /\ DOMAIN new = CiaFields
  BY <1>2 DEF Follows, But
<1>5. d \in m8520!CiaRecords
  BY <1>3, <1>4, Zenon DEF m8520!CiaRecords
<1>6. But({"flagPin"}, new, d)
  BY <1>3, <1>4 DEF But, CiaFields
<1>7. Follows(d)
  BY <1>2, <1>5, <1>6, LineKept DEF But, CiaFields
<1>8. QED
  BY <1>2, <1>6, <1>7 DEF But, CiaFields, Untimed

LEMMA SetPinCNTIs ==
  ASSUME NEW c, Follows(c), NEW value \in BOOLEAN, NEW d, d = m8520!SetPinCNT(c, value)
  PROVE  Follows(d) /\ Untimed(c, d)
<1> DEFINE shifts  == ~c.cnt /\ value /\ c.bits < Bits
           n == c.bits + 1
           shifted == [c EXCEPT !.bits = n]
           flagged == m8520!SetInterrupt(shifted, "SDR")
           new     == IF ~shifts THEN c ELSE IF shifted.bits = Bits THEN flagged ELSE shifted
<1>1. /\ c \in m8520!CiaRecords /\ "SDR" \in m8520!Flags /\ DOMAIN c = CiaFields
      /\ c.bits \in 0 .. Bits /\ Bits \in Nat
  BY BoardAssumption, CiaType DEF Follows, m8520!Flags
<1>2. d = IF c.output THEN c ELSE [new EXCEPT !.cnt = value]
  BY DEF m8520!SetPinCNT
<1>3. shifts => n \in 0 .. Bits
  BY <1>1
<1> HIDE DEF n
<1>4. shifts => shifted \in m8520!CiaRecords
  <2>1. n \in 0 .. Bits => shifted \in m8520!CiaRecords
    BY <1>1, Zenon DEF m8520!CiaRecords
  <2> HIDE DEF shifted, shifts
  <2>2. QED
    BY <1>3, <2>1
<1>5. But({"bits"}, c, shifted)
  BY <1>1 DEF But, CiaFields
<1> HIDE DEF shifted
<1>6. shifts => Follows(shifted) /\ Untimed(c, shifted)
  <2> HIDE DEF shifts
  <2>1. QED
    BY <1>4, <1>5, LineKept DEF But, CiaFields, Untimed
<1>7. shifts => Follows(flagged) /\ Untimed(c, flagged)
  <2> HIDE DEF shifts
  <2>1. shifts => /\ Follows(flagged) /\ But({"irq", "data"}, shifted, flagged)
                  /\ flagged.data = shifted.data \union {"SDR"}
    BY <1>1, <1>4, SetInterruptIs
  <2>2. QED
    BY <1>5, <2>1 DEF But, CiaFields, Untimed
<1> HIDE DEF flagged
<1>8. Follows(new) /\ Untimed(c, new)
  <2>1. Untimed(c, c)
    BY DEF Untimed
  <2> HIDE DEF shifts
  <2>2. QED
    BY <1>6, <1>7, <2>1
<1> HIDE DEF new
<1>9. CASE c.output
  BY <1>2, <1>9 DEF Untimed
<1>10. CASE ~c.output
  <2>1. new \in m8520!CiaRecords /\ DOMAIN new = CiaFields
    BY <1>8, CiaType DEF Follows
  <2>2. d = [new EXCEPT !.cnt = value]
    BY <1>2, <1>10
  <2>3. d \in m8520!CiaRecords
    BY <2>1, <2>2, Zenon DEF m8520!CiaRecords
  <2>4. But({"cnt"}, new, d)
    BY <2>1, <2>2 DEF But, CiaFields
  <2>5. Follows(d)
    BY <1>8, <2>3, <2>4, LineKept DEF But, CiaFields
  <2>6. QED
    BY <1>8, <2>4, <2>5 DEF But, CiaFields, Untimed
<1>11. QED
  BY <1>9, <1>10

LEMMA ShiftOutIs ==
  ASSUME NEW c, Follows(c), NEW d, d = m8520!ShiftOut(c)
  PROVE  Follows(d) /\ Untimed(c, d)
<1> DEFINE n == c.bits + 1
           up == [c EXCEPT !.cnt = TRUE]
           falls == [c EXCEPT !.cnt = FALSE, !.bits = n]
           flagged == m8520!SetInterrupt(falls, "SDR")
<1>1. /\ c \in m8520!CiaRecords /\ "SDR" \in m8520!Flags /\ DOMAIN c = CiaFields
      /\ c.bits \in 0 .. Bits /\ Bits \in Nat /\ TRUE \in BOOLEAN /\ FALSE \in BOOLEAN
  BY BoardAssumption, CiaType DEF Follows, m8520!Flags
<1>2. \/ d = c
      \/ d = up
      \/ ~(c.bits >= Bits) /\ d = flagged
      \/ ~(c.bits >= Bits) /\ d = falls
  <2>1. [c EXCEPT !.cnt = FALSE, !.bits = @ + 1] = falls
    BY <1>1 DEF CiaFields
  <2> HIDE DEF falls
  <2>2. QED
    BY <2>1 DEF m8520!ShiftOut
<1>3. ~(c.bits >= Bits) => n \in 0 .. Bits
  BY <1>1
<1> HIDE DEF n
<1>4. up \in m8520!CiaRecords
  BY <1>1, Zenon DEF m8520!CiaRecords
<1>5. But({"cnt"}, c, up)
  BY <1>1 DEF But, CiaFields
<1> HIDE DEF up
<1>6. Follows(up) /\ Untimed(c, up)
  BY <1>4, <1>5, LineKept DEF But, CiaFields, Untimed
<1>7. n \in 0 .. Bits => falls \in m8520!CiaRecords
  BY <1>1, Zenon DEF m8520!CiaRecords
<1>8. But({"cnt", "bits"}, c, falls)
  BY <1>1 DEF But, CiaFields
<1> HIDE DEF falls
<1>9. n \in 0 .. Bits => Follows(falls) /\ Untimed(c, falls)
  BY <1>7, <1>8, LineKept DEF But, CiaFields, Untimed
<1>10. n \in 0 .. Bits => Follows(flagged) /\ Untimed(c, flagged)
  <2>1. n \in 0 .. Bits => /\ Follows(flagged) /\ But({"irq", "data"}, falls, flagged)
                           /\ flagged.data = falls.data \union {"SDR"}
    BY <1>1, <1>7, SetInterruptIs
  <2>2. QED
    BY <1>8, <2>1 DEF But, CiaFields, Untimed
<1> HIDE DEF flagged
<1>11. Follows(c) /\ Untimed(c, c)
  BY DEF Untimed
<1>12. QED
  BY <1>2, <1>3, <1>6, <1>9, <1>10, <1>11

LEMMA TimerAIs ==
  ASSUME NEW c, Follows(c), NEW d, d = m8520!TimerA(c)
  PROVE  /\ Follows(d) /\ d.b = c.b
         /\ d.a = IF m8520!PulseA(c) THEN m8520!Counted(c.a) ELSE c.a
         /\ "TB" \in d.data <=> "TB" \in c.data
         /\ "TA" \in d.data <=> ("TA" \in c.data \/ (m8520!PulseA(c) /\ m8520!TimesOut(c.a)))
<1> DEFINE a == IF m8520!PulseA(c) THEN m8520!Counted(c.a) ELSE c.a
           counted == [c EXCEPT !.a = a]
           flagged == m8520!SetInterrupt(counted, "TA")
           out == m8520!ShiftOut(flagged)
           under == m8520!PulseA(c) /\ m8520!TimesOut(c.a)
<1>1. /\ c \in m8520!CiaRecords /\ "TA" \in m8520!Flags /\ DOMAIN c = CiaFields
      /\ a \in m8520!Timers(m8520!ModesA)
  BY CiaType, CountedTimer DEF Follows, m8520!Flags
<1>2. d = IF ~under THEN counted ELSE IF c.a.oneShot THEN flagged ELSE out
  <2>1. counted = [c EXCEPT !.a = IF m8520!PulseA(c) THEN m8520!Counted(@) ELSE @]
    BY <1>1 DEF CiaFields
  <2>2. under <=> m8520!UnderflowA(c)
    BY DEF m8520!UnderflowA
  <2> HIDE DEF counted, under
  <2>3. QED
    BY <2>1, <2>2 DEF m8520!TimerA
<1> HIDE DEF a, under
<1>3. counted \in m8520!CiaRecords
  BY <1>1, Zenon DEF m8520!CiaRecords
<1>4. But({"a"}, c, counted) /\ counted.a = a
  BY <1>1 DEF But, CiaFields
<1> HIDE DEF counted
<1>5. Follows(counted)
  BY <1>3, <1>4, LineKept DEF But, CiaFields
<1>6. Follows(flagged) /\ But({"irq", "data"}, counted, flagged) /\ flagged.data = counted.data \union {"TA"}
  BY <1>1, <1>3, SetInterruptIs
<1> HIDE DEF flagged
<1>7. Follows(out) /\ Untimed(flagged, out)
  BY <1>6, ShiftOutIs
<1> HIDE DEF out
<1>8. /\ Follows(d) /\ d.b = c.b /\ d.a = a
      /\ "TB" \in d.data <=> "TB" \in c.data
      /\ "TA" \in d.data <=> ("TA" \in c.data \/ under)
  <2>1. CASE ~under
    BY <1>2, <1>4, <1>5, <2>1 DEF But, CiaFields
  <2>2. CASE under /\ c.a.oneShot
    BY <1>2, <1>4, <1>6, <2>2 DEF But, CiaFields
  <2>3. CASE under /\ ~c.a.oneShot
    BY <1>2, <1>4, <1>6, <1>7, <2>3 DEF But, CiaFields, Untimed
  <2>4. QED
    BY <2>1, <2>2, <2>3
<1>9. QED
  BY <1>8 DEF a, under

LEMMA TimerBIs ==
  ASSUME NEW c, Follows(c), NEW underflow, NEW d, d = m8520!TimerB(c, underflow)
  PROVE  /\ Follows(d) /\ d.a = c.a
         /\ d.b = IF m8520!PulseB(c, underflow) THEN m8520!Counted(c.b) ELSE c.b
         /\ "TA" \in d.data <=> "TA" \in c.data
         /\ "TB" \in d.data <=>
              ("TB" \in c.data \/ (m8520!PulseB(c, underflow) /\ m8520!TimesOut(c.b)))
<1> DEFINE b == IF m8520!PulseB(c, underflow) THEN m8520!Counted(c.b) ELSE c.b
           counted == [c EXCEPT !.b = b]
           flagged == m8520!SetInterrupt(counted, "TB")
           under == m8520!PulseB(c, underflow) /\ m8520!TimesOut(c.b)
<1>1. /\ c \in m8520!CiaRecords /\ "TB" \in m8520!Flags /\ DOMAIN c = CiaFields
      /\ b \in m8520!Timers(m8520!ModesB)
  BY CiaType, CountedTimer DEF Follows, m8520!Flags
<1>2. d = IF under THEN flagged ELSE counted
  <2>1. counted = [c EXCEPT !.b = IF m8520!PulseB(c, underflow) THEN m8520!Counted(@) ELSE @]
    BY <1>1 DEF CiaFields
  <2> HIDE DEF counted
  <2>2. QED
    BY <2>1 DEF m8520!TimerB
<1> HIDE DEF b, under
<1>3. counted \in m8520!CiaRecords
  BY <1>1, Zenon DEF m8520!CiaRecords
<1>4. But({"b"}, c, counted) /\ counted.b = b
  BY <1>1 DEF But, CiaFields
<1> HIDE DEF counted
<1>5. Follows(counted)
  BY <1>3, <1>4, LineKept DEF But, CiaFields
<1>6. Follows(flagged) /\ But({"irq", "data"}, counted, flagged) /\ flagged.data = counted.data \union {"TB"}
  BY <1>1, <1>3, SetInterruptIs
<1> HIDE DEF flagged
<1>7. /\ Follows(d) /\ d.a = c.a /\ d.b = b
      /\ "TA" \in d.data <=> "TA" \in c.data
      /\ "TB" \in d.data <=> ("TB" \in c.data \/ under)
  <2>1. CASE ~under
    BY <1>2, <1>4, <1>5, <2>1 DEF But, CiaFields
  <2>2. CASE under
    BY <1>2, <1>4, <1>6, <2>2 DEF But, CiaFields
  <2>3. QED
    BY <2>1, <2>2
<1>8. QED
  BY <1>7 DEF b, under

\* A cycle of the chip.
Cycled(c, d) ==
  /\ Follows(d) /\ ~d.a.reloaded /\ ~d.b.reloaded
  /\ Ticked(c.a, d.a, m8520!PulseA(c), "TA" \in c.data, "TA" \in d.data)
  /\ Ticked(c.b, d.b, m8520!PulsesB(c), "TB" \in c.data, "TB" \in d.data)

LEMMA ExecuteIs ==
  ASSUME NEW c, Follows(c), NEW d, d = m8520!Execute(c)
  PROVE  Cycled(c, d)
<1> DEFINE first == m8520!TimerA(c)
           both == m8520!TimerB(first, m8520!UnderflowA(c))
<1>1. c \in m8520!CiaRecords
  BY DEF Follows
<1>2. /\ Follows(first) /\ first.b = c.b
      /\ first.a = IF m8520!PulseA(c) THEN m8520!Counted(c.a) ELSE c.a
      /\ "TB" \in first.data <=> "TB" \in c.data
      /\ "TA" \in first.data <=> ("TA" \in c.data \/ (m8520!PulseA(c) /\ m8520!TimesOut(c.a)))
  BY TimerAIs
<1>3. m8520!PulseB(first, m8520!UnderflowA(c)) <=> m8520!PulsesB(c)
  BY DEF m8520!PulsesB
<1>4. m8520!PulseB(first, m8520!UnderflowA(c)) = m8520!PulsesB(c)
  BY DEF m8520!PulsesB
<1>5. d = [both EXCEPT !.cntOld = both.cnt, !.a.reloaded = FALSE, !.b.reloaded = FALSE]
  BY DEF m8520!Execute
<1> HIDE DEF first
<1>6. /\ Follows(both) /\ both.a = first.a
      /\ both.b = IF m8520!PulsesB(c) THEN m8520!Counted(c.b) ELSE c.b
      /\ "TA" \in both.data <=> "TA" \in first.data
      /\ "TB" \in both.data <=>
           ("TB" \in first.data \/ (m8520!PulsesB(c) /\ m8520!TimesOut(c.b)))
  BY <1>2, <1>4, TimerBIs
<1> HIDE DEF both
<1>7. both \in m8520!CiaRecords /\ DOMAIN both = CiaFields /\ both.cnt \in BOOLEAN
  BY <1>6, CiaType DEF Follows
<1> DEFINE a == [both.a EXCEPT !.reloaded = FALSE]
           b == [both.b EXCEPT !.reloaded = FALSE]
           old == both.cnt
<1>8. d = [both EXCEPT !.cntOld = old, !.a = a, !.b = b]
  BY <1>5, <1>7 DEF CiaFields
<1>9. /\ c.a \in m8520!Timers(m8520!ModesA) /\ c.b \in m8520!Timers(m8520!ModesB)
  BY <1>1, CiaType
<1>10. /\ a \in m8520!Timers(m8520!ModesA) /\ ~a.reloaded
       /\ Ticked(c.a, a, m8520!PulseA(c), "TA" \in c.data, "TA" \in both.data)
  <2> DEFINE was == "TA" \in c.data
             is == "TA" \in both.data
             pulse == m8520!PulseA(c)
             t == c.a
  <2>1. both.a = IF pulse THEN m8520!Counted(t) ELSE t
    BY <1>2, <1>6
  <2>2. is <=> (was \/ (pulse /\ m8520!TimesOut(t)))
    BY <1>2, <1>6
  <2> HIDE DEF was, is, pulse, t
  <2>3. /\ a \in m8520!Timers(m8520!ModesA) /\ ~a.reloaded /\ Ticked(t, a, pulse, was, is)
    BY <1>9, <2>1, <2>2, TicksCounted DEF t
  <2>4. QED
    BY <2>3 DEF was, is, pulse, t
<1>11. /\ b \in m8520!Timers(m8520!ModesB) /\ ~b.reloaded
       /\ Ticked(c.b, b, m8520!PulsesB(c), "TB" \in c.data, "TB" \in both.data)
  <2> DEFINE was == "TB" \in c.data
             is == "TB" \in both.data
             pulse == m8520!PulsesB(c)
             t == c.b
  <2>1. both.b = IF pulse THEN m8520!Counted(t) ELSE t
    BY <1>6
  <2>2. is <=> (was \/ (pulse /\ m8520!TimesOut(t)))
    BY <1>2, <1>6
  <2> HIDE DEF was, is, pulse, t
  <2>3. /\ b \in m8520!Timers(m8520!ModesB) /\ ~b.reloaded /\ Ticked(t, b, pulse, was, is)
    BY <1>9, <2>1, <2>2, TicksCounted DEF t
  <2>4. QED
    BY <2>3 DEF was, is, pulse, t
<1>12. old \in BOOLEAN
  BY <1>7
<1> HIDE DEF a, b, old
<1>13. d \in m8520!CiaRecords
  BY <1>7, <1>8, <1>10, <1>11, <1>12, Zenon DEF m8520!CiaRecords
<1>14. But({"cntOld", "a", "b"}, both, d) /\ d.a = a /\ d.b = b
  BY <1>7, <1>8 DEF But, CiaFields
<1>15. Follows(d)
  BY <1>6, <1>13, <1>14, LineKept DEF But, CiaFields
<1>16. d.data = both.data
  BY <1>14 DEF But, CiaFields
<1>17. QED
  BY <1>10, <1>11, <1>14, <1>15, <1>16 DEF Cycled

-----------------------------------------------------------------------------
(* The program's accesses *)

\* What an access leaves of a chip whose timers were not just loaded.
AtRest(c) == Follows(c) /\ ~c.a.reloaded /\ ~c.b.reloaded
Adjusts(c, d) ==
  /\ Follows(d) /\ Adjusted(c.a, d.a) /\ Adjusted(c.b, d.b)
  /\ \A flag \in {"TA", "TB"} : flag \in d.data => flag \in c.data

LEMMA AdjustsItself == ASSUME NEW c, AtRest(c) PROVE Adjusts(c, c)
BY DEF AtRest, Adjusts, Adjusted

LEMMA WithTimerA ==
  ASSUME NEW c, AtRest(c), NEW t \in m8520!Timers(m8520!ModesA), Adjusted(c.a, t),
         NEW d, d = [c EXCEPT !.a = t]
  PROVE  Adjusts(c, d)
<1>1. c \in m8520!CiaRecords /\ DOMAIN c = CiaFields
  BY CiaType DEF AtRest, Follows
<1>2. d \in m8520!CiaRecords
  BY <1>1, Zenon DEF m8520!CiaRecords
<1>3. But({"a"}, c, d) /\ d.a = t
  BY <1>1 DEF But, CiaFields
<1>4. Follows(d) /\ d.data = c.data /\ d.b = c.b
  BY <1>2, <1>3, LineKept DEF AtRest, But, CiaFields
<1>5. QED
  BY <1>3, <1>4 DEF AtRest, Adjusts, Adjusted

LEMMA WithTimerB ==
  ASSUME NEW c, AtRest(c), NEW t \in m8520!Timers(m8520!ModesB), Adjusted(c.b, t),
         NEW d, d = [c EXCEPT !.b = t]
  PROVE  Adjusts(c, d)
<1>1. c \in m8520!CiaRecords /\ DOMAIN c = CiaFields
  BY CiaType DEF AtRest, Follows
<1>2. d \in m8520!CiaRecords
  BY <1>1, Zenon DEF m8520!CiaRecords
<1>3. But({"b"}, c, d) /\ d.b = t
  BY <1>1 DEF But, CiaFields
<1>4. Follows(d) /\ d.data = c.data /\ d.a = c.a
  BY <1>2, <1>3, LineKept DEF AtRest, But, CiaFields
<1>5. QED
  BY <1>3, <1>4 DEF AtRest, Adjusts, Adjusted

\* A timer gets a new latch, and is loaded from it unless it runs.
LEMMA LatchTimer ==
  ASSUME NEW modes, NEW t \in m8520!Timers(modes), ~t.reloaded, NEW w \in m8520!Word,
         NEW u, u = [t EXCEPT !.latch = w]
  PROVE  /\ u \in m8520!Timers(modes) /\ Adjusted(t, u)
         /\ m8520!Reload(u) \in m8520!Timers(modes) /\ Adjusted(t, m8520!Reload(u))
<1>1. DOMAIN t = TimerFields
  BY TimerType
<1>2. u \in m8520!Timers(modes)
  BY <1>1, Zenon DEF m8520!Timers
<1>3. u.counter = t.counter /\ u.reloaded = t.reloaded
  BY <1>1 DEF TimerFields
<1>4. /\ m8520!Reload(u) \in m8520!Timers(modes)
      /\ m8520!Reload(u).counter = u.latch /\ m8520!Reload(u).latch = u.latch
      /\ m8520!Reload(u).reloaded
  BY <1>2, ReloadIs, Zenon
<1>5. Adjusted(t, u)
  BY <1>3 DEF Adjusted
<1>6. Adjusted(t, m8520!Reload(u))
  BY <1>4 DEF Adjusted
<1>7. QED
  BY <1>2, <1>4, <1>5, <1>6

\* A control register sets a timer after it is loaded, or not.
LEMMA ControlTimer ==
  ASSUME NEW modes, NEW t \in m8520!Timers(modes), ~t.reloaded,
         NEW u, u = t \/ u = m8520!Reload(t),
         NEW w, w.start \in BOOLEAN, w.oneShot \in BOOLEAN, w.mode \in modes,
         NEW v, v = m8520!Set(u, w)
  PROVE  v \in m8520!Timers(modes) /\ Adjusted(t, v)
<1>1. u \in m8520!Timers(modes)
  <2>1. CASE u = t
    BY <2>1
  <2>2. CASE u = m8520!Reload(t)
    BY <2>2, ReloadTimer
  <2>3. QED
    BY <2>1, <2>2
<1>2. DOMAIN u = TimerFields
  BY <1>1, TimerType
<1>3. v = [u EXCEPT !.active = w.start, !.oneShot = w.oneShot, !.mode = w.mode]
  BY DEF m8520!Set
<1>4. v \in m8520!Timers(modes)
  BY <1>1, <1>3, Zenon DEF m8520!Timers
<1>5. v.counter = u.counter /\ v.latch = u.latch /\ v.reloaded = u.reloaded
  BY <1>2, <1>3 DEF TimerFields
<1>6. \/ u.counter = t.counter /\ u.reloaded = t.reloaded
      \/ u.counter = u.latch /\ u.reloaded
  <2>1. CASE u = t
    BY <2>1
  <2>2. CASE u = m8520!Reload(t)
    <3>1. /\ m8520!Reload(t).reloaded
          /\ m8520!Reload(t).counter = t.latch /\ m8520!Reload(t).latch = t.latch
      BY ReloadIs, Zenon
    <3>2. QED
      BY <2>2, <3>1
  <2>3. QED
    BY <2>1, <2>2
<1>7. Adjusted(t, v)
  BY <1>5, <1>6 DEF Adjusted
<1>8. QED
  BY <1>4, <1>7

LEMMA ReadICRAdjusts ==
  ASSUME NEW c, AtRest(c), NEW d, d = m8520!ReadICR(c)
  PROVE  Adjusts(c, d)
<1> DEFINE none == {}
<1>1. /\ c \in m8520!CiaRecords /\ DOMAIN c = CiaFields
      /\ none \in SUBSET m8520!Flags /\ FALSE \in BOOLEAN
  BY CiaType DEF AtRest, Follows
<1>2. d = [c EXCEPT !.data = none, !.irq = FALSE]
  BY DEF m8520!ReadICR
<1> HIDE DEF none
<1>3. d \in m8520!CiaRecords
  BY <1>1, <1>2, Zenon DEF m8520!CiaRecords
<1>4. But({"data", "irq"}, c, d) /\ d.data = none /\ d.irq = FALSE
  BY <1>1, <1>2 DEF But, CiaFields
<1>5. Follows(d) /\ d.a = c.a /\ d.b = c.b
  BY <1>3, <1>4 DEF Follows, But, CiaFields, none
<1>6. QED
  BY <1>4, <1>5 DEF AtRest, Adjusts, Adjusted, none

LEMMA WriteSDRAdjusts ==
  ASSUME NEW c, AtRest(c), NEW d, d = m8520!WriteSDR(c)
  PROVE  Adjusts(c, d)
<1> DEFINE bits == IF c.output THEN 0 ELSE c.bits
<1>1. /\ c \in m8520!CiaRecords /\ DOMAIN c = CiaFields /\ bits \in 0 .. Bits
  BY BoardAssumption, CiaType DEF AtRest, Follows
<1>2. d = [c EXCEPT !.bits = bits]
  BY <1>1 DEF m8520!WriteSDR, CiaFields
<1> HIDE DEF bits
<1>3. d \in m8520!CiaRecords
  BY <1>1, <1>2, Zenon DEF m8520!CiaRecords
<1>4. But({"bits"}, c, d)
  BY <1>1, <1>2 DEF But, CiaFields
<1>5. Follows(d) /\ d.a = c.a /\ d.b = c.b /\ d.data = c.data
  BY <1>3, <1>4, LineKept DEF AtRest, But, CiaFields
<1>6. QED
  BY <1>5 DEF AtRest, Adjusts, Adjusted

LEMMA WriteTimerAdjusts ==
  ASSUME NEW c, AtRest(c), NEW reg \in {"TALO", "TAHI", "TBLO", "TBHI"},
         NEW value \in m8520!Byte, NEW d, d = m8520!WriteTimer(c, reg, value)
  PROVE  Adjusts(c, d)
<1>1. /\ c \in m8520!CiaRecords /\ DOMAIN c = CiaFields
      /\ c.a \in m8520!Timers(m8520!ModesA) /\ c.b \in m8520!Timers(m8520!ModesB)
      /\ ~c.a.reloaded /\ ~c.b.reloaded
  BY CiaType DEF AtRest, Follows
<1>2. c.b.latch \in m8520!Word /\ DOMAIN c.a = TimerFields /\ DOMAIN c.b = TimerFields
  BY <1>1, TimerType
<1> DEFINE low == m8520!Joined(m8520!High(c.b.latch), value)
           high == m8520!Joined(value, m8520!Low(c.b.latch))
<1>3. low \in m8520!Word /\ high \in m8520!Word
  BY <1>2, HalvesOfWord, JoinedWord
<1> HIDE DEF low, high
<1>4. CASE reg = "TALO"
  <2> DEFINE t == [c.a EXCEPT !.latch = low]
  <2>1. d = [c EXCEPT !.a = t]
    BY <1>1, <1>4 DEF m8520!WriteTimer, low, CiaFields
  <2>2. t \in m8520!Timers(m8520!ModesA) /\ Adjusted(c.a, t)
    BY <1>1, <1>3, LatchTimer
  <2> HIDE DEF t
  <2>3. QED
    BY <2>1, <2>2, WithTimerA
<1>5. CASE reg = "TAHI"
  <2> DEFINE u == [c.a EXCEPT !.latch = high]
             t == IF u.active THEN u ELSE m8520!Reload(u)
  <2>1. d = [c EXCEPT !.a = t]
    BY <1>5 DEF m8520!WriteTimer, high
  <2>2. t \in m8520!Timers(m8520!ModesA) /\ Adjusted(c.a, t)
    BY <1>1, <1>3, LatchTimer
  <2> HIDE DEF t
  <2>3. QED
    BY <2>1, <2>2, WithTimerA
<1>6. CASE reg = "TBLO"
  <2> DEFINE t == [c.b EXCEPT !.latch = low]
  <2>1. d = [c EXCEPT !.b = t]
    <3>1. d = [c EXCEPT !.b.latch = m8520!Joined(m8520!High(@), value)]
      BY <1>6 DEF m8520!WriteTimer
    <3>2. QED
      BY <1>1, <1>2, <3>1 DEF low, CiaFields, TimerFields
  <2>2. t \in m8520!Timers(m8520!ModesB) /\ Adjusted(c.b, t)
    BY <1>1, <1>3, LatchTimer
  <2> HIDE DEF t
  <2>3. QED
    BY <2>1, <2>2, WithTimerB
<1>7. CASE reg = "TBHI"
  <2> DEFINE u == [c.b EXCEPT !.latch = high]
             t == IF u.active THEN u ELSE m8520!Reload(u)
  <2>1. d = [c EXCEPT !.b = t]
    <3>1. u = [c.b EXCEPT !.latch = m8520!Joined(value, m8520!Low(@))]
      BY <1>2 DEF high, TimerFields
    <3>2. d = [c EXCEPT !.b = LET b == [c.b EXCEPT !.latch = m8520!Joined(value, m8520!Low(@))]
                              IN  IF b.active THEN b ELSE m8520!Reload(b)]
      BY <1>7 DEF m8520!WriteTimer
    <3> HIDE DEF u
    <3>3. QED
      BY <3>1, <3>2
  <2>2. t \in m8520!Timers(m8520!ModesB) /\ Adjusted(c.b, t)
    BY <1>1, <1>3, LatchTimer
  <2> HIDE DEF t
  <2>3. QED
    BY <2>1, <2>2, WithTimerB
<1>8. QED
  BY <1>4, <1>5, <1>6, <1>7

LEMMA WriteICRAdjusts ==
  ASSUME NEW c, AtRest(c), NEW bits \in SUBSET (m8520!Flags \union {m8520!SET}),
         NEW d, d = m8520!WriteICR(c, bits)
  PROVE  Adjusts(c, d)
<1> DEFINE mask == m8520!NewMask(c, bits)
           e == [c EXCEPT !.mask = mask]
<1>1. c \in m8520!CiaRecords /\ DOMAIN c = CiaFields /\ c.mask \subseteq m8520!Flags
  BY CiaType DEF AtRest, Follows
<1>2. mask \in SUBSET m8520!Flags
  BY <1>1 DEF m8520!NewMask
<1> HIDE DEF mask
<1>3. e \in m8520!CiaRecords
  BY <1>1, <1>2, Zenon DEF m8520!CiaRecords
<1>4. But({"mask"}, c, e)
  BY <1>1 DEF But, CiaFields
<1>5. d = m8520!OutputIRQ(e)
  BY DEF m8520!WriteICR, mask
<1> HIDE DEF e
<1>6. Follows(d) /\ But({"irq"}, e, d)
  BY <1>3, <1>5, OutputIRQIs
<1>7. d.a = c.a /\ d.b = c.b /\ d.data = c.data
  BY <1>4, <1>6 DEF But, CiaFields
<1>8. QED
  BY <1>6, <1>7 DEF AtRest, Adjusts, Adjusted

LEMMA WriteCRAAdjusts ==
  ASSUME NEW c, AtRest(c), NEW w \in ControlA, NEW d, d = m8520!WriteCRA(c, w)
  PROVE  Adjusts(c, d)
<1> DEFINE u == IF w.load \/ (w.oneShot /\ ~c.a.oneShot) THEN m8520!Reload(c.a) ELSE c.a
           t == m8520!Set(u, w)
           bits == IF w.output = c.output THEN c.bits ELSE IF w.output THEN Bits ELSE 0
           output == w.output
           e == [c EXCEPT !.a = t]
<1>1. /\ c \in m8520!CiaRecords /\ DOMAIN c = CiaFields
      /\ c.a \in m8520!Timers(m8520!ModesA) /\ ~c.a.reloaded /\ c.bits \in 0 .. Bits
  BY CiaType DEF AtRest, Follows
<1>2. /\ w.start \in BOOLEAN /\ w.oneShot \in BOOLEAN /\ w.mode \in m8520!ModesA
      /\ output \in BOOLEAN
  BY BoardAssumption, Zenon
<1>3. u = c.a \/ u = m8520!Reload(c.a)
  OBVIOUS
<1>4. bits \in 0 .. Bits
  BY <1>1, BoardAssumption
<1>5. d = [c EXCEPT !.a = t, !.output = output, !.bits = bits]
  BY DEF m8520!WriteCRA
<1> HIDE DEF u, bits, output
<1>6. t \in m8520!Timers(m8520!ModesA) /\ Adjusted(c.a, t)
  BY <1>1, <1>2, <1>3, ControlTimer
<1> HIDE DEF t
<1>7. d \in m8520!CiaRecords
  BY <1>1, <1>2, <1>4, <1>5, <1>6, Zenon DEF m8520!CiaRecords
<1>8. But({"a", "output", "bits"}, c, d) /\ d.a = t
  BY <1>1, <1>5 DEF But, CiaFields
<1>9. Follows(d) /\ d.data = c.data /\ d.b = c.b
  BY <1>7, <1>8, LineKept DEF AtRest, But, CiaFields
<1>10. QED
  BY <1>6, <1>8, <1>9 DEF AtRest, Adjusts, Adjusted

LEMMA WriteCRBAdjusts ==
  ASSUME NEW c, AtRest(c), NEW w \in ControlB, NEW d, d = m8520!WriteCRB(c, w)
  PROVE  Adjusts(c, d)
<1> DEFINE u == IF w.load THEN m8520!Reload(c.b) ELSE c.b
           t == m8520!Set(u, w)
<1>1. c.b \in m8520!Timers(m8520!ModesB) /\ ~c.b.reloaded
  BY CiaType DEF AtRest, Follows
<1>2. w.start \in BOOLEAN /\ w.oneShot \in BOOLEAN /\ w.mode \in m8520!ModesB
  BY BoardAssumption, Zenon
<1>3. u = c.b \/ u = m8520!Reload(c.b)
  OBVIOUS
<1>4. d = [c EXCEPT !.b = t]
  BY DEF m8520!WriteCRB
<1> HIDE DEF u
<1>5. t \in m8520!Timers(m8520!ModesB) /\ Adjusted(c.b, t)
  BY <1>1, <1>2, <1>3, ControlTimer
<1> HIDE DEF t
<1>6. QED
  BY <1>4, <1>5, WithTimerB

-----------------------------------------------------------------------------
(* The board *)

\* Only between the processor's access and the cycle after it is a timer marked as
\* loaded.
ChipInv == /\ Follows(CIA) /\ turn \in {"cpu", "update"}
           /\ turn = "cpu" => ~CIA.a.reloaded /\ ~CIA.b.reloaded

\* What a step of the board does to the chip.
Accessed == /\ turn = "cpu" /\ Adjusts(CIA, CIA') /\ turn' \in {"cpu", "update"}
            /\ turn' = "cpu" => ~CIA'.a.reloaded /\ ~CIA'.b.reloaded
Passed   == turn = "update" /\ turn' = "cpu" /\ Cycled(CIA, CIA')
ChipDone == Accessed \/ Passed \/ (CIA' = CIA /\ turn' = turn)

LEMMA AccessDone ==
  ASSUME ChipInv, NEW d, Access(d), Adjusts(CIA, d)
  PROVE  Accessed
BY DEF ChipInv, Access, Accessed

LEMMA UpdateDone ==
  ASSUME ChipInv, Update
  PROVE  Passed
<1> DEFINE executed == m8520!Execute(CIA)
<1>1. Cycled(CIA, executed)
  BY ExecuteIs DEF ChipInv
<1>2. turn = "update" /\ turn' = "cpu"
  BY DEF Update
<1>3. CIA' = executed \/ \E srq \in BOOLEAN : CIA' = m8520!SetPinCNT(executed, srq)
  BY Zenon DEF Update
<1> HIDE DEF executed
<1>4. CASE CIA' = executed
  BY <1>1, <1>2, <1>4 DEF Passed
<1>5. CASE \E srq \in BOOLEAN : CIA' = m8520!SetPinCNT(executed, srq)
  <2>1. PICK srq \in BOOLEAN : CIA' = m8520!SetPinCNT(executed, srq)
    BY <1>5
  <2>2. Follows(CIA') /\ Untimed(executed, CIA')
    BY <1>1, <2>1, SetPinCNTIs DEF Cycled
  <2>3. /\ ("TA" \in CIA'.data) = ("TA" \in executed.data)
        /\ ("TB" \in CIA'.data) = ("TB" \in executed.data)
        /\ CIA'.a = executed.a /\ CIA'.b = executed.b
    BY <2>2 DEF Untimed
  <2>4. Cycled(CIA, CIA')
    BY <1>1, <2>2, <2>3, Zenon DEF Cycled
  <2>5. QED
    BY <1>2, <2>4 DEF Passed
<1>6. QED
  BY <1>3, <1>4, <1>5

LEMMA ChipStep == ChipInv /\ [BoardNext]_allVars => ChipDone
<1> SUFFICES ASSUME ChipInv, [BoardNext]_allVars PROVE ChipDone
  OBVIOUS
<1>1. ASSUME turn = "cpu" PROVE AtRest(CIA)
  BY <1>1 DEF ChipInv, AtRest
<1>2. CASE UNCHANGED allVars
  BY <1>2 DEF allVars, ChipDone
<1>3. CASE Controller
  BY <1>3 DEF Controller, boardVars, ChipDone
<1>4. CASE ReadICR
  <2>1. Access(m8520!ReadICR(CIA)) /\ turn = "cpu"
    BY <1>4 DEF ReadICR, Access
  <2>2. QED
    BY <1>1, <2>1, AccessDone, ReadICRAdjusts DEF ChipDone
<1>5. CASE WriteSDR
  <2>1. Access(m8520!WriteSDR(CIA)) /\ turn = "cpu"
    BY <1>5 DEF WriteSDR, Access
  <2>2. QED
    BY <1>1, <2>1, AccessDone, WriteSDRAdjusts DEF ChipDone
<1>6. CASE WriteTimers
  <2>1. PICK w \in TimerWrites : Access(m8520!WriteTimer(CIA, w[1], w[2]))
    BY <1>6, Zenon DEF WriteTimers
  <2>2. turn = "cpu"
    BY <2>1 DEF Access
  <2>3. w[1] \in {"TALO", "TAHI", "TBLO", "TBHI"} /\ w[2] \in m8520!Byte
    BY BoardAssumption
  <2>4. Adjusts(CIA, m8520!WriteTimer(CIA, w[1], w[2]))
    BY <1>1, <2>2, <2>3, WriteTimerAdjusts
  <2>5. QED
    BY <2>1, <2>4, AccessDone DEF ChipDone
<1>7. CASE WriteControl
  <2>1. CASE \E w \in ControlA : Access(m8520!WriteCRA(CIA, w))
    <3>1. PICK w \in ControlA : Access(m8520!WriteCRA(CIA, w))
      BY <2>1
    <3>2. turn = "cpu"
      BY <3>1 DEF Access
    <3>3. QED
      BY <1>1, <3>1, <3>2, AccessDone, WriteCRAAdjusts DEF ChipDone
  <2>2. CASE \E w \in ControlB : Access(m8520!WriteCRB(CIA, w))
    <3>1. PICK w \in ControlB : Access(m8520!WriteCRB(CIA, w))
      BY <2>2
    <3>2. turn = "cpu"
      BY <3>1 DEF Access
    <3>3. QED
      BY <1>1, <3>1, <3>2, AccessDone, WriteCRBAdjusts DEF ChipDone
  <2>3. QED
    BY <1>7, <2>1, <2>2, Zenon DEF WriteControl
<1>8. CASE WriteMasks
  <2>1. PICK bits \in MaskWrites : Access(m8520!WriteICR(CIA, bits))
    BY <1>8, Zenon DEF WriteMasks
  <2>2. turn = "cpu"
    BY <2>1 DEF Access
  <2>3. QED
    <3>1. bits \in SUBSET (m8520!Flags \union {m8520!SET})
      BY BoardAssumption
    <3>2. QED
      BY <1>1, <2>1, <2>2, <3>1, AccessDone, WriteICRAdjusts DEF ChipDone
<1>9. CASE NoAccess
  <2>1. Access(CIA) /\ turn = "cpu"
    BY <1>9 DEF NoAccess, Access
  <2>2. QED
    BY <1>1, <2>1, AccessDone, AdjustsItself DEF ChipDone
<1>10. CASE WritePortA
  <2>1. turn = "cpu" /\ turn' = "update" /\ CIA' = CIA
    BY <1>10 DEF WritePortA
  <2>2. QED
    BY <1>1, <2>1, AdjustsItself DEF ChipDone, Accessed
<1>11. CASE Attention
  <2>1. turn = "cpu" /\ turn' = turn /\ CIA' = m8520!SetPinFLAG(CIA, ~CIA.flagPin)
    BY <1>11 DEF Attention
  <2>2. (~CIA.flagPin) \in BOOLEAN
    OBVIOUS
  <2>3. Follows(CIA') /\ Untimed(CIA, CIA')
    BY <2>1, <2>2, SetPinFLAGIs DEF ChipInv
  <2>4. AtRest(CIA)
    BY <1>1, <2>1
  <2>5. Adjusts(CIA, CIA')
    BY <2>3, <2>4 DEF AtRest, Adjusts, Adjusted, Untimed
  <2>6. ~CIA'.a.reloaded /\ ~CIA'.b.reloaded
    BY <2>3, <2>4 DEF AtRest, Untimed
  <2>7. QED
    BY <2>1, <2>5, <2>6 DEF ChipDone, Accessed
<1>12. CASE Update
  BY <1>12, UpdateDone DEF ChipDone
<1>13. QED
  BY <1>2, <1>3, <1>4, <1>5, <1>6, <1>7, <1>8, <1>9, <1>10, <1>11, <1>12 DEF BoardNext

LEMMA ChipNext == ChipInv /\ ChipDone => ChipInv'
BY DEF ChipInv, ChipDone, Accessed, Passed, Adjusts, Cycled

LEMMA ChipReset == BoardInit => CIA = m8520!Reset /\ turn = "cpu" /\ ChipInv
<1> SUFFICES ASSUME BoardInit PROVE CIA = m8520!Reset /\ turn = "cpu" /\ ChipInv
  OBVIOUS
<1> DEFINE none == {}
           timer == m8520!Stopped
           max == m8520!Base * m8520!Base - 1
<1>1. CIA = m8520!Reset /\ turn = "cpu"
  BY DEF BoardInit
<1>2. 0 \in m8520!Word /\ max \in m8520!Word
  BY WordType
<1>3. timer = [counter |-> 0, latch |-> max, active |-> FALSE, oneShot |-> FALSE,
               mode |-> "PHI2", reloaded |-> FALSE]
  BY DEF m8520!Stopped
<1> HIDE DEF max
<1>4. /\ FALSE \in BOOLEAN /\ TRUE \in BOOLEAN /\ Bits \in 0 .. Bits
      /\ "PHI2" \in m8520!ModesA /\ "PHI2" \in m8520!ModesB /\ none \in SUBSET m8520!Flags
  BY BoardAssumption DEF m8520!ModesA, m8520!ModesB
<1>5. timer \in m8520!Timers(m8520!ModesA) /\ timer \in m8520!Timers(m8520!ModesB)
  BY <1>2, <1>3, <1>4, Zenon DEF m8520!Timers
<1>6. CIA = [mask |-> none, data |-> none, irq |-> FALSE, flagPin |-> TRUE, cnt |-> FALSE,
             cntOld |-> FALSE, output |-> FALSE, bits |-> Bits, a |-> timer, b |-> timer]
  BY <1>1 DEF m8520!Reset
<1>7. ~timer.reloaded
  BY <1>3
<1> HIDE DEF none, timer
<1>8. CIA \in m8520!CiaRecords
  BY <1>4, <1>5, <1>6, Zenon DEF m8520!CiaRecords
<1>9. ~CIA.irq /\ CIA.mask = none /\ CIA.a = timer /\ CIA.b = timer
  BY <1>6
<1>10. QED
  BY <1>1, <1>7, <1>8, <1>9 DEF ChipInv, Follows, none

\* The line to the processor follows the flags that are enabled, on every path that
\* sets, enables, disables or reads them: the serial port's and the flag pin's, both
\* timers' in one cycle, and the program's.
THEOREM LineFollows == BoardSpec => []InterruptFollowsFlags
<1>1. BoardInit => ChipInv
  BY ChipReset
<1>2. ChipInv /\ [BoardNext]_allVars => ChipInv'
  BY ChipStep, ChipNext
<1>3. ChipInv => InterruptFollowsFlags
  BY DEF ChipInv, Follows, InterruptFollowsFlags
<1>4. QED
  BY <1>1, <1>2, <1>3, PTL DEF BoardSpec

-----------------------------------------------------------------------------
(* The timers *)

\* The cycles to a timer's next interrupt, and what a cycle makes of them.
LEMMA TickCounts ==
  ASSUME NEW modes, NEW t \in m8520!Timers(modes), NEW u \in m8520!Timers(modes),
         NEW was, NEW is, NEW pulse, Ticked(t, u, pulse, was, is),
         NEW left, NEW next,
         t.active /\ t.reloaded => left = t.counter + 2,
         ~(t.active /\ t.reloaded) => left = t.counter + 1,
         next = u.counter + 1
  PROVE  /\ u.latch = t.latch /\ u.oneShot = t.oneShot
         /\ pulse =>
              \/ ~t.active /\ next = left /\ u.active = t.active /\ (is <=> was)
              \/ /\ t.active /\ left > 1 /\ next = left - 1
                 /\ u.active = t.active /\ (is <=> was)
              \/ /\ t.active /\ left = 1 /\ next = t.latch + 1
                 /\ u.active = (~t.oneShot) /\ is
<1>1. /\ t.counter \in m8520!Word /\ t.latch \in m8520!Word /\ t.active \in BOOLEAN
      /\ t.oneShot \in BOOLEAN /\ t.reloaded \in BOOLEAN
      /\ u.active \in BOOLEAN /\ u.oneShot \in BOOLEAN
  BY TimerType
<1>2. t.counter \in Nat
  BY <1>1, WordType
<1>3. /\ t.active /\ t.reloaded => left = t.counter + 2
      /\ ~(t.active /\ t.reloaded) => left = t.counter + 1
  OBVIOUS
<1>4. m8520!Counts(t) <=> t.active /\ ~t.reloaded
  BY DEF m8520!Counts
<1>5. m8520!TimesOut(t) <=> t.active /\ ~t.reloaded /\ t.counter = 0
  BY DEF m8520!Counts, m8520!TimesOut
<1>6. u.latch = t.latch /\ u.oneShot = t.oneShot
  BY <1>1 DEF Ticked
<1>7. CASE pulse /\ m8520!TimesOut(t)
  <2>1. u.counter = t.latch /\ (u.active <=> ~t.oneShot) /\ is
    BY <1>7, Zenon DEF Ticked
  <2>2. u.active = (~t.oneShot)
    BY <1>1, <2>1
  <2>3. t.active /\ left = 1
    BY <1>2, <1>3, <1>5, <1>7
  <2>4. next = t.latch + 1
    BY <2>1
  <2>5. QED
    BY <1>6, <2>1, <2>2, <2>3, <2>4, Zenon
<1>8. CASE pulse /\ ~m8520!TimesOut(t)
  <2>1. /\ u.active <=> t.active
        /\ is <=> was
        /\ u.counter = IF m8520!Counts(t) THEN m8520!Down(t.counter) ELSE t.counter
    BY <1>8, Zenon DEF Ticked
  <2>2. u.active = t.active /\ (is <=> was)
    BY <1>1, <2>1
  <2>3. u.counter = IF m8520!Counts(t) THEN m8520!Down(t.counter) ELSE t.counter
    BY <2>1
  <2>4. CASE ~t.active
    <3>1. u.counter = t.counter
      BY <1>4, <2>3, <2>4
    <3>2. next = left
      BY <1>3, <2>4, <3>1
    <3>3. QED
      BY <1>6, <2>2, <2>4, <3>2, Zenon
  <2>5. CASE t.active
    <3>1. left > 1 /\ next = left - 1
      <4>1. CASE t.reloaded
        <5>1. u.counter = t.counter
          BY <1>4, <2>3, <4>1
        <5>2. QED
          BY <1>2, <1>3, <2>5, <4>1, <5>1
      <4>2. CASE ~t.reloaded
        <5>1. t.counter > 0
          BY <1>2, <1>5, <1>8, <2>5, <4>2
        <5>2. u.counter = t.counter - 1
          BY <1>1, <1>4, <2>3, <2>5, <4>2, <5>1, DownWord
        <5>3. QED
          BY <1>2, <1>3, <4>2, <5>1, <5>2
      <4>3. QED
        BY <1>1, <4>1, <4>2
    <3>2. QED
      BY <1>6, <2>2, <2>5, <3>1, Zenon
  <2>6. QED
    BY <1>1, <2>4, <2>5
<1>9. QED
  BY <1>6, <1>7, <1>8

\* What an access makes of them: the same, or they start from the latch.
LEMMA AccessCounts ==
  ASSUME NEW modes, NEW t \in m8520!Timers(modes), NEW u \in m8520!Timers(modes),
         Adjusted(t, u), NEW due \in BOOLEAN
  PROVE  \/ CountdownLeft(u, due) = t.counter + 1
         \/ CountdownLeft(u, due) = u.latch + IF u.active /\ due THEN 2 ELSE 1
BY DEF Adjusted, CountdownLeft

AStep == A!Cycle \/ A!Access
BStep == B!Cycle \/ B!Access

LEMMA TimerAStep ==
  ASSUME ChipInv, ChipDone
  PROVE  [AStep]_(A!countdownVars)
<1> DEFINE t == CIA.a
           u == CIA'.a
           was == "TA" \in CIA.data
           is == "TA" \in CIA'.data
           pulse == m8520!PulseA(CIA)
           later == m8520!PulseA(CIA')
<1>1. CIA \in m8520!CiaRecords /\ CIA' \in m8520!CiaRecords
  BY ChipNext DEF ChipInv, Follows
<1>2. t \in m8520!Timers(m8520!ModesA) /\ u \in m8520!Timers(m8520!ModesA)
  BY <1>1, CiaType
<1>3. was \in BOOLEAN /\ is \in BOOLEAN
  OBVIOUS
<1>4. DueA = (turn = "update" /\ pulse) /\ DueA' = (turn' = "update" /\ later)
  BY DEF DueA
<1>5. DueA \in BOOLEAN /\ DueA' \in BOOLEAN
  BY DEF DueA
<1>6. /\ CountdownLeft(CIA.a, DueA) = CountdownLeft(t, DueA)
      /\ CountdownLeft(CIA.a, DueA)' = CountdownLeft(u, DueA')
  BY DEF CountdownLeft
<1>7. CASE Accessed
  <2>1. ~DueA /\ Adjusted(t, u) /\ (is => was)
    BY <1>4, <1>7 DEF Accessed, Adjusts
  <2>2. CountdownLeft(t, DueA) = t.counter + 1
    BY <2>1 DEF CountdownLeft
  <2>3. \/ CountdownLeft(u, DueA') = CountdownLeft(t, DueA)
        \/ CountdownLeft(u, DueA') = u.latch + IF u.active /\ DueA' THEN 2 ELSE 1
    BY <1>2, <1>5, <2>1, <2>2, AccessCounts
  <2>4. A!Access
    BY <1>6, <2>1, <2>3, Zenon DEF A!Access, A!Loads
  <2>5. QED
    BY <2>4 DEF AStep
<1>8. CASE Passed /\ ~pulse
  <2>1. Ticked(t, u, pulse, was, is) /\ turn' = "cpu"
    BY <1>8 DEF Passed, Cycled
  <2>2. ~DueA /\ ~DueA'
    BY <1>4, <1>8, <2>1
  <2>3. u.counter = t.counter /\ (is => was)
    BY <1>8, <2>1, Zenon DEF Ticked
  <2>4. CountdownLeft(u, DueA') = CountdownLeft(t, DueA)
    BY <2>2, <2>3 DEF CountdownLeft
  <2>5. A!Access
    BY <1>6, <2>2, <2>3, <2>4, Zenon DEF A!Access
  <2>6. QED
    BY <2>5 DEF AStep
<1>9. CASE Passed /\ pulse
  <2>1. Ticked(t, u, pulse, was, is) /\ turn' = "cpu" /\ turn = "update"
    BY <1>9 DEF Passed, Cycled
  <2>2. DueA /\ ~DueA'
    BY <1>4, <1>9, <2>1
  <2>3. CountdownLeft(u, DueA') = u.counter + 1
    BY <2>2 DEF CountdownLeft
  <2> DEFINE left == CountdownLeft(t, DueA)
             next == CountdownLeft(u, DueA')
  <2>9. /\ t.active /\ t.reloaded => left = t.counter + 2
        /\ ~(t.active /\ t.reloaded) => left = t.counter + 1
        /\ next = u.counter + 1
    BY <2>2, <2>3 DEF CountdownLeft
  <2>4. /\ u.latch = t.latch /\ u.oneShot = t.oneShot
        /\ \/ ~t.active /\ next = left /\ u.active = t.active /\ is = was
           \/ t.active /\ left > 1 /\ next = left - 1 /\ u.active = t.active /\ is = was
           \/ t.active /\ left = 1 /\ next = t.latch + 1 /\ u.active = (~t.oneShot) /\ is
    <3> HIDE DEF t, u, was, is, pulse, left, next
    <3>1. /\ u.latch = t.latch /\ u.oneShot = t.oneShot
          /\ pulse =>
               \/ ~t.active /\ next = left /\ u.active = t.active /\ (is <=> was)
               \/ /\ t.active /\ left > 1 /\ next = left - 1
                  /\ u.active = t.active /\ (is <=> was)
               \/ /\ t.active /\ left = 1 /\ next = t.latch + 1
                  /\ u.active = (~t.oneShot) /\ is
      BY <1>2, <2>1, <2>9, TickCounts
    <3>2. (is <=> was) => is = was
      BY <1>3
    <3>3. QED
      BY <1>9, <3>1, <3>2, Zenon
  <2>5. CASE ~t.active /\ next = left /\ u.active = t.active /\ is = was
    <3>1. A!Rest
      BY <1>6, <2>5, Zenon DEF A!Rest
    <3>2. A!Cycle
      BY <2>2, <2>4, <3>1, Zenon DEF A!Cycle
    <3>3. QED
      BY <3>2 DEF AStep
  <2>6. CASE t.active /\ left > 1 /\ next = left - 1 /\ u.active = t.active /\ is = was
    <3>1. A!Count
      BY <1>6, <2>6, Zenon DEF A!Count
    <3>2. A!Cycle
      BY <2>2, <2>4, <2>6, <3>1, Zenon DEF A!Cycle
    <3>3. QED
      BY <3>2 DEF AStep
  <2>7. CASE t.active /\ left = 1 /\ next = t.latch + 1 /\ u.active = (~t.oneShot) /\ is
    <3>1. A!TimeOut
      BY <1>6, <2>7, Zenon DEF A!TimeOut
    <3>2. A!Cycle
      BY <2>2, <2>4, <2>7, <3>1, Zenon DEF A!Cycle
    <3>3. QED
      BY <3>2 DEF AStep
  <2>8. QED
    BY <2>4, <2>5, <2>6, <2>7
<1>10. CASE CIA' = CIA /\ turn' = turn
  BY <1>10, Zenon DEF A!countdownVars, DueA, CountdownLeft
<1>11. QED
  BY <1>7, <1>8, <1>9, <1>10 DEF ChipDone

LEMMA TimerBStep ==
  ASSUME ChipInv, ChipDone
  PROVE  [BStep]_(B!countdownVars)
<1> DEFINE t == CIA.b
           u == CIA'.b
           was == "TB" \in CIA.data
           is == "TB" \in CIA'.data
           pulse == m8520!PulsesB(CIA)
           later == m8520!PulsesB(CIA')
<1>1. CIA \in m8520!CiaRecords /\ CIA' \in m8520!CiaRecords
  BY ChipNext DEF ChipInv, Follows
<1>2. t \in m8520!Timers(m8520!ModesB) /\ u \in m8520!Timers(m8520!ModesB)
  BY <1>1, CiaType
<1>3. was \in BOOLEAN /\ is \in BOOLEAN
  OBVIOUS
<1>4. DueB = (turn = "update" /\ pulse) /\ DueB' = (turn' = "update" /\ later)
  BY DEF DueB
<1>5. DueB \in BOOLEAN /\ DueB' \in BOOLEAN
  BY DEF DueB
<1>6. /\ CountdownLeft(CIA.b, DueB) = CountdownLeft(t, DueB)
      /\ CountdownLeft(CIA.b, DueB)' = CountdownLeft(u, DueB')
  BY DEF CountdownLeft
<1>7. CASE Accessed
  <2>1. ~DueB /\ Adjusted(t, u) /\ (is => was)
    BY <1>4, <1>7 DEF Accessed, Adjusts
  <2>2. CountdownLeft(t, DueB) = t.counter + 1
    BY <2>1 DEF CountdownLeft
  <2>3. \/ CountdownLeft(u, DueB') = CountdownLeft(t, DueB)
        \/ CountdownLeft(u, DueB') = u.latch + IF u.active /\ DueB' THEN 2 ELSE 1
    BY <1>2, <1>5, <2>1, <2>2, AccessCounts
  <2>4. B!Access
    BY <1>6, <2>1, <2>3, Zenon DEF B!Access, B!Loads
  <2>5. QED
    BY <2>4 DEF BStep
<1>8. CASE Passed /\ ~pulse
  <2>1. Ticked(t, u, pulse, was, is) /\ turn' = "cpu"
    BY <1>8 DEF Passed, Cycled
  <2>2. ~DueB /\ ~DueB'
    BY <1>4, <1>8, <2>1
  <2>3. u.counter = t.counter /\ (is => was)
    BY <1>8, <2>1, Zenon DEF Ticked
  <2>4. CountdownLeft(u, DueB') = CountdownLeft(t, DueB)
    BY <2>2, <2>3 DEF CountdownLeft
  <2>5. B!Access
    BY <1>6, <2>2, <2>3, <2>4, Zenon DEF B!Access
  <2>6. QED
    BY <2>5 DEF BStep
<1>9. CASE Passed /\ pulse
  <2>1. Ticked(t, u, pulse, was, is) /\ turn' = "cpu" /\ turn = "update"
    BY <1>9 DEF Passed, Cycled
  <2>2. DueB /\ ~DueB'
    BY <1>4, <1>9, <2>1
  <2>3. CountdownLeft(u, DueB') = u.counter + 1
    BY <2>2 DEF CountdownLeft
  <2> DEFINE left == CountdownLeft(t, DueB)
             next == CountdownLeft(u, DueB')
  <2>9. /\ t.active /\ t.reloaded => left = t.counter + 2
        /\ ~(t.active /\ t.reloaded) => left = t.counter + 1
        /\ next = u.counter + 1
    BY <2>2, <2>3 DEF CountdownLeft
  <2>4. /\ u.latch = t.latch /\ u.oneShot = t.oneShot
        /\ \/ ~t.active /\ next = left /\ u.active = t.active /\ is = was
           \/ t.active /\ left > 1 /\ next = left - 1 /\ u.active = t.active /\ is = was
           \/ t.active /\ left = 1 /\ next = t.latch + 1 /\ u.active = (~t.oneShot) /\ is
    <3> HIDE DEF t, u, was, is, pulse, left, next
    <3>1. /\ u.latch = t.latch /\ u.oneShot = t.oneShot
          /\ pulse =>
               \/ ~t.active /\ next = left /\ u.active = t.active /\ (is <=> was)
               \/ /\ t.active /\ left > 1 /\ next = left - 1
                  /\ u.active = t.active /\ (is <=> was)
               \/ /\ t.active /\ left = 1 /\ next = t.latch + 1
                  /\ u.active = (~t.oneShot) /\ is
      BY <1>2, <2>1, <2>9, TickCounts
    <3>2. (is <=> was) => is = was
      BY <1>3
    <3>3. QED
      BY <1>9, <3>1, <3>2, Zenon
  <2>5. CASE ~t.active /\ next = left /\ u.active = t.active /\ is = was
    <3>1. B!Rest
      BY <1>6, <2>5, Zenon DEF B!Rest
    <3>2. B!Cycle
      BY <2>2, <2>4, <3>1, Zenon DEF B!Cycle
    <3>3. QED
      BY <3>2 DEF BStep
  <2>6. CASE t.active /\ left > 1 /\ next = left - 1 /\ u.active = t.active /\ is = was
    <3>1. B!Count
      BY <1>6, <2>6, Zenon DEF B!Count
    <3>2. B!Cycle
      BY <2>2, <2>4, <2>6, <3>1, Zenon DEF B!Cycle
    <3>3. QED
      BY <3>2 DEF BStep
  <2>7. CASE t.active /\ left = 1 /\ next = t.latch + 1 /\ u.active = (~t.oneShot) /\ is
    <3>1. B!TimeOut
      BY <1>6, <2>7, Zenon DEF B!TimeOut
    <3>2. B!Cycle
      BY <2>2, <2>4, <2>7, <3>1, Zenon DEF B!Cycle
    <3>3. QED
      BY <3>2 DEF BStep
  <2>8. QED
    BY <2>4, <2>5, <2>6, <2>7
<1>10. CASE CIA' = CIA /\ turn' = turn
  BY <1>10, Zenon DEF B!countdownVars, DueB, CountdownLeft
<1>11. QED
  BY <1>7, <1>8, <1>9, <1>10 DEF ChipDone

LEMMA TimersStart == BoardInit => A!CountdownInit /\ B!CountdownInit
<1> SUFFICES ASSUME BoardInit PROVE A!CountdownInit /\ B!CountdownInit
  OBVIOUS
<1> DEFINE max == m8520!Base * m8520!Base - 1
<1>1. CIA = m8520!Reset /\ turn = "cpu"
  BY ChipReset
<1>2. /\ CIA.a.counter = 0 /\ CIA.a.latch = max /\ ~CIA.a.active /\ ~CIA.a.oneShot
      /\ CIA.b.counter = 0 /\ CIA.b.latch = max /\ ~CIA.b.active /\ ~CIA.b.oneShot
      /\ CIA.data = {}
  BY <1>1 DEF m8520!Reset, m8520!Stopped
<1>3. max \in Nat
  BY WordType
<1> HIDE DEF max
<1>4. DueA = FALSE /\ DueB = FALSE
  BY <1>1 DEF DueA, DueB
<1>5. CountdownLeft(CIA.a, DueA) = 1 /\ CountdownLeft(CIA.b, DueB) = 1
  BY <1>2, <1>4 DEF CountdownLeft
<1>6. A!CountdownInit
  BY <1>2, <1>3, <1>4, <1>5 DEF A!CountdownInit
<1>7. B!CountdownInit
  BY <1>2, <1>3, <1>4, <1>5 DEF B!CountdownInit
<1>8. QED
  BY <1>6, <1>7

\* Both timers keep what a countdown promises, timer B when it counts timer A's
\* underflows too: each cycle that should count counts once, and the flag is raised in
\* the cycle in which the time is up and in no other, whatever the program writes,
\* starts, stops or loads between two cycles.
THEOREM TimersCountDown == BoardSpec => TimersKeepPromise
<1>1. BoardInit => ChipInv /\ A!CountdownInit /\ B!CountdownInit
  BY ChipReset, TimersStart
<1>2. ChipInv /\ [BoardNext]_allVars => ChipInv'
  BY ChipStep, ChipNext
<1>3. ChipInv /\ [BoardNext]_allVars => [AStep]_(A!countdownVars) /\ [BStep]_(B!countdownVars)
  BY ChipStep, TimerAStep, TimerBStep, Zenon
<1>4. [][AStep]_(A!countdownVars) /\ A!CountdownInit => A!CountdownSpec
  BY PTL DEF A!CountdownSpec, AStep
<1>5. [][BStep]_(B!countdownVars) /\ B!CountdownInit => B!CountdownSpec
  BY PTL DEF B!CountdownSpec, BStep
<1>6. QED
  BY <1>1, <1>2, <1>3, <1>4, <1>5, PTL DEF BoardSpec, TimersKeepPromise

-----------------------------------------------------------------------------
(* The disk controller on the board *)

\* Port A sets the controller's side and the motor's bits of its status, nothing
\* that says where the head is or what the command does.
LEMMA PortAKeeps ==
  ASSUME Inv, WritePortA
  PROVE  Inv' /\ disks' = disks
<1>1. /\ UNCHANGED <<disks, image, prog>> /\ DOMAIN fdc = FdcFields
      /\ HeadInv /\ ProgramInv /\ WriteInv
  BY DEF WritePortA, Inv, Shapes
<1>2. \E side \in Sides : \E new :
        /\ fdc' = [fdc EXCEPT !.side = side, !.status = new]
        /\ "busy" \in new <=> "busy" \in fdc.status
  <2> DEFINE status(q) == IF q.motor = port.motor THEN fdc.status
                          ELSE IF q.motor THEN fdc.status \union {"motor", "spinup"}
                          ELSE fdc.status \ {"motor", "spinup"}
  <2>1. PICK motor \in BOOLEAN, side \in Sides :
          fdc' = [fdc EXCEPT !.side = side,
                    !.status = IF port'.motor = port.motor THEN @
                               ELSE IF port'.motor THEN @ \union {"motor", "spinup"}
                               ELSE @ \ {"motor", "spinup"}]
    BY Zenon DEF WritePortA
  <2>2. fdc' = [fdc EXCEPT !.side = side, !.status = status(port')]
    BY <1>1, <2>1 DEF FdcFields
  <2>3. "busy" \in status(port') <=> "busy" \in fdc.status
    OBVIOUS
  <2> HIDE DEF status
  <2>4. QED
    BY <2>2, <2>3
<1>3. /\ DOMAIN fdc' = FdcFields /\ fdc'.side \in Sides
      /\ "busy" \in fdc'.status <=> "busy" \in fdc.status
      /\ \A f \in FdcFields \ {"side", "status"} : fdc'[f] = fdc[f]
  BY <1>1, <1>2 DEF FdcFields
<1>4. /\ fdc'.type = fdc.type /\ fdc'.stage = fdc.stage /\ fdc'.command = fdc.command
      /\ fdc'.at = fdc.at /\ fdc'.offset = fdc.offset /\ fdc'.dir = fdc.dir
      /\ fdc'.data = fdc.data /\ fdc'.sub = fdc.sub /\ fdc'.sync = fdc.sync
      /\ fdc'.track = fdc.track /\ fdc'.sector = fdc.sector /\ fdc'.index = fdc.index
  BY <1>3 DEF FdcFields
<1>5. Shapes' /\ Layout(disks')
  BY <1>1, <1>3 DEF Inv, Shapes, DisksShape, Layout
<1>6. HeadInv'
  BY <1>1, <1>3, <1>4 DEF HeadInv
<1>7. ProgramInv'
  BY <1>1, <1>3, <1>4 DEF ProgramInv
<1>8. WriteInv'
  BY <1>1, <1>4 DEF WriteInv, Position, HeaderPosition, AtHeader, OfSector
<1>9. QED
  BY <1>1, <1>5, <1>6, <1>7, <1>8 DEF Inv

LEMMA BoardKeepsDisk ==
  ASSUME Inv, [BoardNext]_allVars
  PROVE  Inv' /\ (UNCHANGED vars \/ disks' = disks \/ Next)
<1>1. CASE UNCHANGED vars
  BY <1>1, NextInv
<1>2. CASE Controller
  BY <1>2, NextInv DEF Controller
<1>3. CASE WritePortA
  BY <1>3, PortAKeeps
<1>4. ASSUME NEW d, Access(d) PROVE UNCHANGED vars
  BY <1>4 DEF Access, vars
<1>5. CASE ReadICR \/ WriteSDR \/ NoAccess
  BY <1>1, <1>4, <1>5 DEF ReadICR, WriteSDR, NoAccess
<1>6. CASE WriteTimers \/ WriteControl \/ WriteMasks
  <2>1. \E d : Access(d)
    BY <1>6, Zenon DEF WriteTimers, WriteControl, WriteMasks
  <2>2. QED
    BY <1>1, <1>4, <2>1
<1>7. CASE Attention \/ Update
  <2>1. UNCHANGED vars
    BY <1>7 DEF Attention, Update, vars
  <2>2. QED
    BY <1>1, <2>1
<1>8. CASE UNCHANGED allVars
  BY <1>1, <1>8 DEF allVars, vars
<1>9. QED
  BY <1>2, <1>3, <1>5, <1>6, <1>7, <1>8 DEF BoardNext

\* On the board, too, nothing but the controller's own writes reaches a disk.
THEOREM BoardWritesItsSector == BoardSpec => OnlyTheSector
<1> DEFINE Only ==
      \A i \in Images : disks'[i] # disks[i] =>
        /\ i = image /\ fdc.track = fdc.at /\ fdc.sector \in Sectors
        /\ \A t \in Tracks, side \in Sides, o \in 0 .. TrackLength :
             disks'[i][t][side][o] # disks[i][t][side][o] =>
                t = fdc.at /\ side = fdc.side /\ o \in DataCells(fdc.sector)
<1>1. BoardInit => Inv
  BY InitInv DEF BoardInit
<1>2. Inv /\ [BoardNext]_allVars => Inv' /\ [Only]_vars
  <2> SUFFICES ASSUME Inv, [BoardNext]_allVars PROVE Inv' /\ [Only]_vars
    OBVIOUS
  <2>1. Inv'
    BY BoardKeepsDisk
  <2>2. UNCHANGED vars \/ disks' = disks \/ Next
    BY BoardKeepsDisk
  <2>3. disks' = disks => Only
    OBVIOUS
  <2>4. CASE Next
    <3>1. WritesItsSector
      BY <2>4, NextInv
    <3>2. QED
      BY <2>1, <3>1, WritesOnly
  <2>5. QED
    BY <2>1, <2>2, <2>3, <2>4
<1>3. QED
  BY <1>1, <1>2, PTL DEF BoardSpec, OnlyTheSector

-----------------------------------------------------------------------------
(* What is found, read and written on the board *)

\* The program uses the controller or another part of the board, never both.
DiskInv == uses = "disk" => FoundInv
ReadingInv == uses = "disk" => MarkInv /\ ReadInv /\ ReadsWhatIsThere
WritingInv == uses = "disk" => Framed(disks) /\ GivenInv /\ WritesWhatIsGiven
OtherUse == uses # "disk" => prog.op = "none"

\* What the program uses stays, and only the controller's steps are the disk's.
LEMMA OneUse ==
  ASSUME [BoardNext]_allVars
  PROVE  /\ uses' = uses
         /\ uses = "disk" => [Next]_vars
         /\ uses # "disk" => prog' = prog
<1>1. CASE Controller
  BY <1>1 DEF Controller, boardVars
<1>2. CASE WritePortA
  BY <1>2 DEF WritePortA
<1>3. ASSUME NEW d, Access(d) PROVE uses' = uses /\ UNCHANGED vars
  BY <1>3 DEF Access, vars
<1>4. CASE ReadICR \/ WriteSDR \/ NoAccess
  <2>1. uses' = uses /\ UNCHANGED vars
    BY <1>3, <1>4 DEF ReadICR, WriteSDR, NoAccess
  <2>2. QED
    BY <2>1 DEF vars
<1>5. CASE WriteTimers \/ WriteControl \/ WriteMasks
  <2>1. \E d : Access(d)
    BY <1>5, Zenon DEF WriteTimers, WriteControl, WriteMasks
  <2>2. uses' = uses /\ UNCHANGED vars
    BY <1>3, <2>1
  <2>3. QED
    BY <2>2 DEF vars
<1>6. CASE Attention \/ Update
  BY <1>6 DEF Attention, Update, vars
<1>7. CASE UNCHANGED allVars
  BY <1>7 DEF allVars, vars
<1>8. QED
  BY <1>1, <1>2, <1>4, <1>5, <1>6, <1>7 DEF BoardNext

LEMMA DiskInvStays ==
  ASSUME DiskInv, OtherUse, [BoardNext]_allVars
  PROVE  DiskInv' /\ OtherUse'
<1>1. CASE uses = "disk"
  <2>1. FoundInv' /\ uses' = uses
    BY <1>1, OneUse, NextFound DEF DiskInv
  <2>2. QED
    BY <1>1, <2>1 DEF DiskInv, OtherUse
<1>2. CASE uses # "disk"
  BY <1>2, OneUse DEF DiskInv, OtherUse
<1>3. QED
  BY <1>1, <1>2

LEMMA ReadingInvStays ==
  ASSUME Normal, DiskInv, ReadingInv, [BoardNext]_allVars
  PROVE  ReadingInv'
<1>1. CASE uses = "disk"
  <2>1. FoundInv /\ MarkInv /\ ReadInv /\ ReadsWhatIsThere /\ [Next]_vars /\ uses' = uses
    BY <1>1, OneUse DEF DiskInv, ReadingInv
  <2>2. MarkInv' /\ ReadInv' /\ ReadsWhatIsThere'
    BY <2>1, MarksStay, ReadInvStays, WhatIsReadStays DEF FoundInv
  <2>3. QED
    BY <2>2 DEF ReadingInv
<1>2. CASE uses # "disk"
  BY <1>2, OneUse DEF ReadingInv
<1>3. QED
  BY <1>1, <1>2

LEMMA WritingInvStays ==
  ASSUME DiskInv, WritingInv, [BoardNext]_allVars
  PROVE  WritingInv'
<1>1. CASE uses = "disk"
  <2>1. /\ FoundInv /\ Framed(disks) /\ GivenInv /\ WritesWhatIsGiven
        /\ [Next]_vars /\ uses' = uses
    BY <1>1, OneUse DEF DiskInv, WritingInv
  <2>2. Framed(disks')
    BY <2>1, NextInv, FramedStays DEF FoundInv
  <2>3. GivenInv' /\ WritesWhatIsGiven'
    BY <2>1, GivenInvStays, WhatIsWrittenStays
  <2>4. QED
    BY <2>2, <2>3 DEF WritingInv
<1>2. CASE uses # "disk"
  BY <1>2, OneUse DEF WritingInv
<1>3. QED
  BY <1>1, <1>2

\* On the board, too, a sector that is on the track is found.
THEOREM BoardFindsTheSector == BoardSpec => []FoundIfThere
<1>1. BoardInit => DiskInv /\ OtherUse
  BY InitFound, InitRead DEF BoardInit, DiskInv, OtherUse, Init
<1>2. DiskInv /\ OtherUse /\ [BoardNext]_allVars => DiskInv' /\ OtherUse'
  BY DiskInvStays
<1>3. DiskInv /\ OtherUse => FoundIfThere
  BY DEF DiskInv, OtherUse, FoundInv, SeekInv, FoundIfThere, Ended, There
<1>4. QED
  BY <1>1, <1>2, <1>3, PTL DEF BoardSpec

\* On the board, too, what is read without an error is the sector's bytes in their order.
THEOREM BoardReadsItsSector == ASSUME Normal PROVE BoardSpec => []ReadsWhatIsThere
<1>1. BoardInit => DiskInv /\ OtherUse /\ ReadingInv
  BY InitFound, InitRead DEF BoardInit, DiskInv, OtherUse, ReadingInv, Init
<1>2. DiskInv /\ OtherUse /\ [BoardNext]_allVars => DiskInv' /\ OtherUse'
  BY DiskInvStays
<1>3. DiskInv /\ ReadingInv /\ [BoardNext]_allVars => ReadingInv'
  BY ReadingInvStays
<1>4. ReadingInv /\ OtherUse => ReadsWhatIsThere
  BY DEF ReadingInv, OtherUse, ReadsWhatIsThere, Ended
<1>5. QED
  BY <1>1, <1>2, <1>3, <1>4, PTL DEF BoardSpec

\* On the board, too, a sector that is written without an error is on the disk as it was given.
THEOREM BoardWritesItsData == BoardSpec => []WritesWhatIsGiven
<1>1. BoardInit => DiskInv /\ OtherUse /\ WritingInv
  BY InitFound, InitRead, InitWritten DEF BoardInit, DiskInv, OtherUse, WritingInv, Init
<1>2. DiskInv /\ OtherUse /\ [BoardNext]_allVars => DiskInv' /\ OtherUse'
  BY DiskInvStays
<1>3. DiskInv /\ WritingInv /\ [BoardNext]_allVars => WritingInv'
  BY WritingInvStays
<1>4. WritingInv /\ OtherUse => WritesWhatIsGiven
  BY DEF WritingInv, OtherUse, WritesWhatIsGiven, Ended
<1>5. QED
  BY <1>1, <1>2, <1>3, <1>4, PTL DEF BoardSpec
=============================================================================
