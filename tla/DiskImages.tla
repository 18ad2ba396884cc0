----------------------------- MODULE DiskImages ------------------------------
(***************************************************************************)
(* Disk images of the 1541 in the caddy (DiskImage.cpp): a D64 is turned   *)
(* into the bits of its tracks when it is inserted, the drive rewrites     *)
(* sectors or whole tracks of bits, and what it wrote is turned into       *)
(* sectors again when the caddy is emptied.  A program or a tape image     *)
(* becomes a disk that holds its files and is never saved.                 *)
(***************************************************************************)
EXTENDS RamD64

CONSTANTS
  InitialCards,  \* the files on the card at first
  Data,          \* what a program writes into a sector
  Jitters,       \* bits the drive is late when it begins to write after a header
  Starts,        \* bits at which it begins to format a track
  MaxWrites      \* bound on what it writes

\* The directory's first sector can be found, without which nothing is saved; the
\* files fit on one side of the directory and into one sector of it (the README
\* says what happens otherwise).
ASSUME ImagesAssumption ==
  /\ SectorLength % 4 = 0 /\ SectorLength > 4 + 2 * LastTrack + 2 /\ SyncLength > 1
  /\ DirTrack \in DiskTracks /\ DirSectors < SectorsOf(DirTrack)
  /\ \A t \in DiskTracks : SectorsOf(t) \in 1 .. 8
  /\ Data \subseteq [1 .. SectorLength -> 0 .. 255]
  /\ \A j \in Jitters : j \in Nat /\ j < 8 * TailGap
  /\ Starts \subseteq Nat /\ MaxWrites \in Nat
  /\ \A c \in InitialCards : c.type = "T64" => Len(c.files) <= EntriesOf

VARIABLES
  card,      \* the image's file: the blocks and errors of a D64, the index and the
             \* tracks of a G64, or the files of a tape
  disk,      \* the DiskImage: tracks of bits, those that are used, and dirty
  meant,     \* history: what a program must find in a sector
  writes

vars == <<card, disk, meant, writes>>

Unformatted(t) == Gap(SectorsOf(t) * SectorSize + EndGap)
NoDisk == [type |-> "NONE", dirty |-> FALSE, used |-> {}, tracks |-> <<>>]
Inserted(type, used, bits) ==
  [type |-> type, dirty |-> FALSE, used |-> used,
   tracks |-> [t \in DiskTracks |-> IF t \in used THEN bits[t] ELSE Unformatted(t)]]

\* OpenD64: the blocks in the order of the file, as far as it goes.
ErrorOf(errors, b) == IF errors = <<>> THEN SECTOR_OK ELSE errors[b]
Laid(blocks, errors, t) ==
  FlattenSeq([k \in 1 .. SectorsOf(t) |->
    LET b == Offset(t, k - 1)
    IN  convert_sector_to_GCR(blocks[b], t, k - 1, SubSeq(blocks[BAM], IdAt, IdAt + 1),
                              ErrorOf(errors, b))]) \o Gap(EndGap)
OpenD64(blocks, errors) ==
  LET used == {t \in DiskTracks : Before[t + 1] <= Len(blocks)}
  IN  Inserted("D64", used, [t \in used |-> Laid(blocks, errors, t)])

\* OpenG64: a track is where the index says, or not there.
OpenG64(c) ==
  LET used == {t \in DiskTracks : c.index[t] # 0}
  IN  Inserted("G64", used, [t \in used |-> c.tracks[c.index[t]]])

\* OpenPRG and OpenT64: file after file.
OpenFiles(files) ==
  LET f[n \in 0 .. Len(files)] ==
        IF n = 0 THEN CreateNewDiskInRAM ELSE AddFileToRAMD64(f[n - 1], n, files[n])
  IN  [OpenD64(f[Len(files)], <<>>) EXCEPT !.type = "T64"]

Opened(c) ==
  CASE c.type = "D64" -> OpenD64(c.blocks, c.errors)
    [] c.type = "G64" -> OpenG64(c)
    [] c.type = "T64" -> OpenFiles(c.files)

\* WriteD64: nothing without a header of the directory's first sector; sectors that
\* are not found are zeros; the tracks that are used follow each other, and errors
\* are not saved.
OfUsed(d, parts) == FlattenSeq([t \in DiskTracks |-> IF t \in d.used THEN parts[t] ELSE <<>>])
WriteD64(d, c) ==
  LET sectors == [t \in DiskTracks |->
        [k \in 1 .. SectorsOf(t) |-> ConvertSector(d.tracks[t], k - 1, Zeroes(SectorLength)).data]]
  IN  IF FindSectorHeader(d.tracks[DirTrack], 0) = NotFound THEN c
      ELSE [c EXCEPT !.blocks = OfUsed(d, sectors), !.errors = <<>>]

WriteG64(d, c) ==
  LET bits == [t \in DiskTracks |-> <<d.tracks[t]>>]
  IN  [c EXCEPT !.index = [t \in DiskTracks |->
                             IF t \in d.used THEN Cardinality({u \in d.used : u <= t}) ELSE 0],
                !.tracks = OfUsed(d, bits)]

\* Close: what was written is saved, but for a disk of a tape.
Closed(d, c) ==
  IF ~d.dirty THEN c
  ELSE CASE d.type = "D64" -> WriteD64(d, c)
         [] d.type = "G64" -> WriteG64(d, c)
         [] d.type = "T64" -> c

-----------------------------------------------------------------------------
Init == /\ card \in InitialCards /\ disk = NoDisk /\ meant = <<>> /\ writes = 0

\* What a program finds in a sector of a disk.
SectorOn(d, p) == ConvertSector(d.tracks[p[1]], p[2], <<>>)

\* A sector of a D64 is meant to hold its block, unless the file says it is bad; one
\* of a G64 whatever its bits say.
Lost == {HEADER_NOT_FOUND, SYNC_NOT_FOUND, DATA_NOT_FOUND, BAD_DATA_CHECKSUM}
MeantOn(d) ==
  LET held == {p \in Places : p[1] \in d.used /\ SectorOn(d, p).ok}
  IN  [p \in held |-> SectorOn(d, p).data]
Meant(c) ==
  CASE c.type = "D64" ->
         LET held == {p \in Places : /\ Offset(p[1], p[2]) <= Len(c.blocks)
                                     /\ ErrorOf(c.errors, Offset(p[1], p[2])) \notin Lost}
         IN  [p \in held |-> c.blocks[Offset(p[1], p[2])]]
    [] c.type = "G64" -> MeantOn(Opened(c))
    [] c.type = "T64" -> <<>>
Insert ==
  /\ disk = NoDisk
  /\ disk' = Opened(card) /\ meant' = Meant(card)
  /\ UNCHANGED <<card, writes>>

\* SetBit, for bits from a place on, over the end of the track too.
Spliced(bits, from, new) ==
  [i \in 1 .. Len(bits) |->
     LET k == (i - 1 - from) % Len(bits) IN IF k < Len(new) THEN new[k + 1] ELSE bits[i]]
Writes == disk # NoDisk /\ writes < MaxWrites /\ writes' = writes + 1 /\ UNCHANGED card
Written(t, bits) ==
  disk' = IF bits = disk.tracks[t] THEN disk
          ELSE [disk EXCEPT !.tracks[t] = bits, !.used = @ \union {t}, !.dirty = TRUE]

\* The drive finds the header of a sector, waits over the gap, and writes a sync
\* and the data, at whatever bits they then fall.
WriteSector ==
  /\ Writes
  /\ \E p \in DOMAIN meant, data \in Data, late \in Jitters :
       LET bits   == disk.tracks[p[1]]
           header == FindSectorHeader(bits, p[2])
           from   == header + 8 * (HeaderLength + HeaderGap) + late
       IN  /\ Written(p[1], Spliced(bits, from, Sync \o Block(data, SECTOR_OK)))
           /\ meant' = [meant EXCEPT ![p] = data]

\* It formats a track: one of the disk, or the one after.
Format ==
  /\ Writes
  /\ \E t \in DiskTracks, start \in Starts, data \in Data :
       LET bits == FlattenSeq([k \in 1 .. SectorsOf(t) |->
                     convert_sector_to_GCR(data, t, k - 1, DiskID, SECTOR_OK)])
           fresh == {t} \X Sectors(t)
       IN  /\ disk.type # "T64" /\ (t \in disk.used \/ t - 1 \in disk.used)
           /\ Written(t, Spliced(disk.tracks[t], start, bits))
           /\ meant' = [p \in fresh \union DOMAIN meant |-> IF p \in fresh THEN data ELSE meant[p]]

Close ==
  /\ disk # NoDisk
  /\ card' = Closed(disk, card)
  /\ disk' = NoDisk
  /\ UNCHANGED <<meant, writes>>

Next == Insert \/ WriteSector \/ Format \/ Close
Spec == Init /\ [][Next]_vars

-----------------------------------------------------------------------------
(* Properties *)

\* A sector holds what was last written into it: as bits while the disk is inserted,
\* whatever else was written on its track and wherever the bits fell, and in the file
\* once the disk was closed (DiskImage.cpp 300-372, 911-1012, 1462-1600).
Holds(p) ==
  IF disk # NoDisk THEN SectorOn(disk, p) = Converted(TRUE, meant[p])
  ELSE IF card.type = "D64"
  THEN Offset(p[1], p[2]) <= Len(card.blocks) /\ card.blocks[Offset(p[1], p[2])] = meant[p]
  ELSE SectorOn(Opened(card), p) = Converted(TRUE, meant[p])
SectorsHoldWhatWasWritten == \A p \in DOMAIN meant : Holds(p)

\* The files of a tape or a program are on its disk: the chain of directory sectors
\* leads to an entry of each, and the chain of blocks that begins there has its
\* bytes, but for a file that fills its last block, which has no end
\* (DiskImage.cpp 1704-1790, 1930-1995).
Linking(chain, block) == IF block[1] = 0 THEN chain ELSE Append(chain, SubSeq(block, 1, 2))
Longer(chain) == Linking(chain, SectorOn(disk, Last(chain)).data)
Chain(p, most) ==
  LET f[n \in 1 .. most] == IF n = 1 THEN <<p>> ELSE Longer(f[n - 1])
  IN  f[most]
Held(block) == SubSeq(block, 3, IF block[1] = 0 THEN block[2] + 1 ELSE SectorLength)
HeldBy(chain) == FlattenSeq([k \in 1 .. Len(chain) |-> Held(SectorOn(disk, chain[k]).data)])
FileAt(p) == HeldBy(Chain(p, Cardinality(Places)))
DirEntries ==
  {SubSeq(SectorOn(disk, p).data, EntryAt(e), EntryAt(e) + EntrySize - 1) :
     p \in Range(Chain(<<DirTrack, 1>>, DirSectors)), e \in 0 .. EntriesOf - 1}
FilesAreOnDisk ==
  disk.type = "T64" =>
    \A n \in DOMAIN card.files : Len(card.files[n]) % DataLength # 0 =>
      \E entry \in DirEntries :
        /\ entry[1] = PRG /\ entry[4] = n /\ entry[2] # 0
        /\ FileAt(<<entry[2], entry[3]>>) = card.files[n]
=============================================================================
