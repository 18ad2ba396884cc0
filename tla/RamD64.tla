------------------------------- MODULE RamD64 -------------------------------
(***************************************************************************)
(* A D64 made in memory (DiskImage.cpp): a blank disk with its BAM and     *)
(* directory, and files added to it, as OpenPRG and OpenT64 do.  A disk is *)
(* a sequence of blocks, a block a sequence of bytes.  Of the long parts   *)
(* of a directory entry and of the BAM one byte each stands for the name,  *)
(* the block count, and the bits of a track's sectors.                     *)
(***************************************************************************)
EXTENDS Gcr

CONSTANTS
  LastTrack,        \* of the disk, 35
  DirTrack,         \* 18
  SectorsOf(_),     \* the sectors of a track
  DirSectors,       \* the sectors the directory may have, 18
  Strip,            \* the sectors skipped after one that was used, 10
  DiskID            \* two bytes

DiskTracks == 1 .. LastTrack
Sectors(t) == 0 .. SectorsOf(t) - 1
Places     == UNION {{t} \X Sectors(t) : t \in DiskTracks}
DataLength == SectorLength - 2

\* RAMD64GetSectorOffset; the first block is number 1.
Before == [t \in 1 .. LastTrack + 1 |-> Cardinality({p \in Places : p[1] < t})]
Offset(t, s) == Before[t] + s + 1

-----------------------------------------------------------------------------
(* The BAM: 4 bytes, for every track the sectors that are free, and the ID *)

BAM        == Offset(DirTrack, 0)
CountAt(t) == 3 + 2 * t
MapAt(t)   == 4 + 2 * t
IdAt       == SectorLength - 1
IsFree(disk, t, s) == (disk[BAM][MapAt(t)] \div 2^s) % 2 = 1

\* CreateNewDiskInRAM: the BAM and the first directory sector are in use.
Zeroes(n) == [i \in 1 .. n |-> 0]
BlankBAM ==
  [i \in 1 .. SectorLength |->
     IF i = 1 THEN DirTrack ELSE IF i = 2 THEN 1 ELSE IF i = 3 THEN 65
     ELSE IF i >= IdAt THEN DiskID[i - IdAt + 1]
     ELSE IF i \in {CountAt(t) : t \in DiskTracks}
     THEN LET t == (i - 3) \div 2 IN SectorsOf(t) - (IF t = DirTrack THEN 2 ELSE 0)
     ELSE IF i \in {MapAt(t) : t \in DiskTracks}
     THEN LET t == (i - 4) \div 2 IN 2^SectorsOf(t) - 1 - (IF t = DirTrack THEN 3 ELSE 0)
     ELSE 0]
CreateNewDiskInRAM ==
  [b \in 1 .. Cardinality(Places) |->
     IF b = BAM THEN BlankBAM
     ELSE IF b = Offset(DirTrack, 1) THEN [Zeroes(SectorLength) EXCEPT ![2] = 255]
     ELSE Zeroes(SectorLength)]

RAMD64FreeSectors(disk) == FoldLeft(LAMBDA n, t : n + disk[BAM][CountAt(t)], 0,
                                    [t \in DiskTracks |-> t])

\* RAMD64AllocateSector does nothing to a sector that is in use.
RAMD64AllocateSector(disk, t, s) ==
  IF IsFree(disk, t, s)
  THEN [disk EXCEPT ![BAM][CountAt(t)] = @ - 1, ![BAM][MapAt(t)] = @ - 2^s]
  ELSE disk

\* RAMD64FindFreeSector: from the track used last, or the one beside the directory,
\* to the end of the disk on that side; on the track used last, from some sectors
\* after that used last on.  No sector is left on the lower side: the loop over an
\* unsigned number then has no end.
Nowhere == <<0, -1>>
RAMD64FindFreeSector(searchForwards, disk, last) ==
  LET tracks == IF searchForwards
                THEN (IF last = Nowhere THEN DirTrack + 1 ELSE last[1]) .. LastTrack
                ELSE 1 .. (IF last = Nowhere THEN DirTrack - 1 ELSE last[1])
      first(t) == IF t = last[1] THEN last[2] + Strip ELSE 0
      turn(p)  == (p[2] - first(p[1])) % SectorsOf(p[1])
      sooner(p, q) == IF p[1] = q[1] THEN turn(p) <= turn(q)
                      ELSE (p[1] < q[1]) = searchForwards
      free == {p \in Places : p[1] \in tracks /\ IsFree(disk, p[1], p[2])}
  IN  IF free = {} THEN Nowhere ELSE CHOOSE p \in free : \A q \in free : sooner(p, q)

-----------------------------------------------------------------------------
(* The directory: an entry is a type, track and sector of the first block, a *)
(* name and a count of blocks                                                *)

PRG       == 130
EntrySize == 5
EntriesOf == (SectorLength - 2) \div EntrySize
EntryAt(e) == 3 + EntrySize * e
DirPlaces == (1 .. DirSectors) \X (0 .. EntriesOf - 1)
NoEntry   == <<0, 0>>

FreeEntry(disk) ==
  LET free == {e \in DirPlaces : disk[Offset(DirTrack, e[1])][EntryAt(e[2])] = 0}
      rank(e) == e[1] * EntriesOf + e[2]
  IN  IF free = {} THEN NoEntry ELSE CHOOSE e \in free : \A f \in free : rank(e) <= rank(f)

\* RAMD64AddDirectoryEntry in a free entry.  The sector before a sector after the
\* first is linked to itself.
LinkTo(s) == s - 1
RAMD64AddDirectoryEntry(disk, e, name, blocks) ==
  LET s   == e[1]
      at  == EntryAt(e[2])
      new == [disk EXCEPT ![Offset(DirTrack, s)] =
                [@ EXCEPT ![at] = PRG, ![at + 3] = name, ![at + 4] = blocks, ![1] = 0, ![2] = 255]]
  IN  IF s = 1 THEN new
      ELSE RAMD64AllocateSector(
             [new EXCEPT ![Offset(DirTrack, s - 1)] =
                           [@ EXCEPT ![1] = DirTrack, ![2] = LinkTo(s)]], DirTrack, s)

-----------------------------------------------------------------------------
(* AddFileToRAMD64: the link to each block is written when the block is found, *)
(* in the directory entry or the block before it; the last block says where    *)
(* the file ends, unless it is full                                            *)

Linked(disk, at, t, s) == [disk EXCEPT ![at[1]] = [@ EXCEPT ![at[2]] = t, ![at[2] + 1] = s]]

FindSector(disk, last) ==
  LET forwards == RAMD64FindFreeSector(TRUE, disk, last)
      back     == IF last[1] >= DirTrack THEN Nowhere ELSE last
  IN  IF forwards # Nowhere THEN forwards ELSE RAMD64FindFreeSector(FALSE, disk, back)

FullBlock(rest) == Len(rest) >= DataLength
AddBlockAt(f, p, here) ==
  LET taken == Linked(RAMD64AllocateSector(f.disk, p[1], p[2]), f.link, p[1], p[2])
      n     == IF FullBlock(f.rest) THEN DataLength ELSE Len(f.rest)
      ended == IF FullBlock(f.rest) THEN taken ELSE Linked(taken, <<here, 1>>, 0, n + 1)
  IN  [disk |-> [ended EXCEPT ![here] =
                   SubSeq(@, 1, 2) \o SubSeq(f.rest, 1, n) \o SubSeq(@, n + 3, SectorLength)],
       last |-> p, link |-> <<here, 1>>,
       rest |-> SubSeq(f.rest, DataLength + 1, Len(f.rest))]
AddBlock(f) ==
  LET found == FindSector(f.disk, f.last)
  IN  IF found = Nowhere THEN f ELSE AddBlockAt(f, found, Offset(found[1], found[2]))

\* (WholeBlocks leaves out the last part.)
WholeBlocks(n) == n \div DataLength
BlocksFor(n) == (n \div DataLength) + (IF n % DataLength = 0 THEN 0 ELSE 1)
AddFileToRAMD64(disk, name, data) ==
  LET required == BlocksFor(Len(data))
      e   == FreeEntry(disk)
      new == RAMD64AddDirectoryEntry(disk, e, name, required)
      f[n \in 0 .. required] ==
        IF n = 0 THEN [disk |-> new, last |-> Nowhere, rest |-> data,
                       link |-> <<Offset(DirTrack, e[1]), EntryAt(e[2]) + 1>>]
        ELSE AddBlock(f[n - 1])
  IN  IF RAMD64FreeSectors(disk) < required \/ e = NoEntry THEN disk ELSE f[required].disk
=============================================================================
