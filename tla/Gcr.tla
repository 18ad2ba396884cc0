-------------------------------- MODULE Gcr ---------------------------------
(***************************************************************************)
(* The bits of a 1541's track, made of sectors (gcr.cpp) and the sectors   *)
(* found among bits (DiskImage.cpp), as functions.  A byte is 0 .. 255, a  *)
(* track a sequence of bits; of the lengths, those that only cost time are *)
(* constants.                                                              *)
(***************************************************************************)
EXTENDS Integers, Sequences, SequencesExt

CONSTANTS
  SectorLength,   \* 256
  SyncLength,     \* bytes of a sync that OpenD64 writes, 5
  HeaderGap,      \* bytes between a header and its data, 9
  TailGap,        \* bytes after a sector; by zone 9, 12, 17 or 8
  EndGap          \* bytes left after the last one; by zone 90 .. 115

\* An 8 bit exclusive or.
Xor(a, b) ==
  LET bit(n) == 2^n * (((a \div 2^n) + (b \div 2^n)) % 2)
  IN  bit(0) + bit(1) + bit(2) + bit(3) + bit(4) + bit(5) + bit(6) + bit(7)
Checksum(bytes) == FoldLeft(Xor, 0, bytes)
Inverted(byte)  == 255 - byte

-----------------------------------------------------------------------------
(* Nibbles and their codes of five bits, no more than two zeros in a row *)

GCR_conv_data == <<10, 11, 18, 19, 14, 15, 22, 23, 9, 25, 26, 27, 13, 29, 30, 21>>
Codes == [n \in 0 .. 15 |->
            [i \in 1 .. 5 |-> (GCR_conv_data[n + 1] \div 2^(5 - i)) % 2]]
Nibble(bytes, k) ==    \* the k-th, from 0
  IF k % 2 = 0 THEN bytes[(k \div 2) + 1] \div 16 ELSE bytes[(k \div 2) + 1] % 16

convert_to_GCR(bytes) ==
  [k \in 1 .. 10 * Len(bytes) |-> Codes[Nibble(bytes, (k - 1) \div 5)][((k - 1) % 5) + 1]]

\* Codes that are none decode to 0xff, whatever the other half of the byte is.
NoNibble == 16
GCR_decode ==
  [code \in [1 .. 5 -> {0, 1}] |->
     IF \E n \in 0 .. 15 : Codes[n] = code THEN CHOOSE n \in 0 .. 15 : Codes[n] = code
     ELSE NoNibble]
Byte(high, low) == IF NoNibble \in {high, low} THEN 255 ELSE 16 * high + low

-----------------------------------------------------------------------------
(* convert_sector_to_GCR, with the errors a D64 can record of a sector *)

SECTOR_OK == 1
HEADER_NOT_FOUND == 2
SYNC_NOT_FOUND == 3
DATA_NOT_FOUND == 4
BAD_DATA_CHECKSUM == 5
BAD_HEADER_CHECKSUM == 9
ID_MISMATCH == 11

Gap(bytes) == [k \in 1 .. 8 * bytes |-> (k + 1) % 2]    \* 0x55
Sync == [k \in 1 .. 8 * SyncLength |-> 1]
HeaderLength == 10
BlockBytes == SectorLength + 4
BlockLength == (BlockBytes * 10) \div 8
SectorSize == 2 * SyncLength + HeaderLength + HeaderGap + BlockLength + TailGap

Header(track, sector, diskID, error) ==
  LET id  == IF error = ID_MISMATCH THEN [i \in 1 .. 2 |-> Inverted(diskID[i])] ELSE diskID
      sum == Checksum(<<sector, track, id[2], id[1]>>)
  IN  convert_to_GCR(<<8, IF error = BAD_HEADER_CHECKSUM THEN Inverted(sum) ELSE sum,
                       sector, track, id[2], id[1], 15, 15>>)

Block(data, error) ==
  LET sum == Checksum(data)
  IN  convert_to_GCR(<<7>> \o data \o
                     <<IF error = BAD_DATA_CHECKSUM THEN Inverted(sum) ELSE sum, 0, 0>>)

Filled(bits, bytes) == bits \o Gap(bytes - Len(bits) \div 8)
convert_sector_to_GCR(data, track, sector, diskID, error) ==
  LET before == SyncLength + HeaderLength + HeaderGap
      header == IF error = HEADER_NOT_FOUND THEN Gap(before)
                ELSE Filled(Sync \o Header(track, sector, diskID, error), before)
      block  == IF error = DATA_NOT_FOUND THEN <<>> ELSE Sync \o Block(data, error)
  IN  Filled(IF error = SYNC_NOT_FOUND THEN <<>> ELSE header \o block, SectorSize)

-----------------------------------------------------------------------------
(* Finding them again.  A position counts from 0, and the track is a circle. *)

BitAt(bits, i) == bits[(i % Len(bits)) + 1]
SyncBits == 10

\* The bit at i is the first after a sync.
EndsSync(bits, i) ==
  BitAt(bits, i) = 0 /\ \A k \in 1 .. SyncBits : BitAt(bits, i + Len(bits) - k) = 1

\* DecodeBlock, at any bit of a byte.  (DecodeAligned begins at the byte.)
Decode(bits, from, bytes) ==
  LET code(n)   == [k \in 1 .. 5 |-> BitAt(bits, from + 5 * n + k - 1)]
      nibble(n) == GCR_decode[code(n)]
  IN  [i \in 1 .. bytes |-> Byte(nibble(2 * i - 2), nibble(2 * i - 1))]
DecodeAligned(bits, from, bytes) == Decode(bits, from - (from % 8), bytes)
DecodeBlock(bits, from, bytes)   == Decode(bits, from, bytes)

\* FindSync from a bit that is in no sync, over maxBits.
NotFound == -1
FindSync(bits, from, maxBits) ==
  LET ends == {k \in SyncBits .. maxBits - 1 : EndsSync(bits, from + k)}
  IN  IF ends = {} THEN NotFound
      ELSE (from + CHOOSE k \in ends : \A j \in ends : k <= j) % Len(bits)

\* FindSectorHeader looks after every sync, that over the end of the track last.
\* It looks at no track, no checksum and no ID.
FindSectorHeader(bits, sector) ==
  LET n == Len(bits)
      turn(i) == (i + n - SyncBits) % n
      found == {i \in 0 .. n - 1 : EndsSync(bits, i) /\
                  LET header == DecodeBlock(bits, i, 4) IN header[1] = 8 /\ header[3] = sector}
  IN  IF found = {} THEN NotFound ELSE CHOOSE i \in found : \A j \in found : turn(i) <= turn(j)

\* ConvertSector: whether the sector is good, and the data it leaves, of a bad one
\* too.
Converted(ok, data) == [ok |-> ok, data |-> data]
DataOf(block) == SubSeq(block, 2, SectorLength + 1)
ConvertBlock(block) ==
  Converted(block[1] = 7 /\ Checksum(DataOf(block)) = block[SectorLength + 2], DataOf(block))
ConvertData(bits, at, old) ==
  IF at = NotFound THEN Converted(FALSE, old) ELSE ConvertBlock(DecodeBlock(bits, at, BlockBytes))
ConvertSector(bits, sector, old) ==
  LET header == FindSectorHeader(bits, sector)
  IN  IF header = NotFound THEN Converted(FALSE, old)
      ELSE ConvertData(bits, FindSync(bits, header, BlockBytes * 16), old)
=============================================================================
