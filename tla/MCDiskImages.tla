---------------------------- MODULE MCDiskImages -----------------------------
(* A small instance of DiskImages for TLC: three tracks, the directory between *)
(* the others, with blocks of 16 bytes.                                        *)
EXTENDS DiskImages

MCSectorsOf(t) == IF t = 2 THEN 3 ELSE 2
MCID == <<49, 90>>

Filling(n) == [i \in 1 .. SectorLength |-> (n * 17 + i * 5) % 256]
MCData == {[i \in 1 .. SectorLength |-> IF i < 9 THEN 255 ELSE i]}

D64(tracks, errors) ==
  [type |-> "D64", errors |-> errors,
   blocks |-> [b \in 1 .. Before[tracks + 1] |-> IF b = BAM THEN BlankBAM ELSE Filling(b)]]
Errors(b, e) == [n \in 1 .. Cardinality(Places) |-> IF n = b THEN e ELSE SECTOR_OK]

\* A G64 of the first tracks, with bits that begin anywhere, and one without the first.
Turned(bits, n) == SubSeq(bits, n + 1, Len(bits)) \o SubSeq(bits, 1, n)
G64(first, last, n) ==
  LET d == OpenD64(D64(3, <<>>).blocks, <<>>)
  IN  [type |-> "G64", index |-> [t \in DiskTracks |-> IF t \in first .. last THEN t - first + 1 ELSE 0],
       tracks |-> [k \in 1 .. last - first + 1 |-> Turned(d.tracks[k + first - 1], n)]]

T64(lengths) ==
  [type |-> "T64", files |-> [n \in DOMAIN lengths |-> [i \in 1 .. lengths[n] |-> (40 * n) + i]]]

MCCards ==
  {D64(3, <<>>), D64(2, <<>>)}
  \union {D64(3, Errors(2, e)) : e \in Lost \union {BAD_HEADER_CHECKSUM, ID_MISMATCH}}
  \union {G64(1, 2, 0), G64(2, 3, 83)}
  \union {T64(<<n>>) : n \in {1, 13, 14, 15, 27, 29, 43}} \union {T64(<<15, n>>) : n \in {1, 13, 15, 27}}
=============================================================================
