-------------------------------- MODULE Drive --------------------------------
(***************************************************************************)
(* The mechanics and the logic board of the 1541: Drive.cpp and Drive.h as *)
(* functions on a record d (the path that does not define                  *)
(* EXPERIMENTALZERO).  The disk turns under the head a bit at a time; UE7  *)
(* divides the clock by the density, UF4 counts its pulses and makes of a  *)
(* flux reversal a 1, UE3 counts the bits of a byte.  Of VIA 1 the record  *)
(* holds the pins of the drive and the registers the drive looks at.       *)
(* Numbers of the code are constants, so that a track of a few bytes and a *)
(* rotation of a few cycles will do.                                       *)
(***************************************************************************)
EXTENDS Integers, Sequences

CONSTANTS
  ByteBits, SyncBits,     \* 8; and the 10 bits that make a SYNC
  UE7Count,               \* what UE7 counts to, 16, and the cycles of an Update
  Rotation,               \* the cycles of a rotation, 3200000
  FirstNoise, LaterNoise, \* cycles to a random flux reversal: 18 to 20 us, 2 to 25 us
  Ejecting, NoDisk, Inserting,    \* Updates of a swap: 400000, 200000, 400000
  HalfTracks, Home,       \* 84, and 36
  Images, First,          \* the disks of the caddy, and the one that is in at first
  Content,                \* the bits of every half track of every image
  ReadOnly                \* the images that are write protected

Tracks == 0 .. HalfTracks - 1
Bit    == {0, 1}
Bytes  == [1 .. ByteBits -> Bit]
Steps  == 0 .. 3

Fastest == IF UE7Count < 4 THEN UE7Count - 1 ELSE 3   \* of the densities

ASSUME DriveAssumption ==
  /\ ByteBits \in Nat /\ ByteBits > 2 /\ SyncBits \in Nat /\ SyncBits > ByteBits
  /\ UE7Count \in Nat \ {0} /\ Rotation \in Nat \ {0}
  /\ 2 * Fastest <= UE7Count               \* UE7 counts out twice in an Update, at most
  /\ Ejecting \in Nat \ {0, 1} /\ NoDisk \in Nat \ {0} /\ Inserting \in Nat \ {0}
  /\ HalfTracks \in Nat \ {0} /\ Home \in Tracks
  /\ Content \in [Images -> [Tracks -> Seq(Bit)]]
  /\ \A i \in Images, t \in Tracks :
       /\ Len(Content[i][t]) > ByteBits /\ Len(Content[i][t]) % ByteBits = 0
       /\ Rotation % Len(Content[i][t]) = 0    \* no rounding
       /\ Rotation \div Len(Content[i][t]) <= 4 * UE7Count    \* the slowest zone
       \* As in D64 images: Insert does not look at the length of the new track.
       /\ \A j \in Images : Len(Content[j][t]) = Len(Content[i][t])
  \* Four cells of the slowest zone pass before the amplifier hears noise, and
  \* noise comes at most once in an Update.
  /\ FirstNoise \in SUBSET Nat /\ FirstNoise # {}
  /\ \A n \in FirstNoise : n > 16 * UE7Count /\ n <= 25 * UE7Count
  /\ LaterNoise \in SUBSET Nat
  /\ \A n \in LaterNoise : n >= 2 * UE7Count /\ n <= 25 * UE7Count
  /\ ReadOnly \subseteq Images /\ First \in Images

Zones  == 0 .. Fastest
Swap   == Ejecting + NoDisk + Inserting
Ones   == [i \in 1 .. SyncBits |-> 1]
Zeros(n) == [i \in 1 .. n |-> 0]
Shifted(s, bit) == Append(Tail(s), bit)

\* The track under the head.
Track(d)    == d.tracks[d.image][d.headTrackPos]
Length(d)   == Len(Track(d))
CyclesPerBit(d) == Rotation \div Length(d)
InZone(d)   == CyclesPerBit(d) = 4 * (UE7Count - d.CLOCK_SEL_AB)
ByteAt(track, n) == SubSeq(track, (n * ByteBits) + 1, (n + 1) * ByteBits)

DriveReset(image) ==
  [headTrackPos |-> Home, headBitOffset |-> 0, lastHeadDirection |-> 0,
   CLOCK_SEL_AB |-> Fastest, motor |-> FALSE, SO |-> FALSE,
   cyclesForBit |-> 0, UE7 |-> Fastest, UF4 |-> 0, UE3 |-> 0,
   noise |-> CHOOSE n \in FirstNoise : TRUE,
   readShift |-> Zeros(SyncBits), writeShift |-> Zeros(ByteBits),
   cached |-> [track |-> -1, byte |-> -1, bits |-> Zeros(ByteBits)],
   image |-> image, tracks |-> Content, dirty |-> {}, swap |-> Swap,
   PB4 |-> TRUE, PB7 |-> TRUE, PA |-> Zeros(ByteBits),          \* inputs of VIA 1
   writing |-> FALSE, soe |-> FALSE, out |-> Zeros(ByteBits)]   \* its CB2, CA2, port A

DriveTypeOK(d) ==
  /\ d.headTrackPos \in Tracks /\ d.headBitOffset \in 0 .. Length(d) - 1
  /\ d.cyclesForBit \in 0 .. 4 * UE7Count - 1 /\ d.noise \in 1 .. 25 * UE7Count
  /\ d.UE7 \in 0 .. UE7Count - 1 /\ d.UF4 \in 0 .. 15 /\ d.UE3 \in 0 .. ByteBits
  /\ Len(d.readShift) = SyncBits /\ d.writeShift \in Bytes /\ d.PA \in Bytes
  /\ d.swap \in 0 .. Swap

-----------------------------------------------------------------------------
(* What the program and the emulator do to the drive *)

\* A step of one phase moves the head by a half track, if there is one.
\* (MovedAlone leaves the offset of the longer track.)
Reached(d, step) ==
  LET out == step = (d.lastHeadDirection + 3) % 4
      in  == step = (d.lastHeadDirection + 1) % 4
  IN  IF out /\ d.headTrackPos > 0 THEN d.headTrackPos - 1
      ELSE IF in /\ d.headTrackPos < HalfTracks - 1 THEN d.headTrackPos + 1
      ELSE d.headTrackPos
MovedAlone(d, step) ==
  [d EXCEPT !.lastHeadDirection = step, !.headTrackPos = Reached(d, step)]
Moved(d, step) ==
  LET there == [d EXCEPT !.lastHeadDirection = step, !.headTrackPos = Reached(d, step)]
  IN  [there EXCEPT !.headBitOffset = @ % Length(there)]

\* The head moves if the motor was on.
OnPortOut(d, step, motor, zone) ==
  LET moved == IF d.motor /\ d.lastHeadDirection # step THEN Moved(d, step) ELSE d
  IN  [moved EXCEPT !.motor = motor, !.CLOCK_SEL_AB = zone]

\* (InsertedSoon does not start again when another disk goes in.)
InsertedSoon(d, image) ==
  [d EXCEPT !.image = image, !.swap = IF @ = 0 THEN Swap ELSE @]
Inserted(d, image) == [d EXCEPT !.image = image, !.swap = Swap]

-----------------------------------------------------------------------------
(* Update *)

\* The write protect sensor while a disk is swapped.
Swapped(d) ==
  LET left == d.swap - 1
  IN  [d EXCEPT !.swap = left,
                !.PB4 = IF left = 0 THEN d.image \notin ReadOnly
                        ELSE left <= NoDisk + Inserting /\ left > Inserting]

Advanced(d) == (d.headBitOffset + 1) % Length(d)

\* GetNextBit; the byte is fetched when the head comes to it, and what is
\* fetched stays, whatever is written or inserted.
IsCached(d, n) == d.cached.byte = n /\ d.cached.track = d.headTrackPos
Fetched(d) ==
  LET n == Advanced(d) \div ByteBits
      bits == IF IsCached(d, n) THEN d.cached.bits ELSE ByteAt(Track(d), n)
  IN  [d EXCEPT !.headBitOffset = Advanced(d),
                !.cached = [track |-> d.headTrackPos, byte |-> n, bits |-> bits]]
BitRead(fetched) == fetched.cached.bits[(fetched.headBitOffset % ByteBits) + 1]

\* SetNextBit, with SetBit and TestDirty.
SetNextBit(d, bit) ==
  [d EXCEPT !.headBitOffset = Advanced(d),
            !.tracks[d.image][d.headTrackPos][Advanced(d) + 1] = bit,
            !.dirty = IF Track(d)[Advanced(d) + 1] = bit THEN @
                      ELSE @ \union {<<d.image, d.headTrackPos>>}]

ResetEncoderDecoder(d, noise) ==
  [d EXCEPT !.UE7 = d.CLOCK_SEL_AB, !.UF4 = 0, !.noise = noise]

\* The disk turns; a 1 is a flux reversal.
Turned(d, first) ==
  LET passed  == [d EXCEPT !.cyclesForBit = @ + 1]
      next    == [Fetched(d) EXCEPT !.cyclesForBit = d.cyclesForBit + 1 - CyclesPerBit(d)]
  IN  IF passed.cyclesForBit < CyclesPerBit(d) THEN passed
      ELSE IF BitRead(next) = 1 THEN ResetEncoderDecoder(next, first) ELSE next

\* Without one the amplifier makes its own.
Heard(d, later) ==
  IF d.noise > 1 THEN [d EXCEPT !.noise = @ - 1] ELSE ResetEncoderDecoder(d, later)

\* UF4 has come to the middle of a cell.  (ShiftedUnlocked counts through SYNC.)
ShiftedUnlocked(d) ==
  LET in   == Shifted(d.readShift, IF d.UF4 = 2 THEN 1 ELSE 0)
      put  == IF d.writing THEN SetNextBit(d, d.writeShift[1]) ELSE d
      sync == ~d.writing /\ in = Ones
  IN  [put EXCEPT !.readShift = in, !.writeShift = Shifted(@, 0),
                  !.UE3 = @ + 1,
                  !.PB7 = IF d.writing THEN @ ELSE ~sync]
ShiftedCell(d) ==
  LET in   == Shifted(d.readShift, IF d.UF4 = 2 THEN 1 ELSE 0)
      put  == IF d.writing THEN SetNextBit(d, d.writeShift[1]) ELSE d
      sync == ~d.writing /\ in = Ones
  IN  [put EXCEPT !.readShift = in, !.writeShift = Shifted(@, 0),
                  !.UE3 = IF sync THEN 0 ELSE @ + 1,
                  !.PB7 = IF d.writing THEN @ ELSE ~sync]

\* A byte is complete: it is latched, or the next one is taken to be written.
\* (LatchedRead takes none.)
InRead(d) == SubSeq(d.readShift, SyncBits - ByteBits + 1, SyncBits)
LatchedRead(d) ==
  [d EXCEPT !.UE3 = 0, !.SO = d.soe, !.writeShift = InRead(d), !.PA = InRead(d)]
Latched(d) ==
  [d EXCEPT !.UE3 = 0, !.SO = d.soe,
            !.writeShift = IF d.writing THEN d.out ELSE InRead(d),
            !.PA = IF d.writing THEN @ ELSE InRead(d)]

\* A pulse of UE7.
Clocked4(d) ==
  LET c == [d EXCEPT !.UE7 = d.CLOCK_SEL_AB, !.UF4 = (@ + 1) % 16]
  IN  IF c.UF4 % 4 = 2 THEN ShiftedCell(c)
      ELSE IF c.UF4 % 4 < 2 /\ c.UE3 = ByteBits THEN Latched(c) ELSE c

Cycle(d, first, later) ==
  LET read == IF d.writing THEN d ELSE Heard(Turned(d, first), later)
  IN  IF read.UE7 + 1 = UE7Count THEN Clocked4(read) ELSE [read EXCEPT !.UE7 = @ + 1]

Cycles(d, first, later) ==
  LET after[n \in 0 .. UE7Count] == IF n = 0 THEN d ELSE Cycle(after[n - 1], first, later)
  IN  after[UE7Count]

Reads(d) == d.swap = 0 /\ d.motor

\* Answers the drive and whether a byte was ready; first and later are the
\* times to the next random reversal, where one is drawn.
Updated(d, first, later) ==
  IF d.swap > 0 THEN Swapped(d)
  ELSE IF d.motor THEN Cycles([d EXCEPT !.SO = FALSE], first, later) ELSE d
DataReady(d) == Reads(d) /\ d.SO
=============================================================================
