--------------------------- MODULE Pi1541_proofs ---------------------------
(***************************************************************************)
(* Theorems about the emulated 1541.  First its 6522s and its bus, for     *)
(* bytes of any size and any program; then the mechanics of its drive, a   *)
(* cycle at a time: the types, the write protect sensor, the bytes that    *)
(* are written, and those that are read.                                   *)
(***************************************************************************)
EXTENDS Pi1541, Induction, SequenceTheorems, TLAPS

-----------------------------------------------------------------------------
(* Numbers *)

LEMMA BaseType == Base \in Nat /\ Base > 2 /\ Base * Base \in Nat /\ Base * Base > 2
<1>1. Base \in Nat /\ Base > 2
  BY ViaAssumption DEF Base
<1> DEFINE b == Base
<1>2. \A n \in Nat : n > 2 => n * n \in Nat /\ n * n > 2
  OBVIOUS
<1> QED BY <1>1, <1>2

LEMMA DownWord ==
  ASSUME NEW w \in Word
  PROVE  /\ Down(w) \in Word
         /\ Down(w) = IF w = 0 THEN Base * Base - 1 ELSE w - 1
<1> DEFINE n == Base * Base
<1>1. n \in Nat /\ n > 2 /\ w \in 0 .. n - 1
  BY BaseType DEF Word
<1> HIDE DEF n
<1>2. (w + n - 1) % n = IF w = 0 THEN n - 1 ELSE w - 1
  BY <1>1
<1> QED BY <1>1, <1>2 DEF Down, Word, n

\* The two bytes of a word, put together.
LEMMA JoinedWord ==
  ASSUME NEW h \in Byte, NEW l \in Byte PROVE Joined(h, l) \in Word
<1>1. Base \in Nat /\ Base > 2 /\ h \in 0 .. Base - 1 /\ l \in 0 .. Base - 1
  BY BaseType, ViaAssumption DEF Byte, Base
<1>2. \A b \in Nat : \A x \in 0 .. b - 1, y \in 0 .. b - 1 :
         x * b + y \in Int /\ x * b + y >= 0
  OBVIOUS
<1>3. \A b \in Nat : \A x \in 0 .. b - 1 : x * b <= (b - 1) * b
  OBVIOUS
<1> QED BY <1>1, <1>2, <1>3 DEF Joined, Word

LEMMA BytesOfWord ==
  ASSUME NEW w \in Word PROVE Low(w) \in Byte /\ High(w) \in Byte
<1>1. Base \in Nat /\ Base > 2 /\ w \in 0 .. Base * Base - 1 /\ Byte = 0 .. Base - 1
  BY BaseType, ViaAssumption DEF Word, Byte, Base
<1>2. Low(w) \in 0 .. Base - 1
  BY <1>1 DEF Low
<1>3. ASSUME NEW b \in Nat, b > 0, NEW x \in 0 .. b * b - 1
      PROVE  x \div b \in 0 .. b - 1
  <2> DEFINE q == x \div b
  <2>1. q \in Int /\ q * b <= x /\ x < (q + 1) * b
    BY <1>3
  <2> HIDE DEF q
  <2>2. q < b
    <3>1. SUFFICES ASSUME q >= b PROVE FALSE
      BY <1>3, <2>1
    <3>2. q * b >= b * b
      BY <1>3, <2>1, <3>1
    <3> QED BY <1>3, <2>1, <3>2
  <2>3. q >= 0
    <3>1. SUFFICES ASSUME q + 1 <= 0 PROVE FALSE
      BY <1>3, <2>1
    <3>2. (q + 1) * b <= 0
      BY <1>3, <2>1, <3>1
    <3> QED BY <1>3, <2>1, <3>2
  <2> QED BY <2>1, <2>2, <2>3, <1>3 DEF q
<1> QED BY <1>1, <1>2, <1>3 DEF High
-----------------------------------------------------------------------------
(* Flags *)

\* What is kept of a 6522 between two operations.
Follows(v) == v \in ViaRecords /\ (v.irq <=> v.ier \intersect v.ifr # {})

\* The state of timer 1, and of timer 2, is left alone.
Same1(v, w) ==
  /\ w.t1c = v.t1c /\ w.t1l = v.t1l /\ w.t1Ticking = v.t1Ticking /\ w.t1Reload = v.t1Reload
  /\ w.t1TimedOut = v.t1TimedOut /\ w.t1FreeRunIRQsOn = v.t1FreeRunIRQsOn
  /\ w.t1Triggered = v.t1Triggered /\ w.acr = v.acr
  /\ "T1" \in w.ifr <=> "T1" \in v.ifr
Same2(v, w) ==
  /\ w.t2c = v.t2c /\ w.t2Latch = v.t2Latch /\ w.t2CountingDown = v.t2CountingDown
  /\ w.t2Reload = v.t2Reload /\ w.t2TimedOut = v.t2TimedOut
  /\ w.t2Triggered = v.t2Triggered /\ w.countPB6Old = v.countPB6Old /\ w.acr = v.acr
  /\ "T2" \in w.ifr <=> "T2" \in v.ifr

LEMMA SetFlags ==
  ASSUME NEW v \in ViaRecords, NEW S \in SUBSET Flags
  PROVE  LET w == OutputIRQ([v EXCEPT !.ifr = S])
         IN  /\ Follows(w) /\ w.ifr = S
             /\ ("T1" \in S <=> "T1" \in v.ifr) => Same1(v, w)
             /\ ("T2" \in S <=> "T2" \in v.ifr) => Same2(v, w)
<1> DEFINE u == [v EXCEPT !.ifr = S]
           w == OutputIRQ(u)
<1>1. u \in ViaRecords
  BY Zenon DEF ViaRecords
<1>2. w \in ViaRecords /\ w.ifr = S /\ (w.irq <=> w.ier \intersect w.ifr # {})
  <2> DEFINE irq == u.ier \intersect u.ifr # {}
  <2>1. irq \in BOOLEAN
    BY Zenon
  <2>2. w = [u EXCEPT !.irq = irq]
    BY Zenon DEF OutputIRQ
  <2>3. u.ifr = S
    BY SMT DEF ViaRecords
  <2> HIDE DEF u, irq, w
  <2>4. w \in ViaRecords
    BY <1>1, <2>1, <2>2, Zenon DEF ViaRecords
  <2>5. w.irq = irq /\ w.ier = u.ier /\ w.ifr = u.ifr
    BY <1>1, <2>2, SMT DEF ViaRecords
  <2> QED BY <2>3, <2>4, <2>5, Zenon DEF irq
<1>3. ("T1" \in S <=> "T1" \in v.ifr) => Same1(v, w)
  BY SMT DEF ViaRecords, OutputIRQ, Same1
<1>4. ("T2" \in S <=> "T2" \in v.ifr) => Same2(v, w)
  BY SMT DEF ViaRecords, OutputIRQ, Same2
<1> QED BY <1>2, <1>3, <1>4, Zenon DEF Follows

LEMMA SetInterruptKeeps ==
  ASSUME NEW v \in ViaRecords, NEW flag \in Flags
  PROVE  LET w == SetInterrupt(v, flag)
         IN  /\ Follows(w) /\ w.ifr = v.ifr \union {flag}
             /\ flag # "T1" => Same1(v, w)
             /\ flag # "T2" => Same2(v, w)
<1> DEFINE S == v.ifr \union {flag}
<1>1. S \in SUBSET Flags
  BY DEF ViaRecords
<1>2. /\ flag # "T1" => ("T1" \in S <=> "T1" \in v.ifr)
      /\ flag # "T2" => ("T2" \in S <=> "T2" \in v.ifr)
  OBVIOUS
<1>3. SetInterrupt(v, flag) = OutputIRQ([v EXCEPT !.ifr = S])
  BY DEF SetInterrupt
<1> HIDE DEF S
<1>4. SetInterrupt(v, flag).ifr = S
  BY <1>1, <1>3, SetFlags
<1> QED BY <1>1, <1>2, <1>3, <1>4, SetFlags DEF S

LEMMA ClearInterruptKeeps ==
  ASSUME NEW v, Follows(v), NEW flags
  PROVE  LET w == ClearInterrupt(v, flags)
         IN  /\ Follows(w) /\ w.ifr = v.ifr \ flags
             /\ "T1" \notin flags => Same1(v, w)
             /\ "T2" \notin flags => Same2(v, w)
<1> DEFINE S == v.ifr \ flags
<1>1. S \in SUBSET Flags /\ v \in ViaRecords
  BY DEF Follows, ViaRecords
<1>2. CASE v.ifr \intersect flags = {}
  <2>1. ClearInterrupt(v, flags) = v /\ v.ifr = S
    BY <1>2 DEF ClearInterrupt
  <2> QED BY <2>1 DEF Same1, Same2
<1>3. CASE v.ifr \intersect flags # {}
  <2>1. /\ "T1" \notin flags => ("T1" \in S <=> "T1" \in v.ifr)
        /\ "T2" \notin flags => ("T2" \in S <=> "T2" \in v.ifr)
    OBVIOUS
  <2>2. ClearInterrupt(v, flags) = OutputIRQ([v EXCEPT !.ifr = S])
    BY <1>3 DEF ClearInterrupt
  <2> HIDE DEF S
  <2>3. ClearInterrupt(v, flags).ifr = S
    BY <1>1, <2>2, SetFlags
  <2> QED BY <1>1, <2>1, <2>2, <2>3, SetFlags DEF S
<1> QED BY <1>2, <1>3

LEMMA Quiet ==
  ASSUME NEW v, Follows(v), NEW w \in ViaRecords,
         w.irq = v.irq, w.ier = v.ier, w.ifr = v.ifr
  PROVE  Follows(w)
BY Zenon DEF Follows

LEMMA InputCA1Keeps ==
  ASSUME NEW v, Follows(v), NEW value \in BOOLEAN
  PROVE  LET w == InputCA1(v, value) IN Follows(w) /\ Same1(v, w) /\ Same2(v, w) /\ w.ier = v.ier
<1> DEFINE u == IF v.ca1 # value /\ v.positive = value THEN SetInterrupt(v, "CA1") ELSE v
           w == [u EXCEPT !.ca1 = value]
<1>1. v \in ViaRecords
  BY DEF Follows
<1>2. Follows(u) /\ Same1(v, u) /\ Same2(v, u) /\ u.ier = v.ier
  <2>1. Follows(v) /\ Same1(v, v) /\ Same2(v, v)
    BY DEF Same1, Same2
  <2>2. "CA1" \in Flags
    BY DEF Flags
  <2>3. SetInterrupt(v, "CA1").ier = v.ier
    BY <1>1, SMT DEF SetInterrupt, OutputIRQ, ViaRecords
  <2> QED BY <1>1, <2>1, <2>2, <2>3, SetInterruptKeeps, Zenon
<1>3. InputCA1(v, value) = w
  BY Zenon DEF InputCA1
<1> HIDE DEF u
<1>4. u \in ViaRecords
  BY <1>2 DEF Follows
<1>5. w \in ViaRecords
  BY <1>4, Zenon DEF ViaRecords
<1>6. w.irq = u.irq /\ w.ier = u.ier /\ w.ifr = u.ifr
  BY <1>4, SMT DEF ViaRecords
<1>7. Same1(v, w) /\ Same2(v, w)
  BY <1>2, <1>4, SMT DEF ViaRecords, Same1, Same2
<1> QED BY <1>2, <1>3, <1>5, <1>6, <1>7, Quiet, Zenon

-----------------------------------------------------------------------------
(* A cycle *)

\* What a cycle does to timer 1.
Armed1(v) == IF v.acr.freeRun THEN v.t1FreeRunIRQsOn ELSE ~v.t1Triggered
Ticked1(v, w) ==
  /\ w.t1c = (IF v.t1TimedOut THEN v.t1l
              ELSE IF v.t1Ticking /\ ~v.t1Reload THEN Down(v.t1c) ELSE v.t1c)
  /\ w.t1TimedOut <=> T1TimesOut(v)
  /\ ~w.t1Reload
  /\ w.t1Triggered <=> v.t1Triggered \/ (T1TimesOut(v) /\ ~v.acr.freeRun)
  /\ w.t1l = v.t1l /\ w.t1Ticking = v.t1Ticking /\ w.t1FreeRunIRQsOn = v.t1FreeRunIRQsOn
  /\ w.acr = v.acr
  /\ "T1" \in w.ifr <=> "T1" \in v.ifr \/ (T1TimesOut(v) /\ Armed1(v))

LEMMA Timer1Keeps ==
  ASSUME NEW v, Follows(v)
  PROVE  LET w == Timer1(v) IN Follows(w) /\ Same2(v, w) /\ Ticked1(v, w) /\ w.ier = v.ier
<1> DEFINE c == IF v.t1TimedOut THEN v.t1l
                ELSE IF v.t1Ticking /\ ~v.t1Reload THEN Down(v.t1c) ELSE v.t1c
           times == T1TimesOut(v)
           again == v.t1Triggered \/ (times /\ ~v.acr.freeRun)
           counted == [v EXCEPT !.t1c = c, !.t1TimedOut = times, !.t1Reload = FALSE,
                                !.t1Triggered = again]
           w == IF times /\ Armed1(v) THEN SetInterrupt(counted, "T1") ELSE counted
<1>1. v \in ViaRecords
  BY DEF Follows
<1>2. Timer1(v) = w
  BY Zenon DEF Timer1, Armed1
<1>3. c \in Word /\ times \in BOOLEAN /\ again \in BOOLEAN
  <2>1. c \in Word
    BY <1>1, DownWord DEF ViaRecords
  <2>2. times \in BOOLEAN
    BY Zenon DEF T1TimesOut
  <2>3. again \in BOOLEAN
    BY Zenon
  <2> QED BY <2>1, <2>2, <2>3
<1> HIDE DEF c, times, again
<1>4. counted \in ViaRecords
  BY <1>1, <1>3, Zenon DEF ViaRecords
<1>5. counted.irq = v.irq /\ counted.ier = v.ier /\ counted.ifr = v.ifr
  BY <1>1, SMT DEF ViaRecords
<1>6. /\ counted.t1c = c /\ counted.t1TimedOut = times /\ counted.t1Reload = FALSE
      /\ counted.t1Triggered = again /\ counted.t1l = v.t1l /\ counted.t1Ticking = v.t1Ticking
      /\ counted.t1FreeRunIRQsOn = v.t1FreeRunIRQsOn /\ counted.acr = v.acr
  BY <1>1, SMT DEF ViaRecords
<1>7. Same2(v, counted)
  BY <1>1, SMT DEF ViaRecords, Same2
<1> HIDE DEF counted
<1>8. Follows(counted)
  BY <1>4, <1>5, Quiet, Zenon
<1>9. CASE times /\ Armed1(v)
  <2>1. w = SetInterrupt(counted, "T1") /\ "T1" \in Flags
    BY <1>9, Zenon DEF Flags
  <2>2. Follows(w) /\ w.ifr = counted.ifr \union {"T1"} /\ Same2(counted, w)
    BY <1>4, <2>1, SetInterruptKeeps
  <2>3. /\ w.t1c = c /\ w.t1TimedOut = times /\ w.t1Reload = FALSE
        /\ w.t1Triggered = again /\ w.t1l = v.t1l /\ w.t1Ticking = v.t1Ticking
        /\ w.t1FreeRunIRQsOn = v.t1FreeRunIRQsOn /\ w.acr = v.acr /\ w.ier = v.ier
    BY <1>4, <1>5, <1>6, <2>1, SMT DEF ViaRecords, SetInterrupt, OutputIRQ
  <2>4. Ticked1(v, w)
    BY <1>9, <2>2, <2>3, Zenon DEF Ticked1, c, times, again
  <2> QED BY <1>2, <1>7, <2>2, <2>3, <2>4, Zenon DEF Same2
<1>10. CASE ~(times /\ Armed1(v))
  <2>1. w = counted
    BY <1>10, Zenon
  <2>2. Ticked1(v, w)
    BY <1>5, <1>6, <1>10, <2>1, Zenon DEF Ticked1, c, times, again
  <2> QED BY <1>2, <1>5, <1>7, <1>8, <2>1, <2>2, Zenon
<1> QED BY <1>9, <1>10

\* What timer 2 and the shift register leave alone.
Keeps1(v, w) == Follows(w) /\ Same1(v, w) /\ w.ier = v.ier
LEMMA Keeps1Twice ==
  ASSUME NEW u, NEW v, NEW w, Keeps1(u, v), Keeps1(v, w)
  PROVE  Keeps1(u, w)
BY Zenon DEF Keeps1, Same1

LEMMA KeepsQuietly ==
  ASSUME NEW v, Follows(v), NEW w \in ViaRecords, Same1(v, w),
         w.irq = v.irq, w.ier = v.ier, w.ifr = v.ifr
  PROVE  Keeps1(v, w)
BY Quiet, Zenon DEF Keeps1

\* One field after another.
LEMMA CountKeeps ==
  ASSUME NEW v, Follows(v), NEW c \in Word, NEW b \in BOOLEAN
  PROVE  Keeps1(v, [v EXCEPT !.t2c = c, !.t2TimedOut = b])
<1> DEFINE w == [v EXCEPT !.t2c = c, !.t2TimedOut = b]
<1>1. v \in ViaRecords
  BY DEF Follows
<1>2. w \in ViaRecords
  BY <1>1, Zenon DEF ViaRecords
<1>3. w.irq = v.irq /\ w.ier = v.ier /\ w.ifr = v.ifr /\ Same1(v, w)
  BY <1>1, SMT DEF ViaRecords, Same1
<1> HIDE DEF w
<1>4. Keeps1(v, w)
  BY <1>2, <1>3, KeepsQuietly, Zenon
<1> QED BY <1>4 DEF w

LEMMA TriggerKeeps ==
  ASSUME NEW v, Follows(v), NEW b \in BOOLEAN
  PROVE  Keeps1(v, [v EXCEPT !.t2Triggered = b])
<1> DEFINE w == [v EXCEPT !.t2Triggered = b]
<1>1. v \in ViaRecords
  BY DEF Follows
<1>2. w \in ViaRecords
  BY <1>1, Zenon DEF ViaRecords
<1>3. w.irq = v.irq /\ w.ier = v.ier /\ w.ifr = v.ifr /\ Same1(v, w)
  BY <1>1, SMT DEF ViaRecords, Same1
<1> HIDE DEF w
<1>4. Keeps1(v, w)
  BY <1>2, <1>3, KeepsQuietly, Zenon
<1> QED BY <1>4 DEF w

LEMMA ReloadKeeps ==
  ASSUME NEW v, Follows(v), NEW b \in BOOLEAN
  PROVE  Keeps1(v, [v EXCEPT !.t2Reload = b])
<1> DEFINE w == [v EXCEPT !.t2Reload = b]
<1>1. v \in ViaRecords
  BY DEF Follows
<1>2. w \in ViaRecords
  BY <1>1, Zenon DEF ViaRecords
<1>3. w.irq = v.irq /\ w.ier = v.ier /\ w.ifr = v.ifr /\ Same1(v, w)
  BY <1>1, SMT DEF ViaRecords, Same1
<1> HIDE DEF w
<1>4. Keeps1(v, w)
  BY <1>2, <1>3, KeepsQuietly, Zenon
<1> QED BY <1>4 DEF w

LEMMA RolledKeeps ==
  ASSUME NEW v, Follows(v), NEW n \in 0 .. 3
  PROVE  Keeps1(v, [v EXCEPT !.t2TimedOutCount = n])
<1> DEFINE w == [v EXCEPT !.t2TimedOutCount = n]
<1>1. v \in ViaRecords
  BY DEF Follows
<1>2. w \in ViaRecords
  BY <1>1, Zenon DEF ViaRecords
<1>3. w.irq = v.irq /\ w.ier = v.ier /\ w.ifr = v.ifr /\ Same1(v, w)
  BY <1>1, SMT DEF ViaRecords, Same1
<1> HIDE DEF w
<1>4. Keeps1(v, w)
  BY <1>2, <1>3, KeepsQuietly, Zenon
<1> QED BY <1>4 DEF w

LEMMA EdgeKeeps ==
  ASSUME NEW v, Follows(v), NEW b \in BOOLEAN
  PROVE  Keeps1(v, [v EXCEPT !.shiftEdge = b])
<1> DEFINE w == [v EXCEPT !.shiftEdge = b]
<1>1. v \in ViaRecords
  BY DEF Follows
<1>2. w \in ViaRecords
  BY <1>1, Zenon DEF ViaRecords
<1>3. w.irq = v.irq /\ w.ier = v.ier /\ w.ifr = v.ifr /\ Same1(v, w)
  BY <1>1, SMT DEF ViaRecords, Same1
<1> HIDE DEF w
<1>4. Keeps1(v, w)
  BY <1>2, <1>3, KeepsQuietly, Zenon
<1> QED BY <1>4 DEF w

LEMMA PastKeeps ==
  ASSUME NEW v, Follows(v), NEW pb6 \in Inputs, NEW b \in BOOLEAN
  PROVE  Keeps1(v, [v EXCEPT !.pb6Old = pb6, !.countPB6Old = b])
<1> DEFINE w == [v EXCEPT !.pb6Old = pb6, !.countPB6Old = b]
<1>1. v \in ViaRecords
  BY DEF Follows
<1>2. w \in ViaRecords
  BY <1>1, Zenon DEF ViaRecords
<1>3. w.irq = v.irq /\ w.ier = v.ier /\ w.ifr = v.ifr /\ Same1(v, w)
  BY <1>1, SMT DEF ViaRecords, Same1
<1> HIDE DEF w
<1>4. Keeps1(v, w)
  BY <1>2, <1>3, KeepsQuietly, Zenon
<1> QED BY <1>4 DEF w

LEMMA ClockedKeeps ==
  ASSUME NEW v, Follows(v)
  PROVE  LET w == Clocked(v) IN Keeps1(v, w) /\ Same2(v, w)
<1> DEFINE w == Clocked(v)
<1>1. v \in ViaRecords
  BY DEF Follows
<1>2. w \in ViaRecords
  <2> DEFINE edge == v.shiftClock
             clock == ~v.shiftClock
  <2>1. edge \in BOOLEAN /\ clock \in BOOLEAN
    BY <1>1, Zenon DEF ViaRecords
  <2>2. w = [v EXCEPT !.shiftEdge = edge, !.shiftClock = clock]
    BY Zenon DEF Clocked
  <2> HIDE DEF edge, clock, w
  <2> QED BY <1>1, <2>1, <2>2, ZenonT(40) DEF ViaRecords
<1>3. w.irq = v.irq /\ w.ier = v.ier /\ w.ifr = v.ifr
  BY <1>1, SMT DEF ViaRecords, Clocked
<1>4. Same1(v, w) /\ Same2(v, w)
  BY <1>1, SMT DEF ViaRecords, Same1, Same2, Clocked
<1> HIDE DEF w
<1>5. Follows(w)
  BY <1>2, <1>3, Quiet, Zenon
<1> QED BY <1>3, <1>4, <1>5 DEF Keeps1, w

\* Timer 2 in the cycle after it timed out.
LEMMA Restarted2Keeps ==
  ASSUME NEW v, Follows(v)
  PROVE  LET w == Restarted2(v)
         IN  /\ Keeps1(v, w) /\ ~w.t2TimedOut
             /\ w.t2CountingDown = v.t2CountingDown /\ w.t2Reload = v.t2Reload
             /\ w.t2Triggered = v.t2Triggered /\ w.countPB6Old = v.countPB6Old
             /\ "T2" \in w.ifr <=> "T2" \in v.ifr
             /\ ~v.t2TimedOut => w = v
<1>1. v \in ViaRecords
  BY DEF Follows
<1>2. CASE ~v.t2TimedOut
  <2>1. Restarted2(v) = v
    BY <1>2, Zenon DEF Restarted2
  <2>2. Same1(v, v)
    BY DEF Same1
  <2> QED BY <1>2, <2>1, <2>2 DEF Keeps1
<1>3. CASE v.t2TimedOut
  <2> DEFINE u == IF ShiftByTimer2(v) THEN Clocked(v) ELSE v
             d == IF v.t2Latch = ByteMax THEN Down(v.t2c) ELSE v.t2c
             c == IF v.t2TimedOutCount > 1 /\ High(d) = 0
                  THEN Joined(ByteMax, (v.t2Latch + 2) % Base)
                  ELSE Joined(High(d), v.t2Latch)
             w == [u EXCEPT !.t2c = c, !.t2TimedOut = FALSE]
  <2>1. Restarted2(v) = w
    BY <1>3, Zenon DEF Restarted2
  <2>2. d \in Word /\ v.t2Latch \in Byte
    BY <1>1, DownWord DEF ViaRecords
  <2>3. c \in Word
    <3>1. High(d) \in Byte
      BY <2>2, BytesOfWord
    <3>2. ByteMax \in Byte /\ (v.t2Latch + 2) % Base \in Byte
      BY <2>2, ViaAssumption DEF Byte, Base
    <3> QED BY <2>2, <3>1, <3>2, JoinedWord
  <2>4. Keeps1(v, u) /\ Same2(v, u)
    <3>1. Keeps1(v, v) /\ Same2(v, v)
      BY DEF Keeps1, Same1, Same2
    <3> QED BY <3>1, ClockedKeeps
  <2> HIDE DEF u, c
  <2>5. Follows(u) /\ u \in ViaRecords
    BY <2>4 DEF Keeps1, Follows
  <2>6. Keeps1(u, w)
    BY <2>3, <2>5, CountKeeps DEF w
  <2>7. /\ w.t2TimedOut = FALSE /\ w.t2CountingDown = u.t2CountingDown /\ w.t2Reload = u.t2Reload
        /\ w.t2Triggered = u.t2Triggered /\ w.countPB6Old = u.countPB6Old /\ w.ifr = u.ifr
    BY <2>5, SMT DEF ViaRecords
  <2>8. Keeps1(v, w)
    BY <2>4, <2>6, Keeps1Twice
  <2> QED BY <1>3, <2>1, <2>4, <2>7, <2>8, Zenon DEF Same2
<1> QED BY <1>2, <1>3

LEMMA KeepsItself == ASSUME NEW v, Follows(v) PROVE Keeps1(v, v)
BY DEF Keeps1, Same1

LEMMA KeepsFollows == ASSUME NEW v, NEW w, Keeps1(v, w) PROVE Follows(w) /\ w \in ViaRecords
BY DEF Keeps1, Follows

LEMMA InterruptT2Keeps ==
  ASSUME NEW v, Follows(v)
  PROVE  LET w == SetInterrupt(v, "T2")
         IN  Keeps1(v, w) /\ w.ifr = v.ifr \union {"T2"} /\ w.t2CountingDown = v.t2CountingDown
<1>1. v \in ViaRecords /\ "T2" \in Flags
  BY DEF Follows, Flags
<1>2. SetInterrupt(v, "T2").ier = v.ier
  BY <1>1, SMT DEF SetInterrupt, OutputIRQ, ViaRecords
<1>3. SetInterrupt(v, "T2").t2CountingDown = v.t2CountingDown
  BY <1>1, SMT DEF SetInterrupt, OutputIRQ, ViaRecords
<1> QED BY <1>1, <1>2, <1>3, SetInterruptKeeps DEF Keeps1

LEMMA Switched2Keeps ==
  ASSUME NEW v, Follows(v)
  PROVE  Keeps1(v, Switched2(v)) /\ Switched2(v).t2CountingDown = v.t2CountingDown
<1> DEFINE again == [v EXCEPT !.t2Triggered = FALSE]
           c == Down(v.t2c)
<1>1. v \in ViaRecords /\ c \in Word
  BY DownWord DEF Follows, ViaRecords
<1>2. Keeps1(v, again) /\ again.t2CountingDown = v.t2CountingDown
  <2>1. Keeps1(v, again)
    BY TriggerKeeps
  <2>2. again.t2CountingDown = v.t2CountingDown
    BY <1>1, SMT DEF ViaRecords
  <2> QED BY <2>1, <2>2
<1>3. Follows(again) /\ again \in ViaRecords
  BY <1>2, KeepsFollows
<1> HIDE DEF again
<1>4. CASE v.acr.countPB6
  <2> DEFINE timedOut == c = 0
             w == [again EXCEPT !.t2c = c, !.t2TimedOut = timedOut]
  <2>1. Switched2(v) = w
    BY <1>4, Zenon DEF Switched2, again
  <2>2. timedOut \in BOOLEAN
    BY Zenon
  <2> HIDE DEF timedOut, c
  <2>3. Keeps1(again, w)
    BY <1>1, <1>3, <2>2, CountKeeps
  <2>4. w.t2CountingDown = again.t2CountingDown
    BY <1>3, SMT DEF ViaRecords
  <2> QED BY <1>2, <2>1, <2>3, <2>4, Keeps1Twice, Zenon
<1>5. CASE ~v.acr.countPB6 /\ v.t2c = 0
  <2>1. Switched2(v) = SetInterrupt(again, "T2")
    BY <1>5, Zenon DEF Switched2, again
  <2> QED BY <1>2, <1>3, <2>1, InterruptT2Keeps, Keeps1Twice
<1>6. CASE ~v.acr.countPB6 /\ v.t2c # 0
  <2>1. Switched2(v) = again
    BY <1>6, Zenon DEF Switched2, again
  <2> QED BY <1>2, <2>1
<1> QED BY <1>4, <1>5, <1>6

LEMMA CountedPB6Keeps ==
  ASSUME NEW v, Follows(v), NEW pb6
  PROVE  Keeps1(v, CountedPB6(v, pb6)) /\ CountedPB6(v, pb6).t2CountingDown = v.t2CountingDown
<1>1. CASE ~NegativeEdge(v.pb6Old, pb6)
  BY <1>1, KeepsItself DEF CountedPB6
<1>2. CASE NegativeEdge(v.pb6Old, pb6)
  <2> DEFINE c == Down(v.t2c)
             timedOut == c = 0
             w == [v EXCEPT !.t2c = c, !.t2TimedOut = timedOut]
  <2>1. CountedPB6(v, pb6) = w
    BY <1>2, Zenon DEF CountedPB6
  <2>2. v \in ViaRecords /\ c \in Word
    BY DownWord DEF Follows, ViaRecords
  <2>3. timedOut \in BOOLEAN
    BY Zenon
  <2> HIDE DEF timedOut, c
  <2>4. Keeps1(v, w)
    BY <2>2, <2>3, CountKeeps
  <2>5. w.t2CountingDown = v.t2CountingDown
    BY <2>2, SMT DEF ViaRecords
  <2> QED BY <2>1, <2>4, <2>5, Zenon
<1> QED BY <1>1, <1>2

\* Timer 2 counts a cycle.
Counts2(v, w) ==
  /\ w.t2c = Down(v.t2c) /\ w.t2TimedOut = (Down(v.t2c) = 0)
  /\ w.t2Triggered = v.t2Triggered /\ w.t2Reload = v.t2Reload /\ w.ifr = v.ifr

LEMMA CountedCycleKeeps ==
  ASSUME NEW v, Follows(v)
  PROVE  LET w == CountedCycle(v)
         IN  /\ Keeps1(v, w) /\ w.t2CountingDown = v.t2CountingDown
             /\ ~ShiftByTimer2(v) => Counts2(v, w)
<1> DEFINE c == Down(v.t2c)
           zero == c = 0
           counted == [v EXCEPT !.t2c = c, !.t2TimedOut = zero]
           again == IF v.t2TimedOutCount = 3 THEN 3 ELSE v.t2TimedOutCount + 1
           rolled == [counted EXCEPT !.t2TimedOutCount = again]
<1>1. v \in ViaRecords /\ c \in Word
  BY DownWord DEF Follows, ViaRecords
<1>2. again \in 0 .. 3
  BY <1>1, SMT DEF ViaRecords
<1>3. zero \in BOOLEAN
  BY Zenon
<1> HIDE DEF c, zero, again
<1>4. Keeps1(v, counted)
  BY <1>1, <1>3, CountKeeps
<1>5. Follows(counted) /\ counted \in ViaRecords
  BY <1>4, KeepsFollows
<1>6. /\ counted.t2c = c /\ counted.t2TimedOut = zero /\ counted.t2Triggered = v.t2Triggered
      /\ counted.t2Reload = v.t2Reload /\ counted.ifr = v.ifr
      /\ counted.t2CountingDown = v.t2CountingDown
  BY <1>1, SMT DEF ViaRecords
<1> HIDE DEF counted
<1>7. Keeps1(counted, rolled)
  BY <1>2, <1>5, RolledKeeps
<1>8. Follows(rolled) /\ rolled \in ViaRecords
  BY <1>7, KeepsFollows
<1>9. /\ rolled.t2c = counted.t2c /\ rolled.t2TimedOut = counted.t2TimedOut
      /\ rolled.t2Triggered = counted.t2Triggered
      /\ rolled.t2Reload = counted.t2Reload /\ rolled.ifr = counted.ifr
      /\ rolled.t2CountingDown = counted.t2CountingDown
  BY <1>5, SMT DEF ViaRecords
<1> HIDE DEF rolled
<1>10. CASE Low(c) # ByteMax - 1
  <2>1. CountedCycle(v) = counted
    BY <1>10, Zenon DEF CountedCycle, c, counted, zero
  <2> QED BY <1>4, <1>6, <2>1, Zenon DEF Counts2, c, zero
<1>11. CASE Low(c) = ByteMax - 1 /\ (~ShiftByTimer2(v) \/ again <= 1)
  <2>1. CountedCycle(v) = rolled
    BY <1>11, Zenon DEF CountedCycle, c, counted, zero, again, rolled
  <2>2. Keeps1(v, rolled)
    BY <1>4, <1>7, Keeps1Twice
  <2> QED BY <1>6, <1>9, <2>1, <2>2, Zenon DEF Counts2, c, zero
<1>12. CASE Low(c) = ByteMax - 1 /\ ~(~ShiftByTimer2(v) \/ again <= 1)
  <2> DEFINE u == Clocked(rolled)
             d == Joined(High(c), v.t2Latch)
             w == [u EXCEPT !.t2c = d, !.t2TimedOut = FALSE]
  <2>1. CountedCycle(v) = w
    BY <1>12, Zenon DEF CountedCycle, c, counted, zero, again, rolled
  <2>2. d \in Word
    <3>1. High(c) \in Byte /\ v.t2Latch \in Byte
      BY <1>1, BytesOfWord DEF ViaRecords
    <3> QED BY <3>1, JoinedWord
  <2>3. Keeps1(rolled, u) /\ Same2(rolled, u)
    BY <1>8, ClockedKeeps
  <2> HIDE DEF u, d
  <2>4. Follows(u) /\ u \in ViaRecords
    BY <2>3, KeepsFollows
  <2>5. Keeps1(u, w)
    BY <2>2, <2>4, CountKeeps
  <2>6. w.t2CountingDown = u.t2CountingDown
    BY <2>4, SMT DEF ViaRecords
  <2> HIDE DEF w
  <2>7. Keeps1(v, w)
    BY <1>4, <1>7, <2>3, <2>5, Keeps1Twice
  <2>8. w.t2CountingDown = v.t2CountingDown
    BY <1>6, <1>9, <2>3, <2>6, Zenon DEF Same2
  <2> QED BY <1>12, <2>1, <2>7, <2>8, Zenon
<1> QED BY <1>10, <1>11, <1>12

\* What a cycle does to timer 2 while it counts cycles.
CountsCycles(v) == ~v.acr.countPB6 /\ ~v.countPB6Old /\ ~ShiftByTimer2(v)

LEMMA Counted2Keeps ==
  ASSUME NEW v, Follows(v), NEW pb6
  PROVE  LET w == Counted2(v, pb6)
         IN  /\ Keeps1(v, w) /\ w.t2CountingDown = v.t2CountingDown
             /\ CountsCycles(v) =>
                  \/ v.t2Reload /\ ~w.t2Reload /\ w.t2c = v.t2c /\ w.t2TimedOut = v.t2TimedOut
                     /\ w.t2Triggered = v.t2Triggered /\ w.ifr = v.ifr
                  \/ ~v.t2Reload /\ Counts2(v, w)
<1>0. v \in ViaRecords
  BY DEF Follows
<1>1. CASE v.acr.countPB6 # v.countPB6Old
  <2>1. Counted2(v, pb6) = Switched2(v)
    BY <1>1 DEF Counted2
  <2>2. ~CountsCycles(v)
    BY <1>0, <1>1, Zenon DEF CountsCycles, ViaRecords, Modes
  <2> QED BY <2>1, <2>2, Switched2Keeps
<1>2. CASE v.acr.countPB6 = v.countPB6Old /\ v.t2Reload
  <2> DEFINE w == [v EXCEPT !.t2Reload = FALSE]
  <2>1. Counted2(v, pb6) = w
    BY <1>2 DEF Counted2
  <2>2. Keeps1(v, w)
    BY ReloadKeeps
  <2>3. /\ w.t2Reload = FALSE /\ w.t2c = v.t2c /\ w.t2TimedOut = v.t2TimedOut
        /\ w.t2Triggered = v.t2Triggered /\ w.ifr = v.ifr /\ w.t2CountingDown = v.t2CountingDown
    BY <1>0, SMT DEF ViaRecords
  <2> QED BY <1>2, <2>1, <2>2, <2>3, Zenon
<1>3. CASE v.acr.countPB6 = v.countPB6Old /\ ~v.t2Reload /\ v.acr.countPB6
  <2>1. Counted2(v, pb6) = CountedPB6(v, pb6) /\ ~CountsCycles(v)
    BY <1>3 DEF Counted2, CountsCycles
  <2> QED BY <2>1, CountedPB6Keeps
<1>4. CASE v.acr.countPB6 = v.countPB6Old /\ ~v.t2Reload /\ ~v.acr.countPB6
  <2>1. Counted2(v, pb6) = CountedCycle(v)
    BY <1>4 DEF Counted2
  <2> QED BY <1>4, <2>1, CountedCycleKeeps DEF CountsCycles
<1> QED BY <1>1, <1>2, <1>3, <1>4

LEMMA Triggered2Keeps ==
  ASSUME NEW v, Follows(v)
  PROVE  LET w == Triggered2(v)
         IN  /\ Keeps1(v, w) /\ w.t2CountingDown = v.t2CountingDown
             /\ w.t2TimedOut = v.t2TimedOut /\ w.t2c = v.t2c /\ w.t2Reload = v.t2Reload
             /\ w.t2Triggered <=> v.t2Triggered \/ v.t2TimedOut
             /\ w.ifr = IF v.t2TimedOut /\ ~v.t2Triggered THEN v.ifr \union {"T2"} ELSE v.ifr
<1>0. v \in ViaRecords
  BY DEF Follows
<1>1. CASE v.t2TimedOut /\ ~v.t2Triggered
  <2> DEFINE u == [v EXCEPT !.t2Triggered = TRUE]
             w == SetInterrupt(u, "T2")
  <2>1. Triggered2(v) = w
    BY <1>1, Zenon DEF Triggered2
  <2>2. Keeps1(v, u)
    BY TriggerKeeps
  <2>3. Follows(u) /\ u \in ViaRecords
    BY <2>2, KeepsFollows
  <2>4. /\ w.t2CountingDown = v.t2CountingDown /\ w.t2TimedOut = v.t2TimedOut
        /\ w.t2c = v.t2c /\ w.t2Reload = v.t2Reload /\ w.t2Triggered = TRUE
    BY <1>0, SMT DEF ViaRecords, SetInterrupt, OutputIRQ
  <2>5. u.ifr = v.ifr
    BY <1>0, SMT DEF ViaRecords
  <2> HIDE DEF u
  <2>6. Keeps1(u, w) /\ w.ifr = u.ifr \union {"T2"}
    BY <2>3, InterruptT2Keeps
  <2> HIDE DEF w
  <2>7. Keeps1(v, w)
    BY <2>2, <2>6, Keeps1Twice
  <2> QED BY <1>1, <2>1, <2>4, <2>5, <2>6, <2>7, Zenon
<1>2. CASE ~(v.t2TimedOut /\ ~v.t2Triggered)
  <2>1. Triggered2(v) = v
    BY <1>2, Zenon DEF Triggered2
  <2>2. v.t2TimedOut \in BOOLEAN /\ v.t2Triggered \in BOOLEAN
    BY <1>0, Zenon DEF ViaRecords
  <2> QED BY <1>2, <2>1, <2>2, KeepsItself, Zenon
<1> QED BY <1>1, <1>2

\* A time-out of timer 2 was told, when it was not before.
Told2(v) == v.t2TimedOut => v.t2Triggered /\ v.t2CountingDown

Ticked2(v, w) ==
  IF ~v.t2CountingDown \/ v.t2Triggered
  THEN w.t2Triggered = v.t2Triggered /\ ("T2" \in w.ifr <=> "T2" \in v.ifr)
  ELSE IF v.t2Reload
  THEN /\ ~w.t2Reload /\ w.t2c = v.t2c /\ ~w.t2Triggered
       /\ "T2" \in w.ifr <=> "T2" \in v.ifr
  ELSE /\ w.t2c = Down(v.t2c) /\ ~w.t2Reload
       /\ w.t2Triggered <=> Down(v.t2c) = 0
       /\ "T2" \in w.ifr <=> "T2" \in v.ifr \/ Down(v.t2c) = 0

LEMMA Timer2Keeps ==
  ASSUME NEW v, Follows(v), NEW pb6 \in Inputs
  PROVE  LET w == Timer2(v, pb6)
         IN  /\ Keeps1(v, w) /\ w.t2CountingDown = v.t2CountingDown
             /\ w.countPB6Old = v.acr.countPB6 /\ (Told2(v) => Told2(w))
             /\ Told2(v) /\ CountsCycles(v) => Ticked2(v, w)
<1> DEFINE u == [v EXCEPT !.shiftEdge = FALSE]
           restarted == Restarted2(u)
           counts == Counted2(restarted, pb6)
           counted == IF v.t2CountingDown THEN Triggered2(counts) ELSE restarted
           now == v.acr.countPB6
           w == [counted EXCEPT !.pb6Old = pb6, !.countPB6Old = now]
<1>0. v \in ViaRecords
  BY DEF Follows
<1>1. Timer2(v, pb6) = w
  BY Zenon DEF Timer2
<1>2. Keeps1(v, u)
  BY EdgeKeeps
<1>3. Same2(v, u)
  BY <1>0, SMT DEF ViaRecords, Same2
<1>a. now \in BOOLEAN
  BY <1>0, Zenon DEF ViaRecords, Modes
<1> HIDE DEF u, now
<1>4. Follows(u)
  BY <1>2, KeepsFollows
<1>5. /\ Keeps1(u, restarted) /\ ~restarted.t2TimedOut
      /\ restarted.t2CountingDown = u.t2CountingDown /\ restarted.t2Reload = u.t2Reload
      /\ restarted.t2Triggered = u.t2Triggered /\ restarted.countPB6Old = u.countPB6Old
      /\ "T2" \in restarted.ifr <=> "T2" \in u.ifr
      /\ ~u.t2TimedOut => restarted = u
  BY <1>4, Restarted2Keeps
<1> HIDE DEF restarted
<1>6. /\ Keeps1(v, restarted) /\ ~restarted.t2TimedOut
      /\ restarted.t2CountingDown = v.t2CountingDown /\ restarted.t2Reload = v.t2Reload
      /\ restarted.t2Triggered = v.t2Triggered /\ restarted.countPB6Old = v.countPB6Old
      /\ "T2" \in restarted.ifr <=> "T2" \in v.ifr
      /\ ~v.t2TimedOut => restarted.t2c = v.t2c
      /\ restarted.acr = v.acr
  <2>1. Keeps1(v, restarted)
    BY <1>2, <1>5, Keeps1Twice
  <2> QED BY <1>3, <1>5, <2>1, Zenon DEF Same2, Keeps1, Same1
<1>7. /\ Keeps1(v, counted) /\ counted.t2CountingDown = v.t2CountingDown
      /\ counted.t2TimedOut => counted.t2Triggered /\ counted.t2CountingDown
      /\ Told2(v) /\ CountsCycles(v) => Ticked2(v, counted)
  <2>1. CASE ~v.t2CountingDown
    BY <1>6, <2>1, Zenon DEF Ticked2
  <2>2. CASE v.t2CountingDown
    <3>1. /\ Keeps1(restarted, counts) /\ counts.t2CountingDown = restarted.t2CountingDown
          /\ CountsCycles(restarted) =>
               \/ /\ restarted.t2Reload /\ ~counts.t2Reload /\ counts.t2c = restarted.t2c
                  /\ counts.t2TimedOut = restarted.t2TimedOut
                  /\ counts.t2Triggered = restarted.t2Triggered /\ counts.ifr = restarted.ifr
               \/ ~restarted.t2Reload /\ Counts2(restarted, counts)
      BY <1>6, Counted2Keeps, KeepsFollows
    <3> HIDE DEF counts
    <3>2. Follows(counts)
      BY <3>1, KeepsFollows
    <3>3. counted = Triggered2(counts)
      BY <2>2
    <3>4. /\ Keeps1(counts, counted) /\ counted.t2CountingDown = counts.t2CountingDown
          /\ counted.t2TimedOut = counts.t2TimedOut /\ counted.t2c = counts.t2c
          /\ counted.t2Reload = counts.t2Reload
          /\ counted.t2Triggered <=> counts.t2Triggered \/ counts.t2TimedOut
          /\ counted.ifr = IF counts.t2TimedOut /\ ~counts.t2Triggered
                           THEN counts.ifr \union {"T2"} ELSE counts.ifr
      BY <3>2, <3>3, Triggered2Keeps
    <3> HIDE DEF counted
    <3>5. Keeps1(v, counted)
      BY <1>6, <3>1, <3>4, Keeps1Twice
    <3>6. counted.t2CountingDown = v.t2CountingDown
      BY <1>6, <3>1, <3>4
    <3>7. counted.t2TimedOut => counted.t2Triggered /\ counted.t2CountingDown
      BY <2>2, <3>4, <3>6
    <3>8. ASSUME Told2(v), CountsCycles(v) PROVE Ticked2(v, counted)
      <4>1. CountsCycles(restarted)
        BY <1>6, <3>8 DEF CountsCycles, ShiftByTimer2
      <4>2. counted.t2Triggered \in BOOLEAN /\ v.t2Triggered \in BOOLEAN
        <5>1. counted \in ViaRecords
          BY <3>5, KeepsFollows
        <5>2. counted.t2Triggered \in BOOLEAN
          BY <5>1, Zenon DEF ViaRecords
        <5>3. v.t2Triggered \in BOOLEAN
          BY <1>0, Zenon DEF ViaRecords
        <5> QED BY <5>2, <5>3
      <4>3. CASE v.t2Triggered
        <5>1. counted.t2Triggered = v.t2Triggered
          BY <1>6, <3>1, <3>4, <4>1, <4>2, <4>3, Zenon DEF Counts2
        <5>2. "T2" \in counted.ifr <=> "T2" \in v.ifr
          BY <1>6, <3>1, <3>4, <4>1, <4>3, Zenon DEF Counts2
        <5> QED BY <4>3, <5>1, <5>2, Zenon DEF Ticked2
      <4>4. CASE ~v.t2Triggered
        <5>1. ~v.t2TimedOut
          BY <3>8, <4>4 DEF Told2
        <5>2. restarted.t2c = v.t2c /\ ~restarted.t2Triggered
          BY <1>6, <4>4, <5>1
        <5>3. CASE v.t2Reload
          BY <1>6, <2>2, <3>1, <3>4, <4>1, <4>4, <5>2, <5>3, Zenon DEF Ticked2
        <5>4. CASE ~v.t2Reload
          <6>1. counts.t2c = Down(v.t2c) /\ counts.t2TimedOut = (Down(v.t2c) = 0)
            BY <1>6, <3>1, <4>1, <5>2, <5>4, Zenon DEF Counts2
          <6>2. ~counts.t2Triggered /\ ~counts.t2Reload /\ counts.ifr = restarted.ifr
            BY <1>6, <3>1, <4>1, <5>2, <5>4, Zenon DEF Counts2
          <6>3. "T2" \in counted.ifr <=> "T2" \in v.ifr \/ Down(v.t2c) = 0
            BY <1>6, <3>4, <6>1, <6>2, Zenon
          <6> QED BY <2>2, <3>4, <4>4, <5>4, <6>1, <6>2, <6>3, Zenon DEF Ticked2
        <5> QED BY <5>3, <5>4
      <4> QED BY <4>3, <4>4
    <3> QED BY <3>5, <3>6, <3>7, <3>8
  <2> QED BY <2>1, <2>2
<1> HIDE DEF counted
<1>8. Follows(counted) /\ counted \in ViaRecords
  BY <1>7, KeepsFollows
<1>9. Keeps1(counted, w)
  BY <1>8, <1>a, PastKeeps
<1>10. /\ w.t2CountingDown = counted.t2CountingDown /\ w.countPB6Old = now
       /\ w.t2TimedOut = counted.t2TimedOut /\ w.t2Triggered = counted.t2Triggered
       /\ w.t2c = counted.t2c /\ w.t2Reload = counted.t2Reload /\ w.ifr = counted.ifr
  BY <1>8, SMT DEF ViaRecords
<1> HIDE DEF w
<1>11. Keeps1(v, w)
  BY <1>7, <1>9, Keeps1Twice
<1>12. Told2(w)
  BY <1>7, <1>10, Zenon DEF Told2
<1>13. Ticked2(v, counted) => Ticked2(v, w)
  BY <1>10, Zenon DEF Ticked2
<1> QED BY <1>1, <1>7, <1>10, <1>11, <1>12, <1>13, Zenon DEF now

-----------------------------------------------------------------------------
(* The shift register, and a whole cycle *)

LEMMA ShiftRegisterKeeps ==
  ASSUME NEW v, Follows(v), NEW edge
  PROVE  LET w == ShiftRegister(v, edge) IN Keeps1(v, w) /\ Same2(v, w)
<1> DEFINE n == v.bitsShifted + 1
           clock == IF v.acr.shift \in {2, 6} THEN ~v.shiftClock ELSE v.shiftClock
           moved == [v EXCEPT !.bitsShifted = n, !.shiftClock = clock]
           shifts == /\ v.bitsShifted < 8
                     /\ \/ v.acr.shift \in {1, 5} /\ v.t2TimedOutCount > 2 /\ edge
                        \/ v.acr.shift \in {2, 6}
<1>0. v \in ViaRecords
  BY DEF Follows
<1>1. CASE ~shifts
  <2>1. ShiftRegister(v, edge) = v
    BY <1>1, Zenon DEF ShiftRegister
  <2> QED BY <2>1, KeepsItself DEF Same2
<1>2. CASE shifts
  <2>1. n \in 0 .. 8
    BY <1>0, <1>2, SMT DEF ViaRecords
  <2>2. clock \in BOOLEAN
    BY <1>0, Zenon DEF ViaRecords
  <2>3. ShiftRegister(v, edge) = IF moved.bitsShifted = 8 THEN SetInterrupt(moved, "SR") ELSE moved
    BY <1>2, Zenon DEF ShiftRegister
  <2> HIDE DEF n, clock
  <2>4. moved \in ViaRecords
    BY <1>0, <2>1, <2>2, Zenon DEF ViaRecords
  <2>5. /\ moved.irq = v.irq /\ moved.ier = v.ier /\ moved.ifr = v.ifr
        /\ Same1(v, moved) /\ Same2(v, moved)
    BY <1>0, SMT DEF ViaRecords, Same1, Same2
  <2> HIDE DEF moved
  <2>6. Keeps1(v, moved)
    BY <2>4, <2>5, KeepsQuietly, Zenon
  <2>7. CASE moved.bitsShifted = 8
    <3> DEFINE w == SetInterrupt(moved, "SR")
    <3>1. w.ier = moved.ier
      BY <2>4, SMT DEF SetInterrupt, OutputIRQ, ViaRecords
    <3>2. Follows(w) /\ Same1(moved, w) /\ Same2(moved, w)
      BY <2>4, SetInterruptKeeps DEF Flags
    <3> HIDE DEF w
    <3>3. Keeps1(v, w)
      BY <2>6, <3>1, <3>2, Keeps1Twice DEF Keeps1
    <3>4. Same2(v, w)
      BY <2>5, <3>2, Zenon DEF Same2
    <3> QED BY <2>3, <2>7, <3>3, <3>4, Zenon DEF w
  <2>8. CASE moved.bitsShifted # 8
    BY <2>3, <2>5, <2>6, <2>8, Zenon
  <2> QED BY <2>7, <2>8
<1> QED BY <1>1, <1>2

LEMMA ExecuteKeeps ==
  ASSUME NEW v, Follows(v), NEW pb6 \in Inputs
  PROVE  LET w == Execute(v, pb6)
         IN  /\ Follows(w) /\ w.ier = v.ier /\ Ticked1(v, w)
             /\ w.t2CountingDown = v.t2CountingDown /\ w.countPB6Old = v.acr.countPB6
             /\ Told2(v) => Told2(w)
             /\ Told2(v) /\ CountsCycles(v) => Ticked2(v, w)
<1> DEFINE one == Timer1(v)
           two == Timer2(one, pb6)
           w == ShiftRegister(two, v.shiftEdge)
<1>1. Follows(one) /\ Same2(v, one) /\ Ticked1(v, one) /\ one.ier = v.ier
  BY Timer1Keeps
<1> HIDE DEF one
<1>2. /\ Keeps1(one, two) /\ two.t2CountingDown = one.t2CountingDown
      /\ two.countPB6Old = one.acr.countPB6 /\ (Told2(one) => Told2(two))
      /\ Told2(one) /\ CountsCycles(one) => Ticked2(one, two)
  BY <1>1, Timer2Keeps
<1> HIDE DEF two
<1>3. Follows(two)
  BY <1>2, KeepsFollows
<1>4. Keeps1(two, w) /\ Same2(two, w)
  BY <1>3, ShiftRegisterKeeps
<1> HIDE DEF w
<1>5. Keeps1(one, w)
  BY <1>2, <1>4, Keeps1Twice
<1>6. Follows(w) /\ w.ier = v.ier
  BY <1>1, <1>5, Zenon DEF Keeps1
<1>7. Ticked1(v, w)
  BY <1>1, <1>5, Zenon DEF Keeps1, Same1, Ticked1
<1>8. w.t2CountingDown = v.t2CountingDown /\ w.countPB6Old = v.acr.countPB6
  BY <1>1, <1>2, <1>4, Zenon DEF Same2
<1>9. Told2(v) => Told2(w)
  BY <1>1, <1>2, <1>4, Zenon DEF Same2, Told2
<1>10. Told2(v) /\ CountsCycles(v) => Told2(one) /\ CountsCycles(one)
  BY <1>1, Zenon DEF Same2, Told2, CountsCycles, ShiftByTimer2
<1>11. Ticked2(one, two) => Ticked2(v, w)
  BY <1>1, <1>4, Zenon DEF Same2, Ticked2
<1>12. Execute(v, pb6) = w
  BY Zenon DEF Execute, w, two, one
<1> QED BY <1>2, <1>6, <1>7, <1>8, <1>9, <1>10, <1>11, <1>12, Zenon

-----------------------------------------------------------------------------
(* Accesses of the processor *)

\* Field after field, for what is written.
LEMMA LatchKeeps ==
  ASSUME NEW v, Follows(v), NEW w \in Word
  PROVE  Follows([v EXCEPT !.t1l = w])
<1> DEFINE new == [v EXCEPT !.t1l = w]
<1>1. v \in ViaRecords
  BY DEF Follows
<1>2. new \in ViaRecords
  BY <1>1, Zenon DEF ViaRecords
<1>3. new.irq = v.irq /\ new.ier = v.ier /\ new.ifr = v.ifr
  BY <1>1, SMT DEF ViaRecords
<1> QED BY <1>2, <1>3, Quiet, Zenon

\* The latch of timer 1 is written, or timer 1 is silenced: the count goes on.
Adjusted1(v, w) ==
  /\ w.t1c = v.t1c /\ w.t1l \in Word /\ w.t1Ticking = v.t1Ticking /\ w.t1Reload = v.t1Reload
  /\ w.t1TimedOut = v.t1TimedOut
  /\ w.t1FreeRunIRQsOn => v.t1FreeRunIRQsOn
  /\ w.t1Triggered = v.t1Triggered /\ w.acr = v.acr
  /\ "T1" \in w.ifr => "T1" \in v.ifr
Adjusted2(v, w) ==
  /\ w.t2c = v.t2c /\ w.t2CountingDown = v.t2CountingDown
  /\ w.t2Reload = v.t2Reload /\ w.t2TimedOut = v.t2TimedOut
  /\ w.t2Triggered = v.t2Triggered /\ w.countPB6Old = v.countPB6Old /\ w.acr = v.acr
  /\ "T2" \in w.ifr => "T2" \in v.ifr

LEMMA ClearInterruptAdjusts ==
  ASSUME NEW v, Follows(v), NEW flags
  PROVE  LET w == ClearInterrupt(v, flags)
         IN  Follows(w) /\ Adjusted1(v, w) /\ Adjusted2(v, w) /\ w.ier = v.ier
<1> DEFINE w == ClearInterrupt(v, flags)
<1>1. v \in ViaRecords
  BY DEF Follows
<1>2. Follows(w) /\ w.ifr = v.ifr \ flags
  BY ClearInterruptKeeps
<1>3. /\ w.t1c = v.t1c /\ w.t1l = v.t1l /\ w.t1Ticking = v.t1Ticking /\ w.t1Reload = v.t1Reload
      /\ w.t1TimedOut = v.t1TimedOut /\ w.t1FreeRunIRQsOn = v.t1FreeRunIRQsOn
      /\ w.t1Triggered = v.t1Triggered /\ w.acr = v.acr /\ w.ier = v.ier
  BY <1>1, SMT DEF ViaRecords, ClearInterrupt, OutputIRQ
<1>4. /\ w.t2c = v.t2c /\ w.t2CountingDown = v.t2CountingDown
      /\ w.t2Reload = v.t2Reload /\ w.t2TimedOut = v.t2TimedOut
      /\ w.t2Triggered = v.t2Triggered /\ w.countPB6Old = v.countPB6Old
  BY <1>1, SMT DEF ViaRecords, ClearInterrupt, OutputIRQ
<1>5. w.t1l \in Word
  BY <1>1, <1>3 DEF ViaRecords
<1> HIDE DEF w
<1>6. Adjusted1(v, w)
  BY <1>2, <1>3, <1>5, Zenon DEF Adjusted1
<1>7. Adjusted2(v, w)
  BY <1>2, <1>3, <1>4, Zenon DEF Adjusted2
<1> QED BY <1>2, <1>3, <1>6, <1>7, Zenon DEF w

\* What reads and writes of other registers keep.
Adjusts(v, w) == Follows(w) /\ Adjusted1(v, w) /\ Adjusted2(v, w) /\ w.ier = v.ier

LEMMA AdjustsTwice ==
  ASSUME NEW u, NEW v, NEW w, Adjusts(u, v), Adjusts(v, w)
  PROVE  Adjusts(u, w)
BY Zenon DEF Adjusts, Adjusted1, Adjusted2

LEMMA AccessSRAdjusts ==
  ASSUME NEW v, Follows(v) PROVE Adjusts(v, AccessSR(v))
<1> DEFINE n == IF "SR" \in v.ifr THEN 0 ELSE v.bitsShifted
           u == [v EXCEPT !.bitsShifted = n]
<1>1. v \in ViaRecords
  BY DEF Follows
<1>2. n \in 0 .. 8
  BY <1>1, SMT DEF ViaRecords
<1>3. AccessSR(v) = ClearInterrupt(u, {"SR"})
  BY Zenon DEF AccessSR
<1> HIDE DEF n
<1>4. u \in ViaRecords
  BY <1>1, <1>2, Zenon DEF ViaRecords
<1>5. u.irq = v.irq /\ u.ier = v.ier /\ u.ifr = v.ifr
  BY <1>1, SMT DEF ViaRecords
<1>6. Adjusted1(v, u) /\ Adjusted2(v, u)
  BY <1>1, SMT DEF ViaRecords, Adjusted1, Adjusted2
<1> HIDE DEF u
<1>7. Follows(u)
  BY <1>4, <1>5, Quiet, Zenon
<1>8. Adjusts(v, u)
  BY <1>5, <1>6, <1>7, Zenon DEF Adjusts
<1>9. Adjusts(u, AccessSR(v))
  BY <1>3, <1>7, ClearInterruptAdjusts, Zenon DEF Adjusts
<1> QED BY <1>8, <1>9, AdjustsTwice

LEMMA ReadAdjusts ==
  ASSUME NEW v, Follows(v), NEW reg \in {"ORA", "T1CL", "T2CL", "SR"}
  PROVE  Adjusts(v, Read(v, reg))
<1>1. CASE reg = "ORA"
  <2>1. Read(v, reg) = ClearInterrupt(v, {"CA1"})
    BY <1>1, Zenon DEF Read
  <2> QED BY <2>1, ClearInterruptAdjusts DEF Adjusts
<1>2. CASE reg = "T1CL"
  <2>1. Read(v, reg) = ClearInterrupt(v, {"T1"})
    BY <1>2, Zenon DEF Read
  <2> QED BY <2>1, ClearInterruptAdjusts DEF Adjusts
<1>3. CASE reg = "T2CL"
  <2>1. Read(v, reg) = ClearInterrupt(v, {"T2"})
    BY <1>3, Zenon DEF Read
  <2> QED BY <2>1, ClearInterruptAdjusts DEF Adjusts
<1>4. CASE reg = "SR"
  <2>1. Read(v, reg) = AccessSR(v)
    BY <1>4, Zenon DEF Read
  <2> QED BY <2>1, AccessSRAdjusts
<1> QED BY <1>1, <1>2, <1>3, <1>4

LEMMA WriteORAAdjusts ==
  ASSUME NEW v, Follows(v) PROVE Adjusts(v, WriteORA(v))
BY ClearInterruptAdjusts DEF Adjusts, WriteORA

LEMMA WriteSRAdjusts ==
  ASSUME NEW v, Follows(v) PROVE Adjusts(v, WriteSR(v))
<1> DEFINE u == AccessSR(v)
           w == [u EXCEPT !.shiftClock = TRUE, !.shiftEdge = FALSE]
<1>1. Adjusts(v, u)
  BY AccessSRAdjusts
<1>2. WriteSR(v) = w
  BY Zenon DEF WriteSR
<1> HIDE DEF u
<1>3. Follows(u) /\ u \in ViaRecords
  BY <1>1 DEF Adjusts, Follows
<1>4. w \in ViaRecords
  BY <1>3, Zenon DEF ViaRecords
<1>5. w.irq = u.irq /\ w.ier = u.ier /\ w.ifr = u.ifr /\ Adjusted1(u, w) /\ Adjusted2(u, w)
  BY <1>3, SMT DEF ViaRecords, Adjusted1, Adjusted2
<1> HIDE DEF w
<1>6. Follows(w)
  BY <1>3, <1>4, <1>5, Quiet, Zenon
<1>7. Adjusts(u, w)
  BY <1>5, <1>6, Zenon DEF Adjusts
<1> QED BY <1>1, <1>2, <1>7, AdjustsTwice

\* What a write may do that is no load and no change of mode.
Written(v, w) == Follows(w) /\ Adjusted1(v, w) /\ Adjusted2(v, w)

LEMMA AdjustsWritten == ASSUME NEW v, NEW w, Adjusts(v, w) PROVE Written(v, w)
BY Zenon DEF Adjusts, Written

LEMMA WrittenThenCleared ==
  ASSUME NEW v, NEW u, Written(v, u), NEW flags
  PROVE  Written(v, ClearInterrupt(u, flags))
<1> DEFINE w == ClearInterrupt(u, flags)
<1>1. Follows(u)
  BY DEF Written
<1>2. Written(u, w)
  BY <1>1, ClearInterruptAdjusts DEF Written
<1> HIDE DEF w
<1>3. Written(v, w)
  BY <1>2, Zenon DEF Written, Adjusted1, Adjusted2
<1> QED BY <1>3 DEF w

LEMMA WriteT1LLKeeps ==
  ASSUME NEW v, Follows(v), NEW value \in Byte
  PROVE  Written(v, [v EXCEPT !.t1l = Joined(High(@), value)])
<1> DEFINE l == Joined(High(v.t1l), value)
           w == [v EXCEPT !.t1l = l]
<1>1. v \in ViaRecords
  BY DEF Follows
<1>2. l \in Word
  <2>1. v.t1l \in Word
    BY <1>1 DEF ViaRecords
  <2> QED BY <2>1, BytesOfWord, JoinedWord
<1> HIDE DEF l
<1>3. Follows(w)
  BY <1>2, LatchKeeps
<1>4. Adjusted1(v, w) /\ Adjusted2(v, w)
  BY <1>1, <1>2, SMT DEF ViaRecords, Adjusted1, Adjusted2
<1>5. Written(v, w)
  BY <1>3, <1>4, Zenon DEF Written
<1> QED BY <1>5 DEF l

LEMMA WriteT1LHKeeps ==
  ASSUME NEW v, Follows(v), NEW value \in Byte
  PROVE  Written(v, WriteT1LH(v, value))
<1> DEFINE l == Joined(value, Low(v.t1l))
           b == v.t1FreeRunIRQsOn /\ "T1" \in v.ier
           u == [v EXCEPT !.t1l = l, !.t1FreeRunIRQsOn = b]
<1>1. v \in ViaRecords
  BY DEF Follows
<1>2. l \in Word
  <2>1. v.t1l \in Word
    BY <1>1 DEF ViaRecords
  <2> QED BY <2>1, BytesOfWord, JoinedWord
<1>3. b \in BOOLEAN /\ (b => v.t1FreeRunIRQsOn)
  BY Zenon
<1>4. WriteT1LH(v, value) = ClearInterrupt(u, {"T1"})
  BY Zenon DEF WriteT1LH
<1> HIDE DEF l, b
<1>5. u \in ViaRecords
  BY <1>1, <1>2, <1>3, Zenon DEF ViaRecords
<1>6. u.irq = v.irq /\ u.ier = v.ier /\ u.ifr = v.ifr
  BY <1>1, SMT DEF ViaRecords
<1>7. Adjusted2(v, u)
  BY <1>1, SMT DEF ViaRecords, Adjusted2
<1>8. Adjusted1(v, u)
  <2>1. /\ u.t1c = v.t1c /\ u.t1l = l /\ u.t1Ticking = v.t1Ticking /\ u.t1Reload = v.t1Reload
        /\ u.t1TimedOut = v.t1TimedOut /\ u.t1FreeRunIRQsOn = b
        /\ u.t1Triggered = v.t1Triggered /\ u.acr = v.acr /\ u.ifr = v.ifr
    BY <1>1, SMT DEF ViaRecords
  <2> HIDE DEF u
  <2> QED BY <1>2, <1>3, <2>1, Zenon DEF Adjusted1
<1> HIDE DEF u
<1>9. Written(v, u)
  BY <1>5, <1>6, <1>7, <1>8, Quiet, Zenon DEF Written
<1> QED BY <1>4, <1>9, WrittenThenCleared

LEMMA WriteT2LLKeeps ==
  ASSUME NEW v, Follows(v), NEW value \in Byte
  PROVE  Written(v, [v EXCEPT !.t2Latch = value])
<1> DEFINE w == [v EXCEPT !.t2Latch = value]
<1>1. v \in ViaRecords
  BY DEF Follows
<1>2. w \in ViaRecords
  BY <1>1, Zenon DEF ViaRecords
<1>3. w.irq = v.irq /\ w.ier = v.ier /\ w.ifr = v.ifr
  BY <1>1, SMT DEF ViaRecords
<1>4. Adjusted1(v, w) /\ Adjusted2(v, w)
  BY <1>1, SMT DEF ViaRecords, Adjusted1, Adjusted2
<1> HIDE DEF w
<1>5. Written(v, w)
  BY <1>2, <1>3, <1>4, Quiet, Zenon DEF Written
<1> QED BY <1>5 DEF w

LEMMA WriteFCRKeeps ==
  ASSUME NEW v, Follows(v), NEW positive \in BOOLEAN
  PROVE  Written(v, WriteFCR(v, positive))
<1> DEFINE w == [v EXCEPT !.positive = positive]
<1>1. v \in ViaRecords
  BY DEF Follows
<1>2. w \in ViaRecords
  BY <1>1, Zenon DEF ViaRecords
<1>3. w.irq = v.irq /\ w.ier = v.ier /\ w.ifr = v.ifr
  BY <1>1, SMT DEF ViaRecords
<1>4. Adjusted1(v, w) /\ Adjusted2(v, w)
  BY <1>1, SMT DEF ViaRecords, Adjusted1, Adjusted2
<1> HIDE DEF w
<1>5. Written(v, w)
  BY <1>2, <1>3, <1>4, Quiet, Zenon DEF Written
<1> QED BY <1>5 DEF w, WriteFCR

LEMMA WriteIERKeeps ==
  ASSUME NEW v, Follows(v), NEW bits \in SUBSET (Flags \union {Bit7})
  PROVE  Written(v, WriteIER(v, bits))
<1> DEFINE ier == IF Bit7 \in bits THEN v.ier \union (bits \ {Bit7}) ELSE v.ier \ bits
           u == [v EXCEPT !.ier = ier]
           w == OutputIRQ(u)
<1>1. v \in ViaRecords
  BY DEF Follows
<1>2. ier \in SUBSET Flags
  BY <1>1 DEF ViaRecords
<1>3. WriteIER(v, bits) = w
  BY Zenon DEF WriteIER
<1> HIDE DEF ier
<1>4. u \in ViaRecords
  BY <1>1, <1>2, Zenon DEF ViaRecords
<1>5. w \in ViaRecords /\ (w.irq <=> w.ier \intersect w.ifr # {})
  BY <1>4, Zenon DEF ViaRecords, OutputIRQ
<1>6. Adjusted1(v, w) /\ Adjusted2(v, w)
  BY <1>1, SMT DEF ViaRecords, OutputIRQ, Adjusted1, Adjusted2
<1> HIDE DEF w
<1> QED BY <1>3, <1>5, <1>6, Zenon DEF Written, Follows

LEMMA WriteIFRKeeps ==
  ASSUME NEW v, Follows(v), NEW bits
  PROVE  Written(v, WriteIFR(v, bits))
<1>0. v \in ViaRecords
  BY DEF Follows
<1>1. CASE v.irq /\ Bit7 \in bits
  <2> DEFINE plain == [v EXCEPT !.irq = @ /\ Bit7 \notin bits]
             S == v.ifr \ bits
             u == [plain EXCEPT !.ifr = S]
             w == OutputIRQ(u)
  <2>1. WriteIFR(v, bits) = OutputIRQ([plain EXCEPT !.ifr = @ \ bits])
    BY <1>1, Zenon DEF WriteIFR
  <2>2. plain \in ViaRecords /\ plain.ifr = v.ifr
    <3> DEFINE irq == v.irq /\ Bit7 \notin bits
    <3>1. irq \in BOOLEAN
      BY Zenon
    <3>2. plain = [v EXCEPT !.irq = irq]
      BY Zenon
    <3> HIDE DEF irq, plain
    <3>3. plain \in ViaRecords
      BY <1>0, <3>1, <3>2, Zenon DEF ViaRecords
    <3>4. plain.ifr = v.ifr
      BY <1>0, <3>2, SMT DEF ViaRecords
    <3> QED BY <3>3, <3>4
  <2>3. Adjusted1(v, plain) /\ Adjusted2(v, plain)
    BY <1>0, SMT DEF ViaRecords, Adjusted1, Adjusted2
  <2> HIDE DEF plain
  <2>4. S \in SUBSET Flags
    BY <1>0 DEF ViaRecords
  <2>5. WriteIFR(v, bits) = w
    BY <2>1, <2>2, Zenon
  <2>6. Follows(w) /\ w.ifr = S
    BY <2>2, <2>4, SetFlags
  <2>7. /\ w.t1c = plain.t1c /\ w.t1l = plain.t1l /\ w.t1Ticking = plain.t1Ticking
        /\ w.t1Reload = plain.t1Reload /\ w.t1TimedOut = plain.t1TimedOut
        /\ w.t1FreeRunIRQsOn = plain.t1FreeRunIRQsOn
        /\ w.t1Triggered = plain.t1Triggered /\ w.acr = plain.acr
        /\ w.t2c = plain.t2c /\ w.t2CountingDown = plain.t2CountingDown
        /\ w.t2Reload = plain.t2Reload /\ w.t2TimedOut = plain.t2TimedOut
        /\ w.t2Triggered = plain.t2Triggered /\ w.countPB6Old = plain.countPB6Old
    BY <2>2, SMT DEF ViaRecords, OutputIRQ
  <2> HIDE DEF w
  <2>8. Adjusted1(v, w)
    BY <2>3, <2>6, <2>7, Zenon DEF Adjusted1
  <2>9. Adjusted2(v, w)
    BY <2>3, <2>6, <2>7, Zenon DEF Adjusted2
  <2> QED BY <2>5, <2>6, <2>8, <2>9, Zenon DEF Written
<1>2. CASE ~(v.irq /\ Bit7 \in bits)
  <2>1. WriteIFR(v, bits) = ClearInterrupt(v, bits)
    BY <1>2, Zenon DEF WriteIFR
  <2> QED BY <2>1, ClearInterruptAdjusts DEF Written
<1> QED BY <1>1, <1>2

\* A timer is loaded.
Loaded1(v, w) ==
  /\ w.t1c \in Word /\ w.t1l = w.t1c /\ w.t1Ticking /\ w.t1Reload
  /\ w.t1FreeRunIRQsOn /\ w.acr = v.acr
  /\ ~w.acr.freeRun => ~w.t1Triggered
  /\ "T1" \notin w.ifr
Loaded2(v, w) ==
  /\ w.t2c \in Word /\ w.t2CountingDown /\ w.t2Reload /\ ~w.t2Triggered /\ ~w.t2TimedOut
  /\ w.acr = v.acr /\ w.countPB6Old = v.countPB6Old
  /\ "T2" \notin w.ifr

LEMMA WriteT1CHLoads ==
  ASSUME NEW v, Follows(v), NEW value \in Byte
  PROVE  LET w == WriteT1CH(v, value) IN Follows(w) /\ Loaded1(v, w) /\ Adjusted2(v, w)
<1> DEFINE l == Joined(value, Low(v.t1l))
           zero == l = 0
           again == v.t1Triggered /\ v.acr.freeRun
           u == [v EXCEPT !.t1l = l, !.t1c = l, !.t1Ticking = TRUE, !.t1Reload = TRUE,
                          !.t1FreeRunIRQsOn = TRUE, !.t1TimedOut = zero,
                          !.t1Triggered = again]
           w == ClearInterrupt(u, {"T1"})
<1>1. v \in ViaRecords
  BY DEF Follows
<1>2. l \in Word
  <2>1. v.t1l \in Word
    BY <1>1 DEF ViaRecords
  <2> QED BY <2>1, BytesOfWord, JoinedWord
<1>3. zero \in BOOLEAN /\ again \in BOOLEAN
  BY Zenon
<1>4. WriteT1CH(v, value) = w
  BY Zenon DEF WriteT1CH
<1>5. ~v.acr.freeRun => ~again
  OBVIOUS
<1> HIDE DEF l, zero, again
<1>6. u \in ViaRecords
  BY <1>1, <1>2, <1>3, Zenon DEF ViaRecords
<1>7. u.irq = v.irq /\ u.ier = v.ier /\ u.ifr = v.ifr
  BY <1>1, SMT DEF ViaRecords
<1>8. Adjusted2(v, u)
  BY <1>1, SMT DEF ViaRecords, Adjusted2
<1>9. /\ u.t1c = l /\ u.t1l = l /\ u.t1Ticking = TRUE /\ u.t1Reload = TRUE
      /\ u.t1FreeRunIRQsOn = TRUE /\ u.t1Triggered = again /\ u.acr = v.acr
  BY <1>1, SMT DEF ViaRecords
<1> HIDE DEF u
<1>10. Follows(u)
  BY <1>1, <1>6, <1>7, Quiet, Zenon
<1>11. Follows(w) /\ w.ifr = u.ifr \ {"T1"} /\ Adjusted2(u, w)
  BY <1>10, ClearInterruptKeeps, ClearInterruptAdjusts
<1>12. /\ w.t1c = u.t1c /\ w.t1l = u.t1l /\ w.t1Ticking = u.t1Ticking
       /\ w.t1Reload = u.t1Reload /\ w.t1FreeRunIRQsOn = u.t1FreeRunIRQsOn
       /\ w.t1Triggered = u.t1Triggered /\ w.acr = u.acr
  BY <1>6, SMT DEF ViaRecords, ClearInterrupt, OutputIRQ
<1> HIDE DEF w
<1>13. Adjusted2(v, w)
  BY <1>8, <1>11, Zenon DEF Adjusted2
<1>14. Loaded1(v, w)
  <2>1. "T1" \notin w.ifr
    BY <1>11
  <2> QED BY <1>2, <1>5, <1>9, <1>12, <2>1, Zenon DEF Loaded1
<1> QED BY <1>4, <1>11, <1>13, <1>14, Zenon

LEMMA WriteT2CHLoads ==
  ASSUME NEW v, Follows(v), NEW value \in Byte
  PROVE  LET w == WriteT2CH(v, value) IN Follows(w) /\ Loaded2(v, w) /\ Adjusted1(v, w)
<1> DEFINE c == Joined(value, v.t2Latch)
           u == [v EXCEPT !.t2c = c, !.t2Reload = TRUE, !.t2TimedOutCount = 0,
                          !.t2TimedOut = FALSE, !.t2CountingDown = TRUE, !.t2Triggered = FALSE]
           w == ClearInterrupt(u, {"T2"})
<1>1. v \in ViaRecords
  BY DEF Follows
<1>2. c \in Word
  <2>1. v.t2Latch \in Byte
    BY <1>1 DEF ViaRecords
  <2> QED BY <2>1, JoinedWord
<1>3. 0 \in 0 .. 3
  OBVIOUS
<1>4. WriteT2CH(v, value) = w
  BY Zenon DEF WriteT2CH
<1> HIDE DEF c
<1>6. u \in ViaRecords
  BY <1>1, <1>2, <1>3, Zenon DEF ViaRecords
<1>7. u.irq = v.irq /\ u.ier = v.ier /\ u.ifr = v.ifr
  BY <1>1, SMT DEF ViaRecords
<1>8. Adjusted1(v, u)
  BY <1>1, SMT DEF ViaRecords, Adjusted1
<1>9. /\ u.t2c = c /\ u.t2CountingDown = TRUE /\ u.t2Reload = TRUE /\ u.t2Triggered = FALSE
      /\ u.t2TimedOut = FALSE /\ u.acr = v.acr /\ u.countPB6Old = v.countPB6Old
  BY <1>1, SMT DEF ViaRecords
<1> HIDE DEF u
<1>10. Follows(u)
  BY <1>1, <1>6, <1>7, Quiet, Zenon
<1>11. Follows(w) /\ w.ifr = u.ifr \ {"T2"} /\ Adjusted1(u, w)
  BY <1>10, ClearInterruptKeeps, ClearInterruptAdjusts
<1>12. /\ w.t2c = u.t2c /\ w.t2CountingDown = u.t2CountingDown /\ w.t2Reload = u.t2Reload
       /\ w.t2Triggered = u.t2Triggered /\ w.t2TimedOut = u.t2TimedOut
       /\ w.acr = u.acr /\ w.countPB6Old = u.countPB6Old
  BY <1>6, SMT DEF ViaRecords, ClearInterrupt, OutputIRQ
<1> HIDE DEF w
<1>13. Adjusted1(v, w)
  BY <1>8, <1>11, Zenon DEF Adjusted1
<1>14. Loaded2(v, w)
  <2>1. "T2" \notin w.ifr
    BY <1>11
  <2> QED BY <1>2, <1>9, <1>12, <2>1, Zenon DEF Loaded2
<1> QED BY <1>4, <1>11, <1>13, <1>14, Zenon

LEMMA WriteTimerKeeps ==
  ASSUME NEW v, Follows(v), NEW value \in Byte,
         NEW reg \in {"T1LL", "T1CH", "T1LH", "T2LL", "T2CH"}
  PROVE  LET w == WriteTimer(v, reg, value)
         IN  /\ Follows(w)
             /\ \/ Adjusted1(v, w) /\ Adjusted2(v, w)
                \/ Loaded1(v, w) /\ Adjusted2(v, w)
                \/ Adjusted1(v, w) /\ Loaded2(v, w)
<1>1. CASE reg = "T1LL"
  <2>1. WriteTimer(v, reg, value) = [v EXCEPT !.t1l = Joined(High(@), value)]
    BY <1>1, Zenon DEF WriteTimer
  <2> QED BY <2>1, WriteT1LLKeeps DEF Written
<1>2. CASE reg = "T1CH"
  <2>1. WriteTimer(v, reg, value) = WriteT1CH(v, value)
    BY <1>2, Zenon DEF WriteTimer
  <2> QED BY <2>1, WriteT1CHLoads
<1>3. CASE reg = "T1LH"
  <2>1. WriteTimer(v, reg, value) = WriteT1LH(v, value)
    BY <1>3, Zenon DEF WriteTimer
  <2> QED BY <2>1, WriteT1LHKeeps DEF Written
<1>4. CASE reg = "T2LL"
  <2>1. WriteTimer(v, reg, value) = [v EXCEPT !.t2Latch = value]
    BY <1>4, Zenon DEF WriteTimer
  <2> QED BY <2>1, WriteT2LLKeeps DEF Written
<1>5. CASE reg = "T2CH"
  <2>1. WriteTimer(v, reg, value) = WriteT2CH(v, value)
    BY <1>5, Zenon DEF WriteTimer
  <2> QED BY <2>1, WriteT2CHLoads
<1> QED BY <1>1, <1>2, <1>3, <1>4, <1>5

\* A mode is switched.
Switched(v, w) ==
  /\ w.t1c = v.t1c /\ w.t1l = v.t1l /\ w.t1Ticking = v.t1Ticking /\ w.t1Reload = v.t1Reload
  /\ w.t1TimedOut = v.t1TimedOut /\ w.t1FreeRunIRQsOn = v.t1FreeRunIRQsOn
  /\ w.t1Triggered = v.t1Triggered
  /\ w.t2c = v.t2c /\ w.t2CountingDown = v.t2CountingDown
  /\ w.t2Reload = v.t2Reload /\ w.t2TimedOut = v.t2TimedOut
  /\ w.t2Triggered = v.t2Triggered /\ w.countPB6Old = v.countPB6Old
  /\ w.ifr = v.ifr

LEMMA WriteACRSwitches ==
  ASSUME NEW v, Follows(v), NEW mode \in Modes
  PROVE  LET w == WriteACR(v, mode) IN Follows(w) /\ Switched(v, w) /\ w.acr = mode
<1> DEFINE w == [v EXCEPT !.acr = mode]
<1>1. v \in ViaRecords
  BY DEF Follows
<1>2. w \in ViaRecords
  BY <1>1, Zenon DEF ViaRecords
<1>3. w.irq = v.irq /\ w.ier = v.ier /\ w.ifr = v.ifr /\ w.acr = mode
  BY <1>1, SMT DEF ViaRecords
<1>4. Switched(v, w)
  BY <1>1, SMT DEF ViaRecords, Switched
<1>5. WriteACR(v, mode) = w
  BY Zenon DEF WriteACR
<1> HIDE DEF w
<1> QED BY <1>2, <1>3, <1>4, <1>5, Quiet, Zenon

-----------------------------------------------------------------------------
(* The bus *)

\* What the fields make of port B, once it is set up, and of ATN.
PortKept(b) ==
  /\ b.VIA_Atna <=> "ATNAOUT" \in b.stateOut /\ "ATNAOUT" \in b.direction
  /\ b.DataSetToOut <=> ("DATAOUT" \in b.direction => "DATAOUT" \in b.stateOut)
  /\ b.ClockSetToOut <=> ("CLOCKOUT" \in b.direction => "CLOCKOUT" \in b.stateOut)
  /\ b.AtnaDataSetToOut <=> /\ Gate(b.VIA_Atna, b.PI_Atn)
                            /\ b.written \/ "ATNAOUT" \in b.direction
BusKept(b) ==
  /\ b \in BusRecords /\ "ATN" \notin b.outs
  /\ b.direction # {} => PortKept(b)
\* The lines are those the fields tell of, the moment they are refreshed.
Refreshed(b) ==
  /\ "DATA" \in b.outs <=> b.AtnaDataSetToOut \/ b.DataSetToOut
  /\ "CLOCK" \in b.outs <=> b.ClockSetToOut

LEMMA PortWriteKeeps ==
  ASSUME NEW b \in BusRecords, "ATN" \notin b.outs
  PROVE  LET w == PortB_OnPortOut(b) IN BusKept(w) /\ w.afterStep = b.afterStep
<1> DEFINE w == PortB_OnPortOut(b)
           atna == "ATNAOUT" \in b.stateOut /\ "ATNAOUT" \in b.direction
           gate == Gate(atna, b.PI_Atn)
           data == "DATAOUT" \in b.direction => "DATAOUT" \in b.stateOut
           clock == "CLOCKOUT" \in b.direction => "CLOCKOUT" \in b.stateOut
           u == [b EXCEPT !.VIA_Atna = atna, !.AtnaDataSetToOut = gate,
                          !.DataSetToOut = data, !.ClockSetToOut = clock, !.written = TRUE]
<1>1. atna \in BOOLEAN /\ gate \in BOOLEAN /\ data \in BOOLEAN /\ clock \in BOOLEAN
  BY Zenon DEF Gate
<1>2. w = u
  <2> DEFINE status == b.stateOut \intersect b.direction
  <2>1. ("ATNAOUT" \in status) = atna
    OBVIOUS
  <2>2. ("DATAOUT" \in status \/ "DATAOUT" \notin b.direction) = data
    BY Zenon
  <2>3. ("CLOCKOUT" \in status \/ "CLOCKOUT" \notin b.direction) = clock
    BY Zenon
  <2>4. w = [b EXCEPT !.VIA_Atna = "ATNAOUT" \in status,
                !.AtnaDataSetToOut = Gate("ATNAOUT" \in status, b.PI_Atn),
                !.DataSetToOut = "DATAOUT" \in status \/ "DATAOUT" \notin b.direction,
                !.ClockSetToOut = "CLOCKOUT" \in status \/ "CLOCKOUT" \notin b.direction,
                !.written = TRUE]
    BY Zenon DEF PortB_OnPortOut
  <2> HIDE DEF status, w, atna, data, clock
  <2> QED BY <2>1, <2>2, <2>3, <2>4, Zenon DEF gate, u
<1> HIDE DEF atna, gate, data, clock, w
<1>3. u \in BusRecords
  BY <1>1, Zenon DEF BusRecords
<1>4. /\ u.VIA_Atna = atna /\ u.AtnaDataSetToOut = gate /\ u.DataSetToOut = data
      /\ u.ClockSetToOut = clock /\ u.written = TRUE /\ u.PI_Atn = b.PI_Atn
      /\ u.stateOut = b.stateOut /\ u.direction = b.direction /\ u.outs = b.outs
      /\ u.afterStep = b.afterStep
  BY SMT DEF BusRecords
<1> HIDE DEF u
<1>5. PortKept(u)
  BY <1>4, Zenon DEF PortKept, atna, gate, data, clock
<1> QED BY <1>2, <1>3, <1>4, <1>5, Zenon DEF BusKept, w

LEMMA RefreshKeeps ==
  ASSUME NEW b, BusKept(b)
  PROVE  LET w == RefreshOuts(b)
         IN  /\ BusKept(w) /\ Refreshed(w) /\ w.afterStep = b.afterStep
             /\ w.PI_Atn = b.PI_Atn /\ w.stateIn = b.stateIn /\ w.others = b.others
             /\ w.sampled = b.sampled /\ w.direction = b.direction /\ w.stateOut = b.stateOut
             /\ w.DataSetToOut = b.DataSetToOut /\ w.ClockSetToOut = b.ClockSetToOut
             /\ w.AtnaDataSetToOut = b.AtnaDataSetToOut /\ w.written = b.written
<1> DEFINE outs == {line \in {"DATA", "CLOCK"} :
                        \/ line = "DATA" /\ (b.AtnaDataSetToOut \/ b.DataSetToOut)
                        \/ line = "CLOCK" /\ b.ClockSetToOut}
           w == [b EXCEPT !.outs = outs]
<1>0. b \in BusRecords
  BY DEF BusKept
<1>1. outs \in SUBSET Lines /\ "ATN" \notin outs
  BY DEF Lines
<1>2. /\ "DATA" \in outs <=> b.AtnaDataSetToOut \/ b.DataSetToOut
      /\ "CLOCK" \in outs <=> b.ClockSetToOut
  OBVIOUS
<1>3. RefreshOuts(b) = w
  BY Zenon DEF RefreshOuts
<1> HIDE DEF outs
<1>4. w \in BusRecords
  BY <1>0, <1>1, Zenon DEF BusRecords
<1>5. /\ w.VIA_Atna = b.VIA_Atna /\ w.AtnaDataSetToOut = b.AtnaDataSetToOut
      /\ w.DataSetToOut = b.DataSetToOut
      /\ w.ClockSetToOut = b.ClockSetToOut /\ w.written = b.written /\ w.PI_Atn = b.PI_Atn
      /\ w.stateOut = b.stateOut /\ w.direction = b.direction /\ w.outs = outs
      /\ w.afterStep = b.afterStep /\ w.stateIn = b.stateIn /\ w.others = b.others
      /\ w.sampled = b.sampled
  BY <1>0, SMT DEF BusRecords
<1> HIDE DEF w
<1>6. BusKept(w)
  BY <1>1, <1>4, <1>5, Zenon DEF BusKept, PortKept
<1> QED BY <1>2, <1>3, <1>5, <1>6, Zenon DEF Refreshed

\* As port B shows the lines, of those it is told.
Shown(b) ==
  /\ "ATNIN" \in b.stateIn <=> "ATN" \in b.others
  /\ "CLOCKIN" \in b.stateIn <=> "CLOCK" \in b.sampled \/ b.ClockSetToOut
  /\ "DATAIN" \in b.stateIn <=>
       "DATA" \in b.sampled \/ b.DataSetToOut \/ b.AtnaDataSetToOut
  /\ ~b.written

LEMMA ReadKeeps ==
  ASSUME NEW b, BusKept(b)
  PROVE  LET w == ReadEmulationMode(b)
         IN  BusKept(w) /\ Shown(w) /\ w.afterStep = b.afterStep
<1> DEFINE atn   == Pulled(b, "ATN")
           atna  == GateRead(b, atn)
           data  == atna \/ b.DataSetToOut \/ Pulled(b, "DATA")
           clock == b.ClockSetToOut \/ Pulled(b, "CLOCK")
           In(pin) == CASE pin = "ATNIN"   -> atn
                        [] pin = "DATAIN"  -> data
                        [] pin = "CLOCKIN" -> clock
           in == {pin \in InPins : In(pin)}
           low == b.others \union b.outs
           w == [b EXCEPT !.PI_Atn = atn, !.AtnaDataSetToOut = atna, !.stateIn = in,
                          !.sampled = low, !.written = FALSE]
<1>0. b \in BusRecords /\ "ATN" \notin b.outs
  BY DEF BusKept
<1>1. ReadEmulationMode(b) = w
  BY Zenon DEF ReadEmulationMode
<1>2. /\ "ATNIN" \in in <=> atn
      /\ "DATAIN" \in in <=> data
      /\ "CLOCKIN" \in in <=> clock
  <2> HIDE DEF atn, data, clock
  <2> QED BY Zenon DEF InPins
<1>3. in \in SUBSET InPins
  BY Zenon
<1>4. atn \in BOOLEAN /\ atna \in BOOLEAN
  <2>1. atn \in BOOLEAN
    BY DEF Pulled
  <2>2. atna \in BOOLEAN
    BY Zenon DEF GateRead
  <2> QED BY <2>1, <2>2
<1>5. low \in SUBSET Lines
  BY <1>0 DEF BusRecords
<1>6. /\ atn <=> "ATN" \in b.others
      /\ data <=> atna \/ b.DataSetToOut \/ "DATA" \in low
      /\ clock <=> b.ClockSetToOut \/ "CLOCK" \in low
  BY <1>0, Zenon DEF Pulled
<1>7. atna <=> /\ "ATNAOUT" \in b.direction
               /\ IF b.PI_Atn # atn THEN Gate(b.VIA_Atna, atn) ELSE b.AtnaDataSetToOut
  BY Zenon DEF GateRead
<1> HIDE DEF atn, atna, data, clock, in, low
<1>8. w \in BusRecords
  BY <1>0, <1>3, <1>4, <1>5, Zenon DEF BusRecords
<1>9. /\ w.VIA_Atna = b.VIA_Atna /\ w.AtnaDataSetToOut = atna
      /\ w.DataSetToOut = b.DataSetToOut
      /\ w.ClockSetToOut = b.ClockSetToOut /\ w.written = FALSE /\ w.PI_Atn = atn
      /\ w.stateOut = b.stateOut /\ w.direction = b.direction /\ w.outs = b.outs
      /\ w.afterStep = b.afterStep /\ w.stateIn = in /\ w.others = b.others
      /\ w.sampled = low
  BY <1>0, SMT DEF BusRecords
<1> HIDE DEF w
<1>10. Shown(w)
  BY <1>2, <1>6, <1>9, Zenon DEF Shown
<1>11. ASSUME w.direction # {} PROVE PortKept(w)
  <2>1. PortKept(b)
    BY <1>9, <1>11 DEF BusKept
  <2>2. atna <=> Gate(b.VIA_Atna, atn) /\ "ATNAOUT" \in b.direction
    <3>1. CASE b.PI_Atn # atn
      BY <1>7, <3>1, Zenon
    <3>2. CASE b.PI_Atn = atn
      BY <1>7, <2>1, <3>2, Zenon DEF PortKept
    <3> QED BY <3>1, <3>2
  <2> QED BY <1>9, <2>1, <2>2, Zenon DEF PortKept
<1>12. BusKept(w)
  BY <1>0, <1>8, <1>9, <1>11, Zenon DEF BusKept
<1> QED BY <1>1, <1>9, <1>10, <1>12, Zenon

LEMMA FollowsPort ==
  ASSUME NEW b, BusKept(b), b.direction # {}
  PROVE  /\ Refreshed(b) => OutsFollowPort(b)
         /\ Shown(b) => PortShowsLines(b)
<1>1. PortKept(b) /\ b \in BusRecords
  BY DEF BusKept
<1>2. /\ b.DataSetToOut \in BOOLEAN /\ b.ClockSetToOut \in BOOLEAN /\ b.PI_Atn \in BOOLEAN
      /\ b.AtnaDataSetToOut \in BOOLEAN /\ b.VIA_Atna \in BOOLEAN /\ b.written \in BOOLEAN
  BY <1>1, Zenon DEF BusRecords
<1>3. PullsClock(b) <=> b.ClockSetToOut
  BY <1>1, Zenon DEF PortKept, PullsClock
<1>4. CASE "ATNAOUT" \in b.direction
  <2>1. b.VIA_Atna = ("ATNAOUT" \in b.stateOut)
    BY <1>1, <1>2, <1>4 DEF PortKept
  <2>2. PullsData(b) <=> b.DataSetToOut \/ b.AtnaDataSetToOut
    BY <1>1, <1>4, <2>1, Zenon DEF PortKept, PullsData
  <2> QED BY <1>3, <2>2, Zenon DEF Refreshed, OutsFollowPort, Shown, PortShowsLines
<1>5. CASE "ATNAOUT" \notin b.direction
  <2>1. b.VIA_Atna = FALSE
    BY <1>1, <1>2, <1>5, Zenon DEF PortKept
  <2>2. Gate(b.VIA_Atna, b.PI_Atn) <=> b.PI_Atn
    BY <1>2, <2>1, Zenon DEF Gate
  <2>3. PullsData(b) <=> b.DataSetToOut
    BY <1>1, <1>5, Zenon DEF PortKept, PullsData
  <2>4. b.AtnaDataSetToOut <=> b.PI_Atn /\ b.written
    BY <1>1, <1>5, <2>2, Zenon DEF PortKept
  <2> QED BY <1>3, <1>5, <2>3, <2>4, Zenon DEF Refreshed, OutsFollowPort, Shown, PortShowsLines
<1> QED BY <1>4, <1>5

LEMMA AfterStepKeeps ==
  ASSUME NEW b, BusKept(b)
  PROVE  LET w == AfterStep(b)
         IN  BusKept(w) /\ w.afterStep = b.afterStep /\ (w.afterStep => Refreshed(w))
<1>1. CASE b.afterStep
  BY <1>1, RefreshKeeps DEF AfterStep
<1>2. CASE ~b.afterStep
  BY <1>2 DEF AfterStep
<1> QED BY <1>1, <1>2

LEMMA NextCycleKeeps ==
  ASSUME NEW b, BusKept(b), NEW others \in SUBSET Lines
  PROVE  LET w == NextCycle(b, others)
         IN  BusKept(w) /\ Shown(w) /\ (~w.afterStep => Refreshed(w))
<1> DEFINE u == [b EXCEPT !.others = others]
           read == ReadEmulationMode(u)
<1>0. b \in BusRecords
  BY DEF BusKept
<1>1. u \in BusRecords
  BY <1>0, Zenon DEF BusRecords
<1>2. /\ u.VIA_Atna = b.VIA_Atna /\ u.AtnaDataSetToOut = b.AtnaDataSetToOut
      /\ u.DataSetToOut = b.DataSetToOut
      /\ u.ClockSetToOut = b.ClockSetToOut /\ u.written = b.written /\ u.PI_Atn = b.PI_Atn
      /\ u.stateOut = b.stateOut /\ u.direction = b.direction /\ u.outs = b.outs
      /\ u.afterStep = b.afterStep
  BY <1>0, SMT DEF BusRecords
<1> HIDE DEF u
<1>3. BusKept(u)
  BY <1>1, <1>2, Zenon DEF BusKept, PortKept
<1>4. BusKept(read) /\ Shown(read) /\ read.afterStep = u.afterStep
  BY <1>3, ReadKeeps
<1>5. NextCycle(b, others) = IF b.afterStep THEN read ELSE RefreshOuts(read)
  BY Zenon DEF NextCycle, u
<1> HIDE DEF read
<1>6. CASE b.afterStep
  BY <1>2, <1>4, <1>5, <1>6, Zenon
<1>7. CASE ~b.afterStep
  <2> DEFINE w == RefreshOuts(read)
  <2>1. /\ BusKept(w) /\ Refreshed(w)
        /\ w.stateIn = read.stateIn /\ w.others = read.others /\ w.sampled = read.sampled
        /\ w.DataSetToOut = read.DataSetToOut /\ w.ClockSetToOut = read.ClockSetToOut
        /\ w.AtnaDataSetToOut = read.AtnaDataSetToOut /\ w.written = read.written
    BY <1>4, RefreshKeeps
  <2> HIDE DEF w
  <2>2. Shown(w)
    BY <1>4, <2>1, Zenon DEF Shown
  <2> QED BY <1>5, <1>7, <2>1, <2>2, Zenon DEF w
<1> QED BY <1>6, <1>7

LEMMA SetPortKeeps ==
  ASSUME NEW b, BusKept(b), NEW pins \in SUBSET OutPins
  PROVE  /\ BusKept(SetOutput(b, pins)) /\ SetOutput(b, pins).afterStep = b.afterStep
         /\ BusKept(SetDirection(b, pins)) /\ SetDirection(b, pins).afterStep = b.afterStep
<1>0. b \in BusRecords /\ "ATN" \notin b.outs
  BY DEF BusKept
<1>1. BusKept(SetOutput(b, pins)) /\ SetOutput(b, pins).afterStep = b.afterStep
  <2> DEFINE u == [b EXCEPT !.stateOut = pins]
  <2>1. u \in BusRecords
    BY <1>0, Zenon DEF BusRecords
  <2>2. u.outs = b.outs /\ u.afterStep = b.afterStep
    BY <1>0, SMT DEF BusRecords
  <2> HIDE DEF u
  <2>3. BusKept(PortB_OnPortOut(u)) /\ PortB_OnPortOut(u).afterStep = u.afterStep
    BY <1>0, <2>1, <2>2, PortWriteKeeps
  <2> QED BY <2>2, <2>3, Zenon DEF SetOutput, u
<1>2. BusKept(SetDirection(b, pins)) /\ SetDirection(b, pins).afterStep = b.afterStep
  <2> DEFINE u == [b EXCEPT !.direction = pins]
  <2>1. u \in BusRecords
    BY <1>0, Zenon DEF BusRecords
  <2>2. u.outs = b.outs /\ u.afterStep = b.afterStep
    BY <1>0, SMT DEF BusRecords
  <2> HIDE DEF u
  <2>3. BusKept(PortB_OnPortOut(u)) /\ PortB_OnPortOut(u).afterStep = u.afterStep
    BY <1>0, <2>1, <2>2, PortWriteKeeps
  <2> QED BY <2>2, <2>3, Zenon DEF SetDirection, u
<1> QED BY <1>1, <1>2

-----------------------------------------------------------------------------
(* Steps of the board *)

\* The inductive invariant.  VIA 1's IER is never written.
ChipsInv == /\ VIA \in [Vias -> ViaRecords]
            /\ \A i \in Vias : Follows(VIA[i])
            /\ VIA[1].ier = {}
BusInv == /\ BusKept(bus)
          /\ turn = "cpu" => Shown(bus)
          /\ turn = (IF bus.afterStep THEN "update" ELSE "cpu") => Refreshed(bus)
TurnInv == turn \in {"cpu", "update"}
BoardInv == ChipsInv /\ BusInv /\ TurnInv

AssertedInv == asserted = VIA[0].irq
PlainFlagWrites == \A bits \in FlagWrites : Bit7 \notin bits

\* What a step does to the timers of VIA 0.
Effect(v, w) ==
  \/ w = v
  \/ Adjusted1(v, w) /\ Adjusted2(v, w)
  \/ Loaded1(v, w) /\ Adjusted2(v, w)
  \/ Adjusted1(v, w) /\ Loaded2(v, w)
  \/ Switched(v, w)
CycleEffect(v, w) ==
  /\ Ticked1(v, w)
  /\ w.t2CountingDown = v.t2CountingDown /\ w.countPB6Old = v.acr.countPB6
  /\ Told2(v) => Told2(w)
  /\ Told2(v) /\ CountsCycles(v) => Ticked2(v, w)

StepDone ==
  /\ ChipsInv' /\ BusInv' /\ TurnInv'
  /\ PlainFlagWrites /\ AssertedInv => AssertedInv'
  /\ \/ turn = "cpu" /\ turn' = "update" /\ Effect(VIA[0], VIA'[0])
     \/ VIA' = VIA /\ turn' = turn
     \/ turn = "update" /\ turn' = "cpu" /\ CycleEffect(VIA[0], VIA'[0])

LEMMA LineFollows ==
  ASSUME NEW old, NEW new
  PROVE  Line(old.irq, old, new) = new.irq
BY Zenon DEF Line

LEMMA IrqOfOther ==
  ASSUME ChipsInv PROVE ~VIA[1].irq
BY DEF ChipsInv, Follows, Vias

\* The processor writes or reads a register of VIA 0.
LEMMA ChangedFirst ==
  ASSUME ChipsInv, NEW new, Follows(new), VIA' = [VIA EXCEPT ![0] = new]
  PROVE  ChipsInv' /\ VIA'[0] = new
<1>1. new \in ViaRecords /\ VIA \in [Vias -> ViaRecords] /\ 0 \in Vias /\ 1 \in Vias
  BY DEF Follows, ChipsInv, Vias
<1>2. VIA' \in [Vias -> ViaRecords]
  BY <1>1
<1>3. VIA'[0] = new /\ VIA'[1] = VIA[1]
  BY <1>1
<1>4. \A i \in Vias : Follows(VIA'[i])
  BY <1>3 DEF Vias, ChipsInv
<1> QED BY <1>2, <1>3, <1>4 DEF ChipsInv

LEMMA ChangedSecond ==
  ASSUME ChipsInv, NEW new, Follows(new), new.ier = {}, VIA' = [VIA EXCEPT ![1] = new]
  PROVE  ChipsInv' /\ VIA'[0] = VIA[0]
<1>1. new \in ViaRecords /\ VIA \in [Vias -> ViaRecords] /\ 0 \in Vias /\ 1 \in Vias
  BY DEF Follows, ChipsInv, Vias
<1>2. VIA' \in [Vias -> ViaRecords]
  BY <1>1
<1>3. VIA'[1] = new /\ VIA'[0] = VIA[0]
  BY <1>1
<1>4. \A i \in Vias : Follows(VIA'[i])
  BY <1>3 DEF Vias, ChipsInv
<1> QED BY <1>2, <1>3, <1>4 DEF ChipsInv

LEMMA OutKeeps ==
  ASSUME BusInv, Out, turn' = "update"
  PROVE  BusInv'
<1>1. BusKept(bus)
  BY DEF BusInv
<1>2. BusKept(bus') /\ (bus'.afterStep => Refreshed(bus'))
  BY <1>1, AfterStepKeeps DEF Out
<1> QED BY <1>2, Zenon DEF BusInv

LEMMA AccessDone ==
  ASSUME BoardInv, NEW new, Access(0, new), Follows(new), Effect(VIA[0], new)
  PROVE  StepDone
<1>1. /\ turn = "cpu" /\ turn' = "update" /\ Out
      /\ VIA' = [VIA EXCEPT ![0] = new] /\ asserted' = Line(asserted, VIA[0], new)
  BY DEF Access, Accesses, Changed
<1>2. ChipsInv' /\ VIA'[0] = new
  BY <1>1, ChangedFirst DEF BoardInv
<1>3. BusInv'
  BY <1>1, OutKeeps DEF BoardInv
<1>4. AssertedInv => AssertedInv'
  BY <1>1, <1>2, LineFollows, Zenon DEF AssertedInv
<1> QED BY <1>1, <1>2, <1>3, <1>4, Zenon DEF StepDone, TurnInv

LEMMA WrittenEffect ==
  ASSUME NEW v, NEW w, Written(v, w) PROVE Follows(w) /\ Effect(v, w)
BY DEF Written, Effect

LEMMA FirstFollows ==
  ASSUME BoardInv PROVE Follows(VIA[0]) /\ Follows(VIA[1]) /\ VIA[0].acr \in Modes
<1>1. Follows(VIA[0]) /\ Follows(VIA[1])
  BY DEF BoardInv, ChipsInv, Vias
<1>2. VIA[0] \in ViaRecords
  BY <1>1 DEF Follows
<1> QED BY <1>1, <1>2, Zenon DEF ViaRecords

\* An access to VIA 0.
LEMMA RegistersDone ==
  ASSUME BoardInv,
         ReadRegister \/ WriteOtherORA \/ WriteOtherSR \/ WriteTimers \/ WriteMode
           \/ WriteEdge \/ WriteEnable
  PROVE  StepDone
<1>0. Follows(VIA[0])
  BY FirstFollows
<1>1. CASE ReadRegister
  <2>1. PICK reg \in RegisterReads \intersect Registers : Access(0, Read(VIA[0], reg))
    BY <1>1 DEF ReadRegister
  <2>2. reg \in {"ORA", "T1CL", "T2CL", "SR"}
    BY Pi1541Assumption
  <2>3. Written(VIA[0], Read(VIA[0], reg))
    BY <1>0, <2>2, ReadAdjusts, AdjustsWritten
  <2> QED BY <2>1, <2>3, WrittenEffect, AccessDone
<1>2. CASE WriteOtherORA
  <2>1. Written(VIA[0], WriteORA(VIA[0]))
    BY <1>0, WriteORAAdjusts, AdjustsWritten
  <2> QED BY <1>2, <2>1, WrittenEffect, AccessDone DEF WriteOtherORA
<1>3. CASE WriteOtherSR
  <2>1. Written(VIA[0], WriteSR(VIA[0]))
    BY <1>0, WriteSRAdjusts, AdjustsWritten
  <2> QED BY <1>3, <2>1, WrittenEffect, AccessDone DEF WriteOtherSR
<1>4. CASE WriteTimers
  <2>1. PICK w \in TimerWrites :
          w[1] \in Registers /\ Access(0, WriteTimer(VIA[0], w[1], w[2]))
    BY <1>4 DEF WriteTimers
  <2>2. w[1] \in {"T1LL", "T1CH", "T1LH", "T2LL", "T2CH"} /\ w[2] \in Byte
    BY Pi1541Assumption
  <2>3. /\ Follows(WriteTimer(VIA[0], w[1], w[2]))
        /\ Effect(VIA[0], WriteTimer(VIA[0], w[1], w[2]))
    BY <1>0, <2>2, WriteTimerKeeps DEF Effect
  <2> QED BY <2>1, <2>3, AccessDone
<1>5. CASE WriteMode
  <2>1. PICK mode \in ModeWrites : Access(0, WriteACR(VIA[0], mode))
    BY <1>5 DEF WriteMode
  <2>2. mode \in Modes
    BY Pi1541Assumption
  <2>3. Follows(WriteACR(VIA[0], mode)) /\ Effect(VIA[0], WriteACR(VIA[0], mode))
    BY <1>0, <2>2, WriteACRSwitches DEF Effect
  <2> QED BY <2>1, <2>3, AccessDone
<1>6. CASE WriteEdge
  <2>1. PICK positive \in EdgeWrites : Access(0, WriteFCR(VIA[0], positive))
    BY <1>6 DEF WriteEdge
  <2>2. Written(VIA[0], WriteFCR(VIA[0], positive))
    BY <1>0, Pi1541Assumption, WriteFCRKeeps
  <2> QED BY <2>1, <2>2, WrittenEffect, AccessDone
<1>7. CASE WriteEnable
  <2>1. PICK bits \in EnableWrites : Access(0, WriteIER(VIA[0], bits))
    BY <1>7 DEF WriteEnable
  <2>2. Written(VIA[0], WriteIER(VIA[0], bits))
    BY <1>0, Pi1541Assumption, WriteIERKeeps
  <2> QED BY <2>1, <2>2, WrittenEffect, AccessDone
<1> QED BY <1>1, <1>2, <1>3, <1>4, <1>5, <1>6, <1>7

LEMMA WriteFlagsDone ==
  ASSUME BoardInv, WriteFlags PROVE StepDone
<1>1. PICK bits \in FlagWrites :
        Changed(0, [VIA[0] EXCEPT !.irq = @ /\ Bit7 \notin bits], WriteIFR(VIA[0], bits))
  BY DEF WriteFlags
<1> DEFINE new == WriteIFR(VIA[0], bits)
           irq == VIA[0].irq /\ Bit7 \notin bits
           old == [VIA[0] EXCEPT !.irq = irq]
<1>2. turn = "cpu" /\ turn' = "update" /\ Out
  BY DEF WriteFlags, Accesses
<1>3. VIA' = [VIA EXCEPT ![0] = new] /\ asserted' = Line(asserted, old, new)
  BY <1>1, Zenon DEF Changed
<1>0. Follows(VIA[0]) /\ VIA[0] \in ViaRecords
  BY FirstFollows DEF Follows
<1>4. Written(VIA[0], new)
  BY <1>0, WriteIFRKeeps
<1>5. old.irq = irq
  BY <1>0, SMT DEF ViaRecords
<1>6. PlainFlagWrites => irq = VIA[0].irq
  <2>1. VIA[0].irq \in BOOLEAN
    BY <1>0, Zenon DEF ViaRecords
  <2> QED BY <2>1 DEF PlainFlagWrites
<1> HIDE DEF new, old, irq
<1>7. ChipsInv' /\ VIA'[0] = new
  BY <1>3, <1>4, ChangedFirst, WrittenEffect DEF BoardInv
<1>8. BusInv'
  BY <1>2, OutKeeps DEF BoardInv
<1>9. PlainFlagWrites /\ AssertedInv => AssertedInv'
  <2>1. Line(old.irq, old, new) = new.irq
    BY LineFollows
  <2>2. PlainFlagWrites => old.irq = VIA[0].irq
    BY <1>5, <1>6
  <2> QED BY <1>3, <1>7, <2>1, <2>2, Zenon DEF AssertedInv
<1> QED BY <1>2, <1>4, <1>7, <1>8, <1>9, WrittenEffect, Zenon DEF StepDone, TurnInv

LEMMA SameEffect == ASSUME NEW v PROVE Effect(v, v)
BY DEF Effect

\* The processor does something else.
LEMMA ElseDone ==
  ASSUME BoardInv, NoAccess \/ WritePort \/ WriteDrive \/ WriteDriveMode
  PROVE  StepDone
<1>1. turn = "cpu" /\ turn' = "update" /\ VIA' = VIA /\ asserted' = asserted
  BY DEF NoAccess, WritePort, WriteDrive, WriteDriveMode, Accesses
<1>2. ChipsInv' /\ (AssertedInv => AssertedInv') /\ Effect(VIA[0], VIA'[0])
  <2>1. ChipsInv'
    BY <1>1 DEF BoardInv, ChipsInv
  <2>2. AssertedInv => AssertedInv'
    BY <1>1 DEF AssertedInv
  <2>3. Effect(VIA[0], VIA'[0])
    BY <1>1, SameEffect
  <2> QED BY <2>1, <2>2, <2>3
<1>3. BusInv'
  <2>1. CASE WritePort
    <3>1. PICK w \in PortWrites :
            bus' = AfterStep(IF w[1] = "ORB" THEN SetOutput(bus, w[2])
                                             ELSE SetDirection(bus, w[2]))
      BY <2>1 DEF WritePort
    <3>2. w[2] \in SUBSET OutPins
      BY Pi1541Assumption
    <3> DEFINE b == IF w[1] = "ORB" THEN SetOutput(bus, w[2]) ELSE SetDirection(bus, w[2])
    <3>3. BusKept(b)
      BY <3>2, SetPortKeeps DEF BoardInv, BusInv
    <3> HIDE DEF b
    <3>4. BusKept(AfterStep(b)) /\ (AfterStep(b).afterStep => Refreshed(AfterStep(b)))
      BY <3>3, AfterStepKeeps
    <3>5. bus' = AfterStep(b)
      BY <3>1 DEF b
    <3> QED BY <1>1, <3>4, <3>5, Zenon DEF BusInv
  <2>2. CASE ~WritePort
    <3>1. Out
      BY <2>2 DEF NoAccess, WriteDrive, WriteDriveMode
    <3> QED BY <1>1, <3>1, OutKeeps DEF BoardInv
  <2> QED BY <2>1, <2>2
<1> QED BY <1>1, <1>2, <1>3, Zenon DEF StepDone, TurnInv

\* It reads or writes port A of VIA 1.
LEMMA DataDone ==
  ASSUME BoardInv, WriteData \/ ReadData PROVE StepDone
<1>0. Follows(VIA[1]) /\ VIA[1].ier = {}
  BY FirstFollows DEF BoardInv, ChipsInv
<1>1. PICK new : /\ Adjusts(VIA[1], new)
                 /\ turn = "cpu" /\ turn' = "update" /\ Out
                 /\ VIA' = [VIA EXCEPT ![1] = new] /\ asserted' = Line(asserted, VIA[1], new)
  <2>1. CASE WriteData
    <3>1. Adjusts(VIA[1], WriteORA(VIA[1]))
      BY <1>0, WriteORAAdjusts
    <3> QED BY <2>1, <3>1, Zenon DEF WriteData, Accesses, Changed
  <2>2. CASE ReadData
    <3>1. Adjusts(VIA[1], Read(VIA[1], "ORA"))
      BY <1>0, ReadAdjusts
    <3> QED BY <2>2, <3>1, Zenon DEF ReadData, Accesses, Changed
  <2> QED BY <2>1, <2>2
<1>2. Follows(new) /\ new.ier = {}
  BY <1>0, <1>1, Zenon DEF Adjusts
<1>3. ~new.irq /\ ~VIA[1].irq
  BY <1>0, <1>2 DEF Follows
<1>4. ChipsInv' /\ VIA'[0] = VIA[0]
  BY <1>1, <1>2, ChangedSecond DEF BoardInv
<1>5. asserted' = asserted
  <2>1. new.irq \in BOOLEAN /\ VIA[1].irq \in BOOLEAN
    <3>1. new \in ViaRecords /\ VIA[1] \in ViaRecords
      BY <1>0, <1>2 DEF Follows
    <3>2. new.irq \in BOOLEAN
      BY <3>1, Zenon DEF ViaRecords
    <3>3. VIA[1].irq \in BOOLEAN
      BY <3>1, Zenon DEF ViaRecords
    <3> QED BY <3>2, <3>3
  <2>2. new.irq = VIA[1].irq
    BY <1>3, <2>1
  <2> QED BY <1>1, <2>2, Zenon DEF Line
<1>6. BusInv'
  BY <1>1, OutKeeps DEF BoardInv
<1> QED BY <1>1, <1>4, <1>5, <1>6, SameEffect, Zenon DEF StepDone, TurnInv, AssertedInv

LEMMA InsertDone ==
  ASSUME BoardInv, Insert PROVE StepDone
<1>1. /\ VIA' = VIA /\ asserted' = asserted /\ turn' = turn /\ bus' = bus
  BY DEF Insert
<1> QED BY <1>1, Zenon DEF StepDone, BoardInv, ChipsInv, BusInv, TurnInv, AssertedInv

LEMMA CycleThenCA1 ==
  ASSUME NEW u, NEW v, NEW w, CycleEffect(u, v), Same1(v, w), Same2(v, w)
  PROVE  CycleEffect(u, w)
<1>1. Ticked1(u, w)
  BY Zenon DEF CycleEffect, Ticked1, Same1
<1>2. w.t2CountingDown = u.t2CountingDown /\ w.countPB6Old = u.acr.countPB6
  BY Zenon DEF CycleEffect, Same2
<1>3. Told2(u) => Told2(w)
  BY Zenon DEF CycleEffect, Same2, Told2
<1>4. Told2(u) /\ CountsCycles(u) => Ticked2(u, w)
  BY Zenon DEF CycleEffect, Ticked2, Same2
<1> QED BY <1>1, <1>2, <1>3, <1>4, Zenon DEF CycleEffect

LEMMA InputsType == PB6 \subseteq Inputs /\ Changes \subseteq SUBSET Lines
<1>1. PB6 \subseteq Inputs
  BY Pi1541Assumption DEF PB6, Inputs
<1>0. Moves \subseteq SUBSET Lines /\ {{}} \subseteq SUBSET Lines
      /\ Moves \intersect {{}, {"ATN"}} \subseteq SUBSET Lines
  BY Pi1541Assumption
<1>2. CASE program = "port"
  <2>1. Changes = Moves
    BY <1>2, Zenon DEF Changes
  <2> QED BY <1>0, <1>1, <2>1
<1>3. CASE program = "timer 1"
  <2>1. Changes = Moves \intersect {{}, {"ATN"}}
    BY <1>3, Zenon DEF Changes
  <2> QED BY <1>0, <1>1, <2>1
<1>4. CASE program # "port" /\ program # "timer 1"
  <2>1. Changes = {{}}
    BY <1>4, Zenon DEF Changes
  <2> QED BY <1>0, <1>1, <2>1
<1> QED BY <1>1, <1>2, <1>3, <1>4

\* A VIA without an interrupt leaves the line alone.
LEMMA LineQuiet ==
  ASSUME NEW line, NEW old, NEW new, Follows(old), Follows(new), old.ier = {}, new.ier = {}
  PROVE  Line(line, old, new) = line
<1>1. ~old.irq /\ ~new.irq
  BY DEF Follows
<1>2. old \in ViaRecords /\ new \in ViaRecords
  BY DEF Follows
<1>3. old.irq \in BOOLEAN
  BY <1>2, Zenon DEF ViaRecords
<1>4. new.irq \in BOOLEAN
  BY <1>2, Zenon DEF ViaRecords
<1>5. old.irq = new.irq
  BY <1>1, <1>3, <1>4
<1> QED BY <1>5, Zenon DEF Line

LEMMA LineType ==
  ASSUME NEW line \in BOOLEAN, NEW old, NEW new, Follows(new)
  PROVE  Line(line, old, new) \in BOOLEAN
<1>1. new.irq \in BOOLEAN
  BY Zenon DEF Follows, ViaRecords
<1> QED BY <1>1, Zenon DEF Line

LEMMA UpdateDone ==
  ASSUME BoardInv, Update
  PROVE  StepDone /\ (asserted \in BOOLEAN => asserted' \in BOOLEAN)
<1>1. PICK pb6 \in PB6, first \in FirstNoise, later \in LaterNoise :
        LET new  == Updated(drive, first, later)
            ready1   == InputCA1(VIA[1], ~new.SO)
            executed == [VIA EXCEPT ![0] = Execute(@, pb6), ![1] = Execute(ready1, 0)]
            atDrive  == Line(asserted, VIA[1], ready1)
            updated  == Line(Line(atDrive, ready1, executed[1]), VIA[0], executed[0])
        IN  \E move \in Changes :
              /\ bus' = NextCycle(bus, (bus.others \ move) \union (move \ bus.others))
              /\ LET atBus == InputCA1(executed[0], bus'.PI_Atn)
                 IN  /\ VIA' = [executed EXCEPT ![0] = atBus]
                     /\ asserted' = Line(updated, executed[0], atBus)
  BY DEF Update
<1> DEFINE so       == ~Updated(drive, first, later).SO
           ready1   == InputCA1(VIA[1], so)
           ran0     == Execute(VIA[0], pb6)
           ran1     == Execute(ready1, 0)
           executed == [VIA EXCEPT ![0] = ran0, ![1] = ran1]
           atDrive  == Line(asserted, VIA[1], ready1)
           updated  == Line(Line(atDrive, ready1, executed[1]), VIA[0], executed[0])
<1>2. PICK move \in Changes :
        /\ bus' = NextCycle(bus, (bus.others \ move) \union (move \ bus.others))
        /\ LET atBus == InputCA1(executed[0], bus'.PI_Atn)
           IN  /\ VIA' = [executed EXCEPT ![0] = atBus]
               /\ asserted' = Line(updated, executed[0], atBus)
  BY <1>1
<1>3. so \in BOOLEAN
  BY Zenon
<1>4. Follows(VIA[0]) /\ Follows(VIA[1]) /\ VIA[1].ier = {} /\ VIA \in [Vias -> ViaRecords]
  BY FirstFollows DEF BoardInv, ChipsInv
<1> HIDE DEF so
<1>5. Follows(ready1) /\ ready1.ier = {}
  BY <1>3, <1>4, InputCA1Keeps
<1> HIDE DEF ready1
<1>6. Follows(ran1) /\ ran1.ier = {}
  BY <1>5, ExecuteKeeps DEF Inputs
<1>7. Follows(ran0) /\ CycleEffect(VIA[0], ran0)
  BY <1>4, InputsType, ExecuteKeeps DEF CycleEffect
<1> HIDE DEF ran0, ran1
<1>8. executed[0] = ran0 /\ executed[1] = ran1
  BY <1>4 DEF Vias
<1>9. BusKept(bus') /\ Shown(bus') /\ (~bus'.afterStep => Refreshed(bus'))
  <2> DEFINE others == (bus.others \ move) \union (move \ bus.others)
  <2>1. bus \in BusRecords /\ BusKept(bus)
    BY DEF BoardInv, BusInv, BusKept
  <2>2. others \in SUBSET Lines
    BY <2>1, InputsType DEF BusRecords
  <2>3. bus' = NextCycle(bus, others)
    BY <1>2
  <2> HIDE DEF others
  <2> QED BY <2>1, <2>2, <2>3, NextCycleKeeps
<1>10. bus'.PI_Atn \in BOOLEAN
  <2>1. bus' \in BusRecords
    BY <1>9 DEF BusKept
  <2> QED BY <2>1, Zenon DEF BusRecords
<1> DEFINE atn   == bus'.PI_Atn
           atBus == InputCA1(ran0, atn)
<1>11. /\ VIA' = [executed EXCEPT ![0] = atBus]
       /\ asserted' = Line(updated, executed[0], atBus)
  BY <1>2, <1>8
<1>12. Follows(atBus) /\ Same1(ran0, atBus) /\ Same2(ran0, atBus)
  BY <1>7, <1>10, InputCA1Keeps
<1> HIDE DEF atBus
<1>13. CycleEffect(VIA[0], atBus)
  BY <1>7, <1>12, CycleThenCA1
<1>14. VIA'[0] = atBus /\ VIA'[1] = ran1 /\ VIA' \in [Vias -> ViaRecords]
  <2>1. ran0 \in ViaRecords /\ ran1 \in ViaRecords /\ atBus \in ViaRecords
    BY <1>6, <1>7, <1>12 DEF Follows
  <2>2. executed \in [Vias -> ViaRecords]
    BY <1>4, <2>1 DEF Vias
  <2> HIDE DEF executed
  <2> QED BY <1>8, <1>11, <2>1, <2>2 DEF Vias
<1>15. ChipsInv'
  <2>1. \A i \in Vias : Follows(VIA'[i])
    BY <1>6, <1>12, <1>14 DEF Vias
  <2>2. VIA'[1].ier = {}
    BY <1>6, <1>14
  <2> QED BY <1>14, <2>1, <2>2 DEF ChipsInv
<1>16. turn = "update" /\ turn' = "cpu"
  BY DEF Update
<1>17. BusInv'
  BY <1>9, <1>16, Zenon DEF BusInv
<1>18. AssertedInv => AssertedInv'
  <2>1. SUFFICES ASSUME AssertedInv PROVE asserted' = VIA'[0].irq
    BY DEF AssertedInv
  <2>2. Line(atDrive, ready1, executed[1]) = VIA[0].irq
    BY <1>4, <1>5, <1>6, <1>8, <2>1, LineQuiet DEF AssertedInv
  <2> HIDE DEF atDrive, executed
  <2>3. updated = ran0.irq
    BY <1>8, <2>2, LineFollows
  <2> HIDE DEF updated
  <2>4. Line(updated, executed[0], atBus) = atBus.irq
    BY <1>8, <2>3, LineFollows
  <2> QED BY <1>11, <1>14, <2>4
<1>19. CycleEffect(VIA[0], VIA'[0])
  BY <1>13, <1>14
<1>20. asserted \in BOOLEAN => asserted' \in BOOLEAN
  <2> DEFINE atVia1 == Line(atDrive, ready1, executed[1])
  <2> SUFFICES ASSUME asserted \in BOOLEAN PROVE asserted' \in BOOLEAN
    OBVIOUS
  <2>1. atDrive \in BOOLEAN
    BY <1>5, LineType
  <2> HIDE DEF atDrive, executed
  <2>2. atVia1 \in BOOLEAN
    BY <1>6, <1>8, <2>1, LineType
  <2>3. updated = Line(atVia1, VIA[0], executed[0])
    OBVIOUS
  <2> HIDE DEF atVia1
  <2>4. updated \in BOOLEAN
    BY <1>7, <1>8, <2>2, <2>3, LineType
  <2> HIDE DEF updated
  <2> QED BY <1>11, <1>12, <2>4, LineType
<1> QED BY <1>15, <1>16, <1>17, <1>18, <1>19, <1>20, Zenon DEF StepDone, TurnInv

LEMMA StutterDone ==
  ASSUME BoardInv, UNCHANGED vars PROVE StepDone
<1>1. /\ VIA' = VIA /\ asserted' = asserted /\ turn' = turn /\ bus' = bus
  BY DEF vars
<1> QED BY <1>1, Zenon DEF StepDone, BoardInv, ChipsInv, BusInv, TurnInv, AssertedInv

LEMMA EveryStepDone ==
  ASSUME BoardInv, [Next]_vars PROVE StepDone
<1>1. CASE ReadRegister \/ WriteOtherORA \/ WriteOtherSR \/ WriteTimers \/ WriteMode
             \/ WriteEdge \/ WriteEnable
  BY <1>1, RegistersDone
<1>2. CASE WriteFlags
  BY <1>2, WriteFlagsDone
<1>3. CASE NoAccess \/ WritePort \/ WriteDrive \/ WriteDriveMode
  BY <1>3, ElseDone
<1>4. CASE WriteData \/ ReadData
  BY <1>4, DataDone
<1>5. CASE Insert
  BY <1>5, InsertDone
<1>6. CASE Update
  BY <1>6, UpdateDone
<1>7. CASE UNCHANGED vars
  BY <1>7, StutterDone
<1> QED BY <1>1, <1>2, <1>3, <1>4, <1>5, <1>6, <1>7 DEF Next, Drives

-----------------------------------------------------------------------------
(* The line to the processor, and the bus *)

LEMMA ResetFollows == Follows(Reset)
<1>1. Reset.ier \intersect Reset.ifr = {} /\ Reset.irq = FALSE
  BY DEF Reset
<1>2. Base * Base - 1 \in Word
  BY BaseType DEF Word
<1>3. 0 \in Byte /\ 0 \in 0 .. 3 /\ 0 \in 0 .. 8 /\ 0 \in 0 .. 7 /\ 0 \in Inputs
  BY ViaAssumption DEF Byte, Inputs
<1>4. [freeRun |-> FALSE, countPB6 |-> FALSE, shift |-> 0] \in Modes
  BY <1>3 DEF Modes
<1>5. {} \in SUBSET Flags
  OBVIOUS
<1> DEFINE n == Base * Base - 1
<1>6. n \in Word
  BY <1>2
<1>7. Reset \in ViaRecords
  <2> HIDE DEF n
  <2> QED BY <1>3, <1>4, <1>5, <1>6, Zenon DEF Reset, ViaRecords, n
<1> QED BY <1>1, <1>7 DEF Follows

LEMMA BoardInit == Init => BoardInv /\ AssertedInv
<1> SUFFICES ASSUME Init PROVE BoardInv /\ AssertedInv
  OBVIOUS
<1> DEFINE drives == InputCA1(Reset, TRUE)
<1>1. Follows(Reset) /\ Follows(drives) /\ drives.ier = {}
  <2>1. Reset.ier = {}
    BY DEF Reset
  <2> QED BY <2>1, ResetFollows, InputCA1Keeps
<1> HIDE DEF drives
<1>2. VIA = [i \in Vias |-> IF i = 1 THEN drives ELSE Reset]
  BY DEF Init, drives
<1>3. VIA[0] = Reset /\ VIA[1] = drives
  BY <1>2 DEF Vias
<1>4. ChipsInv
  <2>1. Reset \in ViaRecords /\ drives \in ViaRecords
    BY <1>1 DEF Follows
  <2> QED BY <1>1, <1>2, <1>3, <2>1 DEF ChipsInv, Vias
<1>5. PICK afterStep \in AfterSteps : bus = BusReset(afterStep)
  BY DEF Init
<1>6. afterStep \in BOOLEAN
  BY Pi1541Assumption
<1>7. /\ bus \in BusRecords /\ bus.direction = {} /\ bus.outs = {} /\ bus.stateIn = {}
      /\ bus.others = {} /\ bus.sampled = {} /\ bus.written = FALSE
      /\ bus.DataSetToOut = FALSE /\ bus.ClockSetToOut = FALSE /\ bus.AtnaDataSetToOut = FALSE
  BY <1>5, <1>6 DEF BusReset, BusRecords
<1>8. BusInv
  BY <1>7 DEF BusInv, BusKept, Shown, Refreshed
<1>9. AssertedInv
  <2>1. asserted = FALSE
    BY DEF Init
  <2>2. Reset.irq = FALSE
    BY DEF Reset
  <2> QED BY <1>3, <2>1, <2>2 DEF AssertedInv
<1>10. TurnInv
  BY DEF Init, TurnInv
<1> QED BY <1>4, <1>8, <1>9, <1>10 DEF BoardInv

LEMMA BoardStep == BoardInv /\ [Next]_vars => BoardInv'
BY EveryStepDone, Zenon DEF StepDone, BoardInv

\* Every state of the board keeps the invariant: the 6522s have values of their
\* types, bit 7 of IFR is what the enabled flags make of it, VIA 1's IER is as it
\* was reset, and the fields of the bus are those port B and ATN call for.
THEOREM BoardInvariant == Spec => []BoardInv
<1>1. Init => BoardInv
  BY BoardInit
<1> QED BY <1>1, BoardStep, PTL DEF Spec

\* The interrupt line to the processor is asserted exactly as long as a 6522 has a
\* flag set that is enabled, whatever order registers are accessed in and however
\* timers run out: as long as no program writes IFR with bit 7 set (m6522.h 281-316),
\* which clears the 6522's own record of the line without releasing it.
THEOREM InterruptLine ==
  ASSUME PlainFlagWrites PROVE Spec => []LineFollowsFlags
<1>1. Init => BoardInv /\ AssertedInv
  BY BoardInit
<1>2. (BoardInv /\ AssertedInv) /\ [Next]_vars => (BoardInv /\ AssertedInv)'
  BY PlainFlagWrites, EveryStepDone, Zenon DEF StepDone, BoardInv
<1>3. BoardInv /\ AssertedInv => LineFollowsFlags
  <2> SUFFICES ASSUME BoardInv, AssertedInv PROVE LineFollowsFlags
    OBVIOUS
  <2>1. VIA[0].irq <=> VIA[0].ier \intersect VIA[0].ifr # {}
    BY FirstFollows DEF Follows
  <2>2. VIA[1].ier \intersect VIA[1].ifr = {}
    BY DEF BoardInv, ChipsInv
  <2> QED BY <2>1, <2>2 DEF LineFollowsFlags, AssertedInv, Vias
<1> QED BY <1>1, <1>2, <1>3, PTL DEF Spec

\* The program and the others on the bus see the same lines, in any order of
\* writes to port B, to its direction, and of changes of the lines.
THEOREM BusAndPort == Spec => []BusFollowsPort
<1>1. BoardInv => BusFollowsPort
  <2> SUFFICES ASSUME BoardInv, bus.direction # {}
               PROVE  /\ turn = (IF bus.afterStep THEN "update" ELSE "cpu") => OutsFollowPort(bus)
                      /\ turn = "cpu" => PortShowsLines(bus)
    BY DEF BusFollowsPort
  <2>1. BusKept(bus) /\ (turn = "cpu" => Shown(bus))
        /\ (turn = (IF bus.afterStep THEN "update" ELSE "cpu") => Refreshed(bus))
    BY DEF BoardInv, BusInv
  <2> QED BY <2>1, FollowsPort, Zenon
<1> QED BY <1>1, BoardInvariant, PTL

-----------------------------------------------------------------------------
(* The timers *)

\* Timer 1 is loaded in one turn and starts in the next; when it was loaded with
\* zero it reloads the same.
Reloads1(v) == v.t1TimedOut => v.t1Ticking /\ (v.t1Reload => v.t1c = v.t1l)
TimersInv == /\ Reloads1(VIA[0]) /\ Told2(VIA[0])
             /\ VIA[0].t1Reload => turn = "update"

LEMMA TimersInit == Init => TimersInv
BY DEF Init, TimersInv, Reloads1, Told2, Reset, Vias

LEMMA TimersStep ==
  ASSUME TimersInv, StepDone PROVE TimersInv'
<1>1. CASE turn = "cpu" /\ turn' = "update" /\ Effect(VIA[0], VIA'[0])
  <2>0. Reloads1(VIA[0]) /\ ~VIA[0].t1Reload
    BY <1>1 DEF TimersInv
  <2>1. Reloads1(VIA'[0])
    <3>1. CASE VIA'[0] = VIA[0]
      BY <2>0, <3>1
    <3>2. CASE Adjusted1(VIA[0], VIA'[0])
      BY <2>0, <3>2, Zenon DEF Reloads1, Adjusted1
    <3>3. CASE Loaded1(VIA[0], VIA'[0])
      BY <3>3, Zenon DEF Reloads1, Loaded1
    <3>4. CASE Switched(VIA[0], VIA'[0])
      BY <2>0, <3>4, Zenon DEF Reloads1, Switched
    <3> QED BY <1>1, <3>1, <3>2, <3>3, <3>4 DEF Effect
  <2>2. Told2(VIA'[0])
    BY <1>1, Zenon DEF TimersInv, Effect, Told2, Adjusted2, Loaded2, Switched
  <2> QED BY <1>1, <2>1, <2>2, Zenon DEF TimersInv, Reloads1, Told2
<1>2. CASE VIA' = VIA /\ turn' = turn
  BY <1>2, Zenon DEF TimersInv, Reloads1, Told2
<1>3. CASE turn = "update" /\ turn' = "cpu" /\ CycleEffect(VIA[0], VIA'[0])
  <2>1. ~VIA'[0].t1Reload /\ (VIA'[0].t1TimedOut => VIA'[0].t1Ticking)
    BY <1>3 DEF CycleEffect, Ticked1, T1TimesOut
  <2>2. Told2(VIA'[0])
    BY <1>3, Zenon DEF CycleEffect, TimersInv
  <2> QED BY <2>1, <2>2, Zenon DEF TimersInv, Reloads1, Told2
<1> QED BY <1>1, <1>2, <1>3, Zenon DEF StepDone

\* What is read of VIA 0 in the refinements.
LEMMA FieldTypes ==
  ASSUME NEW v \in ViaRecords
  PROVE  /\ v.t1c \in Word /\ v.t1l \in Word /\ v.t1Ticking \in BOOLEAN
         /\ v.t1Reload \in BOOLEAN /\ v.t1TimedOut \in BOOLEAN
         /\ v.t1FreeRunIRQsOn \in BOOLEAN /\ v.t1Triggered \in BOOLEAN
         /\ v.acr.freeRun \in BOOLEAN /\ v.acr.countPB6 \in BOOLEAN
         /\ v.t2c \in Word /\ v.t2CountingDown \in BOOLEAN /\ v.t2Reload \in BOOLEAN
         /\ v.t2Triggered \in BOOLEAN /\ v.countPB6Old \in BOOLEAN
<1>1. v.acr \in Modes
  BY Zenon DEF ViaRecords
<1>2. v.acr.freeRun \in BOOLEAN /\ v.acr.countPB6 \in BOOLEAN
  BY <1>1, Zenon DEF Modes
<1>3. /\ v.t1c \in Word /\ v.t1l \in Word /\ v.t1Ticking \in BOOLEAN
      /\ v.t1Reload \in BOOLEAN /\ v.t1TimedOut \in BOOLEAN
      /\ v.t1FreeRunIRQsOn \in BOOLEAN /\ v.t1Triggered \in BOOLEAN
  BY Zenon DEF ViaRecords
<1>4. /\ v.t2c \in Word /\ v.t2CountingDown \in BOOLEAN /\ v.t2Reload \in BOOLEAN
      /\ v.t2Triggered \in BOOLEAN /\ v.countPB6Old \in BOOLEAN
  BY Zenon DEF ViaRecords
<1> QED BY <1>2, <1>3, <1>4

\* Timer 1 as its abstract timer sees it.
LeftOf1(v) == IF ~v.t1Ticking THEN -1
              ELSE IF v.t1Reload THEN v.t1c + 2
              ELSE IF v.t1TimedOut THEN 0 ELSE v.t1c + 1

\* A cycle is a tick of the abstract timer.
LEMMA CycleTicks1 ==
  ASSUME NEW v \in ViaRecords, NEW w \in ViaRecords, Ticked1(v, w), Reloads1(v)
  PROVE  /\ \/ LeftOf1(v) > 1 /\ LeftOf1(w) = LeftOf1(v) - 1
               /\ (Armed1(w) <=> Armed1(v)) /\ ("T1" \in w.ifr <=> "T1" \in v.ifr)
            \/ LeftOf1(v) = 1 /\ LeftOf1(w) = 0
               /\ ("T1" \in w.ifr <=> "T1" \in v.ifr \/ Armed1(v))
               /\ (Armed1(w) <=> Armed1(v) /\ v.acr.freeRun)
            \/ LeftOf1(v) = 0 /\ LeftOf1(w) = v.t1l + 1
               /\ (Armed1(w) <=> Armed1(v)) /\ ("T1" \in w.ifr <=> "T1" \in v.ifr)
            \/ LeftOf1(v) = -1 /\ LeftOf1(w) = -1
               /\ (Armed1(w) <=> Armed1(v)) /\ ("T1" \in w.ifr <=> "T1" \in v.ifr)
         /\ w.t1l = v.t1l /\ w.acr = v.acr
<1>1. /\ v.t1c \in Int /\ v.t1c >= 0 /\ v.t1l \in Int /\ v.t1l >= 0
      /\ Base * Base \in Int
  BY FieldTypes, BaseType DEF Word
<1>2. /\ w.t1l = v.t1l /\ w.acr = v.acr /\ w.t1Ticking = v.t1Ticking /\ ~w.t1Reload
      /\ (w.t1TimedOut <=> T1TimesOut(v))
  BY DEF Ticked1
<1>3. ~T1TimesOut(v) => /\ Armed1(w) <=> Armed1(v)
                        /\ "T1" \in w.ifr <=> "T1" \in v.ifr
  BY Zenon DEF Ticked1, Armed1
<1>4. CASE ~v.t1Ticking
  <2>1. ~T1TimesOut(v)
    BY <1>4 DEF T1TimesOut
  <2>2. LeftOf1(v) = -1 /\ LeftOf1(w) = -1
    BY <1>2, <1>4 DEF LeftOf1
  <2> QED BY <1>2, <1>3, <2>1, <2>2
<1>5. CASE v.t1Ticking /\ v.t1Reload
  <2>1. ~T1TimesOut(v)
    BY <1>5 DEF T1TimesOut
  <2>2. w.t1c = v.t1c
    BY <1>5, Zenon DEF Ticked1, Reloads1
  <2>3. LeftOf1(v) = v.t1c + 2 /\ LeftOf1(w) = v.t1c + 1
    BY <1>2, <1>5, <2>1, <2>2 DEF LeftOf1
  <2>4. LeftOf1(v) > 1 /\ LeftOf1(w) = LeftOf1(v) - 1
    BY <1>1, <2>3
  <2> QED BY <1>2, <1>3, <2>1, <2>4
<1>6. CASE v.t1Ticking /\ ~v.t1Reload /\ v.t1TimedOut
  <2>1. ~T1TimesOut(v)
    BY <1>6 DEF T1TimesOut
  <2>2. w.t1c = v.t1l
    BY <1>6, Zenon DEF Ticked1
  <2>3. LeftOf1(v) = 0 /\ LeftOf1(w) = v.t1l + 1
    BY <1>2, <1>6, <2>1, <2>2 DEF LeftOf1
  <2> QED BY <1>2, <1>3, <2>1, <2>3
<1>7. CASE v.t1Ticking /\ ~v.t1Reload /\ ~v.t1TimedOut /\ v.t1c = 0
  <2>1. T1TimesOut(v)
    BY <1>7 DEF T1TimesOut
  <2>2. LeftOf1(v) = 1 /\ LeftOf1(w) = 0
    BY <1>2, <1>7, <2>1 DEF LeftOf1
  <2>3. "T1" \in w.ifr <=> "T1" \in v.ifr \/ Armed1(v)
    BY <2>1, Zenon DEF Ticked1
  <2>4. Armed1(w) <=> Armed1(v) /\ v.acr.freeRun
    BY <2>1, Zenon DEF Ticked1, Armed1
  <2> QED BY <1>2, <2>2, <2>3, <2>4
<1>8. CASE v.t1Ticking /\ ~v.t1Reload /\ ~v.t1TimedOut /\ v.t1c # 0
  <2>1. ~T1TimesOut(v)
    BY <1>8 DEF T1TimesOut
  <2>2. w.t1c = Down(v.t1c)
    BY <1>8, Zenon DEF Ticked1
  <2>3. Down(v.t1c) = v.t1c - 1
    BY <1>8, FieldTypes, DownWord
  <2>4. LeftOf1(v) = v.t1c + 1 /\ LeftOf1(w) = v.t1c - 1 + 1
    BY <1>2, <1>8, <2>1, <2>2, <2>3 DEF LeftOf1
  <2>5. LeftOf1(v) > 1 /\ LeftOf1(w) = LeftOf1(v) - 1
    BY <1>1, <1>8, <2>4
  <2> QED BY <1>2, <1>3, <2>1, <2>5
<1> QED BY <1>4, <1>5, <1>6, <1>7, <1>8

LEMMA ArmedType ==
  ASSUME NEW v \in ViaRecords PROVE Armed1(v) \in BOOLEAN
<1>1. v.t1FreeRunIRQsOn \in BOOLEAN
  BY FieldTypes
<1> QED BY <1>1 DEF Armed1

T1Step == T1!Load \/ T1!Tick \/ T1!Adjust \/ T1!Switch \/ T1!Elsewhere

\* Its variables, of a 6522 v.
Raised1(v) == "T1" \in v.ifr

LEMMA Timer1Step ==
  ASSUME BoardInv, TimersInv, StepDone
  PROVE  [T1Step]_(T1!timerVars)
<1> DEFINE v == VIA[0]
           w == VIA'[0]
<1>1. v \in ViaRecords /\ w \in ViaRecords
  BY DEF StepDone, BoardInv, ChipsInv, Vias
<1>2. T1Left = LeftOf1(v) /\ T1Left' = LeftOf1(w)
  BY DEF T1Left, LeftOf1, One
<1>3. Armed1(v) \in BOOLEAN /\ Armed1(w) \in BOOLEAN
  BY <1>1, ArmedType
<1>4. w.t1l \in Nat
  BY <1>1, FieldTypes, BaseType DEF Word
<1>5. CASE w = v
  BY <1>2, <1>5, Zenon DEF T1!timerVars, One
<1>6. CASE Adjusted1(v, w)
  <2>1. LeftOf1(w) = LeftOf1(v) /\ w.acr = v.acr /\ (Raised1(w) => Raised1(v))
    BY <1>6, Zenon DEF Adjusted1, LeftOf1, Raised1
  <2>2. Armed1(w) => Armed1(v)
    BY <1>6, Zenon DEF Adjusted1, Armed1
  <2>3. T1!Adjust
    BY <1>2, <1>4, <2>1, <2>2, Zenon DEF T1!Adjust, One, Armed1, Raised1
  <2> QED BY <2>3 DEF T1Step
<1>7. CASE Loaded1(v, w)
  <2>1. LeftOf1(w) = T1First(w.t1l)
    BY <1>7 DEF Loaded1, LeftOf1, T1First
  <2>2. Armed1(w) /\ ~Raised1(w) /\ w.acr = v.acr
    BY <1>7, Zenon DEF Loaded1, Armed1, Raised1
  <2>3. T1!Load
    BY <1>2, <2>1, <2>2 DEF T1!Load, One, Armed1, Raised1
  <2> QED BY <2>3 DEF T1Step
<1>8. CASE Switched(v, w)
  <2>1. LeftOf1(w) = LeftOf1(v) /\ w.t1l = v.t1l /\ w.ifr = v.ifr
    BY <1>8, Zenon DEF Switched, LeftOf1
  <2>2. w.acr.freeRun \in BOOLEAN
    BY <1>1, FieldTypes
  <2>3. T1!Switch
    BY <1>2, <1>3, <2>1, <2>2, Zenon DEF T1!Switch, One, Armed1
  <2> QED BY <2>3 DEF T1Step
<1>9. CASE CycleEffect(v, w)
  <2>1. Ticked1(v, w) /\ Reloads1(v)
    BY <1>9 DEF CycleEffect, TimersInv
  <2>2. /\ \/ LeftOf1(v) > 1 /\ LeftOf1(w) = LeftOf1(v) - 1
              /\ (Armed1(w) <=> Armed1(v)) /\ (Raised1(w) <=> Raised1(v))
           \/ LeftOf1(v) = 1 /\ LeftOf1(w) = 0
              /\ (Raised1(w) <=> Raised1(v) \/ Armed1(v))
              /\ (Armed1(w) <=> Armed1(v) /\ v.acr.freeRun)
           \/ LeftOf1(v) = 0 /\ LeftOf1(w) = v.t1l + 1
              /\ (Armed1(w) <=> Armed1(v)) /\ (Raised1(w) <=> Raised1(v))
           \/ LeftOf1(v) = -1 /\ LeftOf1(w) = -1
              /\ (Armed1(w) <=> Armed1(v)) /\ (Raised1(w) <=> Raised1(v))
        /\ w.t1l = v.t1l /\ w.acr = v.acr
    BY <1>1, <2>1, CycleTicks1 DEF Raised1
  <2>3. Raised1(v) \in BOOLEAN /\ Raised1(w) \in BOOLEAN
    BY DEF Raised1
  <2>4. (Armed1(w) <=> Armed1(v)) => Armed1(w) = Armed1(v)
    BY <1>3
  <2>5. (Raised1(w) <=> Raised1(v)) => Raised1(w) = Raised1(v)
    BY <2>3
  <2>6. (Raised1(w) <=> Raised1(v) \/ Armed1(v)) => Raised1(w) = (Raised1(v) \/ Armed1(v))
    BY <2>3
  <2>7. (Armed1(w) <=> Armed1(v) /\ v.acr.freeRun) => Armed1(w) = (Armed1(v) /\ v.acr.freeRun)
    BY <1>3
  <2>8. CASE LeftOf1(v) > 1 /\ LeftOf1(w) = LeftOf1(v) - 1
             /\ Armed1(w) = Armed1(v) /\ Raised1(w) = Raised1(v)
    <3>1. T1!Count
      BY <1>2, <2>8, Zenon DEF T1!Count, One, Armed1, Raised1
    <3> QED BY <2>2, <3>1, Zenon DEF T1Step, T1!Tick, One
  <2>9. CASE LeftOf1(v) = 1 /\ LeftOf1(w) = 0
             /\ Raised1(w) = (Raised1(v) \/ Armed1(v))
             /\ Armed1(w) = (Armed1(v) /\ v.acr.freeRun)
    <3>1. T1!TimeOut
      BY <1>2, <2>9, Zenon DEF T1!TimeOut, One, Armed1, Raised1
    <3> QED BY <2>2, <3>1, Zenon DEF T1Step, T1!Tick, One
  <2>10. CASE LeftOf1(v) = 0 /\ LeftOf1(w) = v.t1l + 1
              /\ Armed1(w) = Armed1(v) /\ Raised1(w) = Raised1(v)
    <3>1. T1!Again
      BY <1>2, <2>10, Zenon DEF T1!Again, One, Armed1, Raised1
    <3> QED BY <2>2, <3>1, Zenon DEF T1Step, T1!Tick, One
  <2>11. CASE LeftOf1(v) = -1 /\ LeftOf1(w) = -1
              /\ Armed1(w) = Armed1(v) /\ Raised1(w) = Raised1(v)
    <3>1. T1!Rest
      BY <1>2, <2>11, Zenon DEF T1!Rest, T1!Idle, One, Armed1, Raised1
    <3> QED BY <2>2, <3>1, Zenon DEF T1Step, T1!Tick, One
  <2> HIDE DEF v, w
  <2> QED BY <2>2, <2>4, <2>5, <2>6, <2>7, <2>8, <2>9, <2>10, <2>11, Zenon
<1>10. w = v \/ Adjusted1(v, w) \/ Loaded1(v, w) \/ Switched(v, w) \/ CycleEffect(v, w)
  BY DEF StepDone, Effect
<1> QED BY <1>5, <1>6, <1>7, <1>8, <1>9, <1>10

-----------------------------------------------------------------------------
T2Step == T2!Load \/ T2!Tick \/ T2!Adjust \/ T2!Switch \/ T2!Elsewhere

\* Timer 2 as its abstract timer sees it.
Elsewhere2(v) == v.acr.countPB6 \/ v.countPB6Old \/ ShiftByTimer2(v)
LeftOf2(v) == IF Elsewhere2(v) THEN -2
              ELSE IF ~v.t2CountingDown \/ v.t2Triggered THEN -1
              ELSE IF v.t2Reload THEN T2First(v.t2c) ELSE T2First(v.t2c) - 1
Raised2(v) == "T2" \in v.ifr

LEMMA T2FirstType ==
  ASSUME NEW n \in Word
  PROVE  T2First(n) \in Int /\ T2First(n) > 1 /\ (n = 1 <=> T2First(n) = 2)
         /\ T2First(Down(n)) = (IF Down(n) = 0 THEN Base * Base + 1 ELSE T2First(n) - 1)
<1>1. Base * Base \in Nat /\ Base * Base > 2 /\ n \in Int /\ n >= 0
  BY BaseType DEF Word
<1>2. Down(n) = IF n = 0 THEN Base * Base - 1 ELSE n - 1
  BY DownWord
<1> DEFINE m == Base * Base
<1> HIDE DEF m
<1> QED BY <1>1, <1>2 DEF T2First, m

LEMMA CycleTicks2 ==
  ASSUME NEW v \in ViaRecords, NEW w \in ViaRecords, ~Elsewhere2(v), ~Elsewhere2(w),
         Ticked2(v, w), w.t2CountingDown = v.t2CountingDown
  PROVE  \/ LeftOf2(v) > 1 /\ LeftOf2(w) = LeftOf2(v) - 1
            /\ w.t2Triggered = v.t2Triggered /\ Raised2(w) = Raised2(v)
         \/ LeftOf2(v) = 1 /\ LeftOf2(w) = -1
            /\ Raised2(w) = (Raised2(v) \/ ~v.t2Triggered) /\ w.t2Triggered
         \/ LeftOf2(v) = -1 /\ LeftOf2(w) = -1
            /\ w.t2Triggered = v.t2Triggered /\ Raised2(w) = Raised2(v)
<1>1. /\ v.t2c \in Word /\ v.t2Triggered \in BOOLEAN /\ w.t2Triggered \in BOOLEAN
  BY FieldTypes
<1>2. Raised2(v) \in BOOLEAN /\ Raised2(w) \in BOOLEAN
  BY DEF Raised2
<1>3. CASE ~v.t2CountingDown \/ v.t2Triggered
  <2>1. w.t2Triggered = v.t2Triggered /\ (Raised2(w) <=> Raised2(v))
    BY <1>3, Zenon DEF Ticked2, Raised2
  <2>2. LeftOf2(v) = -1 /\ LeftOf2(w) = -1
    BY <1>3, <2>1 DEF LeftOf2
  <2> QED BY <1>2, <2>1, <2>2
<1>4. CASE v.t2CountingDown /\ ~v.t2Triggered /\ v.t2Reload
  <2>1. /\ ~w.t2Reload /\ w.t2c = v.t2c /\ ~w.t2Triggered
        /\ Raised2(w) <=> Raised2(v)
    BY <1>4, Zenon DEF Ticked2, Raised2
  <2>2. LeftOf2(v) = T2First(v.t2c) /\ LeftOf2(w) = T2First(v.t2c) - 1
    BY <1>4, <2>1 DEF LeftOf2
  <2>3. LeftOf2(v) > 1 /\ LeftOf2(w) = LeftOf2(v) - 1
    BY <1>1, <2>2, T2FirstType
  <2> QED BY <1>1, <1>2, <1>4, <2>1, <2>3
<1>5. CASE v.t2CountingDown /\ ~v.t2Triggered /\ ~v.t2Reload
  <2>1. /\ w.t2c = Down(v.t2c) /\ ~w.t2Reload
        /\ w.t2Triggered <=> Down(v.t2c) = 0
        /\ Raised2(w) <=> Raised2(v) \/ Down(v.t2c) = 0
    BY <1>5, Zenon DEF Ticked2, Raised2
  <2>2. LeftOf2(v) = T2First(v.t2c) - 1
    BY <1>5 DEF LeftOf2
  <2>3. /\ T2First(v.t2c) \in Int /\ T2First(v.t2c) > 1
        /\ v.t2c = 1 <=> T2First(v.t2c) = 2
        /\ T2First(Down(v.t2c)) =
             (IF Down(v.t2c) = 0 THEN Base * Base + 1 ELSE T2First(v.t2c) - 1)
    BY <1>1, T2FirstType
  <2>4. Down(v.t2c) = 0 <=> v.t2c = 1
    <3>1. /\ Down(v.t2c) = IF v.t2c = 0 THEN Base * Base - 1 ELSE v.t2c - 1
          /\ v.t2c \in Int /\ Base * Base \in Int /\ Base * Base > 2
      BY <1>1, DownWord, BaseType DEF Word
    <3> DEFINE m == Base * Base
    <3> HIDE DEF m
    <3> QED BY <3>1 DEF m
  <2>5. CASE Down(v.t2c) = 0
    <3>1. LeftOf2(v) = 1
      BY <2>2, <2>3, <2>4, <2>5
    <3>2. LeftOf2(w) = -1 /\ w.t2Triggered /\ Raised2(w)
      BY <2>1, <2>5 DEF LeftOf2
    <3> QED BY <1>2, <1>5, <3>1, <3>2
  <2>6. CASE Down(v.t2c) # 0
    <3>1. LeftOf2(v) > 1
      BY <2>2, <2>3, <2>4, <2>6
    <3>2. ~w.t2Triggered /\ (Raised2(w) <=> Raised2(v))
      BY <2>1, <2>6
    <3>3. LeftOf2(w) = T2First(Down(v.t2c)) - 1
      BY <1>5, <2>1, <3>2 DEF LeftOf2
    <3>4. LeftOf2(w) = LeftOf2(v) - 1
      BY <2>2, <2>3, <2>6, <3>3
    <3> QED BY <1>1, <1>2, <1>5, <3>1, <3>2, <3>4
  <2> QED BY <2>5, <2>6
<1> QED BY <1>3, <1>4, <1>5

LEMMA Timer2Step ==
  ASSUME BoardInv, TimersInv, StepDone
  PROVE  [T2Step]_(T2!timerVars)
<1> DEFINE v == VIA[0]
           w == VIA'[0]
<1>1. v \in ViaRecords /\ w \in ViaRecords
  BY DEF StepDone, BoardInv, ChipsInv, Vias
<1>2. T2Left = LeftOf2(v) /\ T2Left' = LeftOf2(w)
  BY DEF T2Left, LeftOf2, One, T2Elsewhere, Elsewhere2
<1>3. w.t2c \in Nat
  BY <1>1, FieldTypes, BaseType DEF Word
<1>4. /\ v.t2Triggered \in BOOLEAN /\ w.t2Triggered \in BOOLEAN
      /\ v.countPB6Old \in BOOLEAN /\ w.countPB6Old \in BOOLEAN
      /\ v.acr.countPB6 \in BOOLEAN /\ w.acr.countPB6 \in BOOLEAN
  BY <1>1, FieldTypes
<1>5. CASE w = v
  BY <1>2, <1>5, Zenon DEF T2!timerVars, One
<1>6. CASE Adjusted2(v, w)
  <2>1. LeftOf2(w) = LeftOf2(v) /\ (Raised2(w) => Raised2(v)) /\ w.t2Triggered = v.t2Triggered
    BY <1>6, Zenon DEF Adjusted2, LeftOf2, Elsewhere2, ShiftByTimer2, Raised2
  <2>2. T2!Adjust
    BY <1>2, <1>3, <2>1, Zenon DEF T2!Adjust, One, Raised2
  <2> QED BY <2>2 DEF T2Step
<1>7. ASSUME Elsewhere2(v) PROVE T2Step
  <2>1. LeftOf2(v) = -2
    BY <1>7 DEF LeftOf2
  <2>2. T2!Elsewhere
    BY <1>2, <2>1, Zenon DEF T2!Elsewhere, T2!Free
  <2> QED BY <2>2 DEF T2Step
<1>8. CASE Loaded2(v, w) /\ ~Elsewhere2(v)
  <2>1. ~Elsewhere2(w)
    BY <1>8, Zenon DEF Loaded2, Elsewhere2, ShiftByTimer2
  <2>2. LeftOf2(w) = T2First(w.t2c)
    BY <1>8, <2>1 DEF Loaded2, LeftOf2
  <2>3. ~w.t2Triggered /\ ~Raised2(w)
    BY <1>8, Zenon DEF Loaded2, Raised2
  <2>4. T2!Load
    BY <1>2, <2>2, <2>3 DEF T2!Load, One, Raised2
  <2> QED BY <2>4 DEF T2Step
<1>9. CASE Switched(v, w) /\ ~Elsewhere2(v)
  <2>1. Raised2(w) = Raised2(v) /\ w.t2Triggered = v.t2Triggered /\ w.t2c = v.t2c
    BY <1>9, Zenon DEF Switched, Raised2
  <2>2. CASE Elsewhere2(w)
    <3>1. LeftOf2(w) = -2
      BY <2>2 DEF LeftOf2
    <3>2. T2!Elsewhere
      BY <1>2, <2>1, <3>1, Zenon DEF T2!Elsewhere, T2!Free, One, Raised2
    <3> QED BY <3>2 DEF T2Step
  <2>3. CASE ~Elsewhere2(w)
    <3>1. LeftOf2(w) = LeftOf2(v)
      BY <1>9, <2>3, Zenon DEF Switched, LeftOf2
    <3> QED BY <1>2, <2>1, <3>1, Zenon DEF T2!timerVars, One, Raised2
  <2> QED BY <2>2, <2>3
<1>10. CASE CycleEffect(v, w) /\ ~Elsewhere2(v)
  <2>1. CountsCycles(v) /\ Told2(v)
    BY <1>10 DEF Elsewhere2, CountsCycles, TimersInv
  <2>2. Ticked2(v, w) /\ w.t2CountingDown = v.t2CountingDown
    BY <1>10, <2>1 DEF CycleEffect
  <2>3. ~Elsewhere2(w)
    <3>1. w.acr = v.acr /\ w.countPB6Old = v.acr.countPB6
      BY <1>10, Zenon DEF CycleEffect, Ticked1
    <3> QED BY <1>10, <3>1, Zenon DEF Elsewhere2, ShiftByTimer2
  <2>4. \/ LeftOf2(v) > 1 /\ LeftOf2(w) = LeftOf2(v) - 1
           /\ w.t2Triggered = v.t2Triggered /\ Raised2(w) = Raised2(v)
        \/ LeftOf2(v) = 1 /\ LeftOf2(w) = -1
           /\ Raised2(w) = (Raised2(v) \/ ~v.t2Triggered) /\ w.t2Triggered
        \/ LeftOf2(v) = -1 /\ LeftOf2(w) = -1
           /\ w.t2Triggered = v.t2Triggered /\ Raised2(w) = Raised2(v)
    BY <1>1, <1>10, <2>2, <2>3, CycleTicks2
  <2>5. CASE LeftOf2(v) > 1 /\ LeftOf2(w) = LeftOf2(v) - 1
             /\ w.t2Triggered = v.t2Triggered /\ Raised2(w) = Raised2(v)
    <3>1. T2!Count
      BY <1>2, <2>5, Zenon DEF T2!Count, One, Raised2
    <3> QED BY <3>1, Zenon DEF T2Step, T2!Tick
  <2>6. CASE LeftOf2(v) = 1 /\ LeftOf2(w) = -1
             /\ Raised2(w) = (Raised2(v) \/ ~v.t2Triggered) /\ w.t2Triggered
    <3>1. T2!TimeOut
      <4>1. (~w.t2Triggered) = (~v.t2Triggered /\ FALSE)
        BY <2>6
      <4> QED BY <1>2, <2>6, <4>1, Zenon DEF T2!TimeOut, T2!Idle, One, Raised2
    <3> QED BY <3>1, Zenon DEF T2Step, T2!Tick
  <2>7. CASE LeftOf2(v) = -1 /\ LeftOf2(w) = -1
             /\ w.t2Triggered = v.t2Triggered /\ Raised2(w) = Raised2(v)
    <3>1. T2!Rest
      BY <1>2, <2>7, Zenon DEF T2!Rest, T2!Idle, One, Raised2
    <3> QED BY <3>1, Zenon DEF T2Step, T2!Tick
  <2> QED BY <2>4, <2>5, <2>6, <2>7
<1>11. w = v \/ Adjusted2(v, w) \/ Loaded2(v, w) \/ Switched(v, w) \/ CycleEffect(v, w)
  BY DEF StepDone, Effect
<1> QED BY <1>5, <1>6, <1>7, <1>8, <1>9, <1>10, <1>11

LEMMA TimersInitial == Init => T1!TimerInit /\ T2!TimerInit
<1> SUFFICES ASSUME Init PROVE T1!TimerInit /\ T2!TimerInit
  OBVIOUS
<1>1. One = Reset
  BY DEF Init, Vias, One
<1>2. Base * Base - 1 \in Nat
  BY BaseType
<1>3. T1!TimerInit
  BY <1>1, <1>2 DEF T1!TimerInit, T1!Idle, T1Left, Reset
<1>4. T2!TimerInit
  BY <1>1, <1>2 DEF T2!TimerInit, T2!Idle, T2Left, T2Elsewhere, ShiftByTimer2, Reset
<1> QED BY <1>3, <1>4

\* Both timers of VIA 0 keep what an interval timer promises, whatever the program
\* does with the registers: loaded with n, timer 1 interrupts n + 2 cycles later and
\* again each time its latch has been counted when it runs free; timer 2 interrupts
\* once.  No other step lets a count run differently or raises a flag.
THEOREM TimersAreIntervalTimers == Spec => TimersKeepPromise
<1>1. Init => T1!TimerInit /\ T2!TimerInit /\ BoardInv /\ TimersInv
  BY TimersInitial, BoardInit, TimersInit
<1>2. BoardInv /\ TimersInv /\ [Next]_vars => (BoardInv /\ TimersInv)'
  BY EveryStepDone, BoardStep, TimersStep, Zenon
<1>3. BoardInv /\ TimersInv /\ [Next]_vars => [T1Step]_(T1!timerVars) /\ [T2Step]_(T2!timerVars)
  BY EveryStepDone, Timer1Step, Timer2Step, Zenon
<1>4. [][T1Step]_(T1!timerVars) /\ T1!TimerInit => T1!TimerSpec
  BY PTL DEF T1!TimerSpec, T1Step
<1>5. [][T2Step]_(T2!timerVars) /\ T2!TimerInit => T2!TimerSpec
  BY PTL DEF T2!TimerSpec, T2Step
<1> QED BY <1>1, <1>2, <1>3, <1>4, <1>5, PTL DEF Spec, TimersKeepPromise

-----------------------------------------------------------------------------
(* The drive, and the types of the board *)

Shifts  == {s \in Seq(Bit) : Len(s) = SyncBits}
Cycled  == 0 .. 4 * UE7Count - 1
Counts7 == 0 .. UE7Count - 1
Counts4 == 0 .. 15
Counts3 == 0 .. ByteBits
Noises  == 1 .. 25 * UE7Count
Caches  == [track : Int, byte : Int, bits : Bytes]
Disks   == [Images -> [Tracks -> Seq(Bit)]]
Saves   == SUBSET (Images \X Tracks)
Swaps   == 0 .. Swap
DriveRecords ==
  [headTrackPos : Tracks, headBitOffset : Nat, lastHeadDirection : Steps,
   CLOCK_SEL_AB : Zones, motor : BOOLEAN, SO : BOOLEAN,
   cyclesForBit : Cycled, UE7 : Counts7, UF4 : Counts4, UE3 : Counts3, noise : Noises,
   readShift : Shifts, writeShift : Bytes, cached : Caches,
   image : Images, tracks : Disks, dirty : Saves, swap : Swaps,
   PB4 : BOOLEAN, PB7 : BOOLEAN, PA : Bytes,
   writing : BOOLEAN, soe : BOOLEAN, out : Bytes]

\* A drive with the tracks of its disks as long as they were loaded, its head over one
\* of them, and a byte that is complete never there when UF4 has come to a second
\* pulse: it was latched at the first.
Whole(d) ==
  /\ d \in DriveRecords
  /\ \A i \in Images, t \in Tracks : Len(d.tracks[i][t]) = Len(Content[i][t])
  /\ d.headBitOffset < Length(d)
Shaped(d) ==
  /\ Whole(d)
  /\ d.UE3 = ByteBits => d.UF4 % 4 # 1

LEMMA Sizes ==
  /\ ByteBits \in Nat /\ ByteBits > 2 /\ SyncBits \in Nat /\ SyncBits > ByteBits
  /\ UE7Count \in Nat /\ UE7Count > 0 /\ Fastest \in Nat /\ Fastest < UE7Count
  /\ 2 * Fastest <= UE7Count
BY DriveAssumption DEF Fastest

\* What is under the head.
LEMMA TrackType ==
  ASSUME NEW d \in DriveRecords,
         \A i \in Images, t \in Tracks : Len(d.tracks[i][t]) = Len(Content[i][t])
  PROVE  /\ Track(d) \in Seq(Bit) /\ Length(d) \in Nat /\ Length(d) > ByteBits
         /\ Length(d) % ByteBits = 0
         /\ CyclesPerBit(d) \in 1 .. 4 * UE7Count
<1>1. d.image \in Images /\ d.headTrackPos \in Tracks
      /\ d.tracks \in [Images -> [Tracks -> Seq(Bit)]]
  BY DEF DriveRecords, Disks
<1>2. Track(d) \in Seq(Bit) /\ Len(Track(d)) = Len(Content[d.image][d.headTrackPos])
  BY <1>1 DEF Track
<1> DEFINE len == Len(Content[d.image][d.headTrackPos])
<1>3. len > ByteBits /\ len % ByteBits = 0 /\ Rotation % len = 0
      /\ Rotation \div len <= 4 * UE7Count
  BY <1>1, DriveAssumption
<1>4. len \in Nat /\ len > 0 /\ Length(d) = len
  BY <1>2, <1>3, Sizes DEF Length
<1> HIDE DEF len
<1>5. Rotation \in Nat \ {0}
  BY DriveAssumption
<1>6. Rotation \div len \in Nat /\ Rotation \div len >= 1
  <2> DEFINE c == Rotation \div len
  <2>1. c \in Int /\ c * len = Rotation /\ c >= 0
    BY <1>3, <1>4, <1>5
  <2>2. c # 0
    BY <1>4, <1>5, <2>1
  <2>3. QED
    BY <2>1, <2>2
<1>7. CyclesPerBit(d) = Rotation \div len
  BY <1>4 DEF CyclesPerBit
<1>8. QED
  BY <1>2, <1>3, <1>4, <1>6, <1>7, Sizes

\* A bit more at the end of a register pushes the first one out.
LEMMA ShiftedIs ==
  ASSUME NEW s \in Seq(Bit), s # <<>>, NEW bit \in Bit
  PROVE  /\ Shifted(s, bit) \in Seq(Bit) /\ Len(Shifted(s, bit)) = Len(s)
         /\ Shifted(s, bit)[Len(s)] = bit
         /\ \A i \in 1 .. Len(s) - 1 : Shifted(s, bit)[i] = s[i + 1]
<1>1. /\ Tail(s) \in Seq(Bit) /\ Len(Tail(s)) = Len(s) - 1
      /\ \A i \in 1 .. Len(s) - 1 : Tail(s)[i] = s[i + 1]
  BY HeadTailProperties
<1>2. Len(s) \in Nat
  OBVIOUS
<1> DEFINE t == Tail(s)
           n == Len(s)
<1> HIDE DEF t, n
<1>3. t \in Seq(Bit) /\ Len(t) = n - 1 /\ n \in Nat
  BY <1>1, <1>2 DEF t, n
<1>4. /\ Append(t, bit) \in Seq(Bit) /\ Len(Append(t, bit)) = n
      /\ Append(t, bit)[n] = bit
      /\ \A i \in 1 .. n - 1 : Append(t, bit)[i] = t[i]
  BY <1>3
<1>5. QED
  BY <1>1, <1>4 DEF Shifted, t, n

\* A byte is a sequence of its bits.
LEMMA BytesAre ==
  ASSUME NEW b
  PROVE  b \in Bytes <=> b \in Seq(Bit) /\ Len(b) = ByteBits
BY Sizes DEF Bytes

\* The byte at a place of a track.
LEMMA ByteAtIs ==
  ASSUME NEW track \in Seq(Bit), NEW n \in Nat, (n + 1) * ByteBits <= Len(track)
  PROVE  /\ ByteAt(track, n) \in Bytes
         /\ \A i \in 1 .. ByteBits : ByteAt(track, n)[i] = track[n * ByteBits + i]
<1> DEFINE a == n * ByteBits
<1>1. a \in Nat /\ (n + 1) * ByteBits = a + ByteBits
  BY Sizes
<1>2. ByteAt(track, n) = SubSeq(track, a + 1, a + ByteBits)
  BY <1>1 DEF ByteAt
<1> HIDE DEF a
<1>3. \A i \in a + 1 .. a + ByteBits : track[i] \in Bit
  BY <1>1, Sizes
<1> DEFINE s == SubSeq(track, a + 1, a + ByteBits)
<1>4. /\ s \in Seq(Bit)
      /\ Len(s) = IF a + 1 <= a + ByteBits THEN (a + ByteBits) - (a + 1) + 1 ELSE 0
      /\ \A i \in 1 .. (a + ByteBits) - (a + 1) + 1 : s[i] = track[(a + 1) + i - 1]
  BY <1>1, <1>3, Sizes, SubSeqProperties
<1> HIDE DEF s
<1>5. Len(s) = ByteBits
  BY <1>1, <1>4, Sizes
<1>6. \A i \in 1 .. ByteBits : s[i] = track[a + i]
  BY <1>1, <1>4, Sizes
<1>7. QED
  BY <1>2, <1>4, <1>5, <1>6, BytesAre DEF a, s

\* The bits that make a byte of the register that reads.
LEMMA InReadIs ==
  ASSUME NEW d \in DriveRecords
  PROVE  /\ InRead(d) \in Bytes
         /\ \A i \in 1 .. ByteBits : InRead(d)[i] = d.readShift[SyncBits - ByteBits + i]
<1>1. d.readShift \in Seq(Bit) /\ Len(d.readShift) = SyncBits
  BY DEF DriveRecords, Shifts
<1> DEFINE r == d.readShift
           a == SyncBits - ByteBits + 1
           s == SubSeq(r, a, SyncBits)
<1> HIDE DEF r
<1>2. a \in Nat /\ a >= 1 /\ SyncBits \in Nat /\ SyncBits - a + 1 = ByteBits
  BY Sizes
<1>3. \A i \in a .. SyncBits : r[i] \in Bit
  BY <1>1, <1>2 DEF r
<1>4. InRead(d) = s
  BY DEF InRead, r
<1>5. /\ s \in Seq(Bit) /\ Len(s) = IF a <= SyncBits THEN SyncBits - a + 1 ELSE 0
      /\ \A i \in 1 .. SyncBits - a + 1 : s[i] = r[a + i - 1]
  <2> HIDE DEF a
  <2> QED BY <1>2, <1>3, SubSeqProperties
<1> HIDE DEF s
<1>6. Len(s) = ByteBits
  BY <1>2, <1>5, Sizes
<1>7. \A i \in 1 .. ByteBits : s[i] = r[SyncBits - ByteBits + i]
  BY <1>2, <1>5, Sizes
<1>8. QED
  BY <1>4, <1>5, <1>6, <1>7, BytesAre DEF r
-----------------------------------------------------------------------------
(* What a cycle makes of the drive *)

LEMMA Division ==
  ASSUME NEW b \in Nat, b > 0, NEW n \in Nat
  PROVE  /\ n \div b \in Nat /\ n % b \in 0 .. b - 1 /\ n = ((n \div b) * b) + (n % b)
OBVIOUS

LEMMA Products ==
  ASSUME NEW b \in Nat, NEW m \in Nat, NEW k \in Nat, m >= k
  PROVE  m * b >= k * b
<1>1. PICK j \in Nat : m = k + j
  <2>1. m - k \in Nat /\ m = k + (m - k)
    OBVIOUS
  <2>2. QED
    BY <2>1
<1>2. m * b = (k * b) + (j * b) /\ j * b \in Nat /\ k * b \in Nat
  BY <1>1
<1>3. QED
  BY <1>2

\* The head over the next bit.
LEMMA AdvancedIs ==
  ASSUME NEW d, Shaped(d)
  PROVE  /\ Advanced(d) \in 0 .. Length(d) - 1 /\ Advanced(d) # d.headBitOffset
         /\ Advanced(d) = IF d.headBitOffset = Length(d) - 1 THEN 0 ELSE d.headBitOffset + 1
         /\ Advanced(d) \div ByteBits \in Nat
         /\ ((Advanced(d) \div ByteBits) + 1) * ByteBits <= Length(d)
         /\ Advanced(d) = ((Advanced(d) \div ByteBits) * ByteBits) + (Advanced(d) % ByteBits)
         /\ Advanced(d) % ByteBits \in 0 .. ByteBits - 1
<1> DEFINE len == Length(d)
           at == d.headBitOffset
<1>1. len \in Nat /\ len > ByteBits /\ len % ByteBits = 0
  BY TrackType DEF Shaped, Whole
<1>2. at \in Nat /\ at < len
  BY DEF Shaped, Whole, DriveRecords
<1>3. Advanced(d) = (at + 1) % len
  BY DEF Advanced
<1> HIDE DEF len, at
<1>4. (at + 1) % len = IF at = len - 1 THEN 0 ELSE at + 1
  BY <1>1, <1>2, Sizes
<1> DEFINE n == (at + 1) % len
           m == n \div ByteBits
           k == len \div ByteBits
<1>5. n \in 0 .. len - 1 /\ n # at
  BY <1>1, <1>2, <1>4, Sizes
<1> HIDE DEF n
<1>6. /\ m \in Nat /\ n % ByteBits \in 0 .. ByteBits - 1
      /\ n = (m * ByteBits) + (n % ByteBits)
  <2>1. n \in Nat /\ ByteBits > 0
    BY <1>1, <1>5, Sizes
  <2>2. QED
    BY <2>1, Sizes, Division
<1>7. k \in Nat /\ len = k * ByteBits
  <2>1. len \in Nat /\ ByteBits > 0
    BY <1>1, Sizes
  <2>2. k \in Nat /\ len = (k * ByteBits) + (len % ByteBits)
    BY <2>1, Sizes, Division
  <2>3. QED
    BY <1>1, <2>2, Sizes
<1> HIDE DEF m, k
<1>8. m < k
  <2>1. SUFFICES ASSUME m >= k PROVE FALSE
    BY <1>6, <1>7
  <2>2. m * ByteBits >= k * ByteBits
    BY <1>6, <1>7, <2>1, Sizes, Products
  <2> DEFINE x == m * ByteBits
             r == n % ByteBits
  <2>3. x \in Int /\ r \in Int /\ r >= 0 /\ n = x + r /\ x >= len
    BY <1>6, <1>7, <2>2, Sizes
  <2> HIDE DEF x, r
  <2>4. QED
    BY <1>1, <1>5, <2>3
<1>9. (m + 1) * ByteBits <= k * ByteBits
  <2>1. m + 1 \in Nat /\ k >= m + 1
    BY <1>6, <1>7, <1>8
  <2>2. k * ByteBits >= (m + 1) * ByteBits
    BY <1>7, <2>1, Sizes, Products
  <2>3. (m + 1) * ByteBits \in Int /\ k * ByteBits \in Int
    BY <1>7, <2>1, Sizes
  <2>4. QED
    BY <2>2, <2>3
<1>10. QED
  BY <1>3, <1>4, <1>5, <1>6, <1>7, <1>9 DEF n, m, len, at

\* A bit is fetched with its byte.
LEMMA FetchedIs ==
  ASSUME NEW d, Shaped(d)
  PROVE  /\ Shaped(Fetched(d)) /\ BitRead(Fetched(d)) \in Bit
         /\ \E bits \in Bytes :
              /\ bits = IF IsCached(d, Advanced(d) \div ByteBits) THEN d.cached.bits
                        ELSE ByteAt(Track(d), Advanced(d) \div ByteBits)
              /\ Fetched(d) = [d EXCEPT !.headBitOffset = Advanced(d),
                    !.cached = [track |-> d.headTrackPos,
                                byte |-> Advanced(d) \div ByteBits, bits |-> bits]]
<1> DEFINE n == Advanced(d) \div ByteBits
           bits == IF IsCached(d, n) THEN d.cached.bits ELSE ByteAt(Track(d), n)
           e == [d EXCEPT !.headBitOffset = Advanced(d),
                    !.cached = [track |-> d.headTrackPos, byte |-> n, bits |-> bits]]
<1>1. Fetched(d) = e
  BY DEF Fetched
<1>2. n \in Nat /\ (n + 1) * ByteBits <= Length(d) /\ Advanced(d) \in 0 .. Length(d) - 1
      /\ Advanced(d) % ByteBits \in 0 .. ByteBits - 1 /\ Advanced(d) \in Nat
  BY AdvancedIs
<1>3. d \in DriveRecords /\ Track(d) \in Seq(Bit) /\ Length(d) \in Nat
  BY TrackType DEF Shaped, Whole
<1>4. bits \in Bytes
  <2>1. ByteAt(Track(d), n) \in Bytes
    BY <1>2, <1>3, ByteAtIs DEF Length
  <2>2. d.cached.bits \in Bytes
    BY <1>3 DEF DriveRecords, Caches
  <2>3. QED
    BY <2>1, <2>2
<1> HIDE DEF n, bits
<1>5. e \in DriveRecords
  <2>1. d.headTrackPos \in Int
    BY <1>3 DEF DriveRecords, Tracks
  <2>2. QED
    <3>1. [track |-> d.headTrackPos, byte |-> n, bits |-> bits] \in Caches
      BY <1>2, <1>4, <2>1 DEF Caches
    <3>2. QED
      BY <1>2, <1>3, <3>1 DEF DriveRecords
<1>6. /\ e.tracks = d.tracks /\ e.image = d.image /\ e.headTrackPos = d.headTrackPos
      /\ e.UE3 = d.UE3 /\ e.UF4 = d.UF4 /\ e.headBitOffset = Advanced(d)
      /\ e.cached.bits = bits
  BY <1>3 DEF DriveRecords
<1>7. Shaped(e)
  <2>1. Length(e) = Length(d)
    BY <1>6 DEF Length, Track
  <2> HIDE DEF e
  <2>2. QED
    BY <1>2, <1>3, <1>5, <1>6, <2>1 DEF Shaped, Whole
<1>8. BitRead(e) \in Bit
  <2> HIDE DEF e
  <2>1. BitRead(e) = bits[(Advanced(d) % ByteBits) + 1]
    BY <1>6 DEF BitRead
  <2>2. (Advanced(d) % ByteBits) + 1 \in 1 .. ByteBits
    BY <1>2, Sizes
  <2>3. QED
    BY <1>4, <2>1, <2>2 DEF Bytes
<1>9. QED
  BY <1>1, <1>4, <1>7, <1>8 DEF bits, n

\* What a change of the other fields keeps.
LEMMA ShapedStays ==
  ASSUME NEW d, Shaped(d), NEW e \in DriveRecords,
         e.tracks = d.tracks, e.image = d.image, e.headTrackPos = d.headTrackPos,
         e.headBitOffset = d.headBitOffset, e.UE3 = ByteBits => e.UF4 % 4 # 1
  PROVE  Shaped(e) /\ Track(e) = Track(d) /\ Length(e) = Length(d)
                   /\ CyclesPerBit(e) = CyclesPerBit(d) /\ Advanced(e) = Advanced(d)
BY DEF Shaped, Whole, Length, Track, CyclesPerBit, Advanced

LEMMA WholeStays ==
  ASSUME NEW d, Whole(d), NEW e \in DriveRecords,
         e.tracks = d.tracks, e.image = d.image, e.headTrackPos = d.headTrackPos,
         e.headBitOffset = d.headBitOffset
  PROVE  Whole(e) /\ Length(e) = Length(d)
BY DEF Whole, Length, Track

\* A flux reversal starts the counters again.
LEMMA ResetIs ==
  ASSUME NEW d, Shaped(d), NEW noise \in Noises
  PROVE  /\ Shaped(ResetEncoderDecoder(d, noise))
         /\ ResetEncoderDecoder(d, noise) =
              [d EXCEPT !.UE7 = d.CLOCK_SEL_AB, !.UF4 = 0, !.noise = noise]
<1> DEFINE e == [d EXCEPT !.UE7 = d.CLOCK_SEL_AB, !.UF4 = 0, !.noise = noise]
<1>1. d \in DriveRecords /\ d.CLOCK_SEL_AB \in 0 .. UE7Count - 1
  BY Sizes DEF Shaped, Whole, DriveRecords, Zones
<1>2. e \in DriveRecords
  <2>1. d.CLOCK_SEL_AB \in Counts7 /\ 0 \in Counts4
    BY <1>1 DEF Counts7, Counts4
  <2>2. QED
    BY <1>1, <2>1 DEF DriveRecords
<1>3. /\ e.tracks = d.tracks /\ e.image = d.image /\ e.headTrackPos = d.headTrackPos
      /\ e.headBitOffset = d.headBitOffset /\ e.UF4 = 0
  BY <1>1 DEF DriveRecords
<1> HIDE DEF e
<1>4. Shaped(e)
  BY <1>2, <1>3, ShapedStays
<1>5. QED
  BY <1>4 DEF ResetEncoderDecoder, e

\* What no cycle changes, and what the disk and the amplifier do not.
Mounted(d, e) ==
  /\ e.headTrackPos = d.headTrackPos /\ e.lastHeadDirection = d.lastHeadDirection
  /\ e.CLOCK_SEL_AB = d.CLOCK_SEL_AB /\ e.motor = d.motor /\ e.image = d.image
  /\ e.swap = d.swap /\ e.PB4 = d.PB4 /\ e.writing = d.writing /\ e.soe = d.soe
  /\ e.out = d.out
Turns(d, e) ==
  /\ Mounted(d, e) /\ e.tracks = d.tracks /\ e.dirty = d.dirty /\ e.SO = d.SO
  /\ e.UE3 = d.UE3 /\ e.readShift = d.readShift /\ e.writeShift = d.writeShift
  /\ e.PB7 = d.PB7 /\ e.PA = d.PA

LEMMA NoiseType == FirstNoise \subseteq Noises /\ LaterNoise \subseteq Noises
<1>1. UE7Count \in Nat /\ UE7Count > 0
  BY Sizes
<1>2. \A n \in Nat : n > 16 * UE7Count /\ n <= 25 * UE7Count => n \in 1 .. 25 * UE7Count
  BY <1>1
<1>3. \A n \in Nat : n >= 2 * UE7Count /\ n <= 25 * UE7Count => n \in 1 .. 25 * UE7Count
  BY <1>1
<1>4. QED
  BY <1>2, <1>3, DriveAssumption DEF Noises

LEMMA ResetTurns ==
  ASSUME NEW d, Shaped(d), NEW noise \in Noises
  PROVE  LET e == ResetEncoderDecoder(d, noise)
         IN  /\ Shaped(e) /\ Turns(d, e) /\ e.headBitOffset = d.headBitOffset
             /\ e.cyclesForBit = d.cyclesForBit /\ e.cached = d.cached
             /\ e.UE7 = d.CLOCK_SEL_AB /\ e.UF4 = 0 /\ e.noise = noise
<1>1. d \in DriveRecords
  BY DEF Shaped, Whole
<1> DEFINE e == [d EXCEPT !.UE7 = d.CLOCK_SEL_AB, !.UF4 = 0, !.noise = noise]
<1>2. /\ Turns(d, e) /\ e.headBitOffset = d.headBitOffset
      /\ e.cyclesForBit = d.cyclesForBit /\ e.cached = d.cached
      /\ e.UE7 = d.CLOCK_SEL_AB /\ e.UF4 = 0 /\ e.noise = noise
  BY <1>1 DEF Turns, Mounted, DriveRecords
<1>3. noise \in 1 .. 25 * UE7Count
  BY DEF Noises
<1>4. ResetEncoderDecoder(d, noise) = e /\ Shaped(ResetEncoderDecoder(d, noise))
  BY <1>3, ResetIs
<1> HIDE DEF e
<1>5. QED
  BY <1>2, <1>4

\* A cycle of the disk within a bit, and one that brings the next bit.
Within(d) == d.cyclesForBit + 1 < CyclesPerBit(d)
LEMMA TurnedQuietly ==
  ASSUME NEW d, Shaped(d), NEW first \in Noises, Within(d)
  PROVE  LET e == Turned(d, first)
         IN  /\ Shaped(e) /\ Turns(d, e) /\ e.headBitOffset = d.headBitOffset
             /\ e.cyclesForBit = d.cyclesForBit + 1 /\ e.cached = d.cached
             /\ e.UE7 = d.UE7 /\ e.UF4 = d.UF4 /\ e.noise = d.noise
<1> DEFINE e == [d EXCEPT !.cyclesForBit = @ + 1]
<1>1. d \in DriveRecords /\ CyclesPerBit(d) \in 1 .. 4 * UE7Count
  BY TrackType DEF Shaped, Whole
<1>2. d.cyclesForBit \in 0 .. 4 * UE7Count - 1
  BY <1>1 DEF DriveRecords, Cycled
<1>3. d.cyclesForBit + 1 \in Cycled
  BY <1>1, <1>2, Sizes DEF Within, Cycled
<1>4. e \in DriveRecords /\ e.cyclesForBit = d.cyclesForBit + 1
  BY <1>1, <1>3 DEF DriveRecords
<1>5. Turned(d, first) = e
  BY <1>4 DEF Turned, Within
<1>6. /\ Turns(d, e) /\ e.headBitOffset = d.headBitOffset /\ e.cached = d.cached
      /\ e.UE7 = d.UE7 /\ e.UF4 = d.UF4 /\ e.noise = d.noise
  BY <1>1 DEF Turns, Mounted, DriveRecords
<1> HIDE DEF e
<1>7. Shaped(e)
  BY <1>4, <1>6, ShapedStays DEF Turns, Mounted, Shaped, Whole
<1>8. QED
  BY <1>4, <1>5, <1>6, <1>7

LEMMA TurnedOn ==
  ASSUME NEW d, Shaped(d), NEW first \in Noises, ~Within(d)
  PROVE  LET e == Turned(d, first)
             flux == BitRead(Fetched(d)) = 1
         IN  /\ Shaped(e) /\ Turns(d, e) /\ e.headBitOffset = Advanced(d)
             /\ e.cyclesForBit = d.cyclesForBit + 1 - CyclesPerBit(d)
             /\ e.cached = Fetched(d).cached
             /\ e.UE7 = IF flux THEN d.CLOCK_SEL_AB ELSE d.UE7
             /\ e.UF4 = IF flux THEN 0 ELSE d.UF4
             /\ e.noise = IF flux THEN first ELSE d.noise
<1> DEFINE f == Fetched(d)
           c == d.cyclesForBit + 1 - CyclesPerBit(d)
           e == [f EXCEPT !.cyclesForBit = c]
           passed1 == [d EXCEPT !.cyclesForBit = @ + 1]
<1>1. d \in DriveRecords /\ CyclesPerBit(d) \in 1 .. 4 * UE7Count
  BY TrackType DEF Shaped, Whole
<1>2. d.cyclesForBit \in 0 .. 4 * UE7Count - 1
  BY <1>1 DEF DriveRecords, Cycled
<1>3. c \in Cycled
  BY <1>1, <1>2, Sizes DEF Within, Cycled
<1>4. passed1.cyclesForBit = d.cyclesForBit + 1
  BY <1>1 DEF DriveRecords
<1>5. Turned(d, first) = IF BitRead(e) = 1 THEN ResetEncoderDecoder(e, first) ELSE e
  BY <1>4 DEF Turned, Within
<1> HIDE DEF c
<1>6. Shaped(f) /\ f \in DriveRecords
  <2>1. Shaped(f)
    BY FetchedIs
  <2> HIDE DEF f
  <2>2. QED
    BY <2>1 DEF Shaped, Whole
<1>7. PICK cache : f = [d EXCEPT !.headBitOffset = Advanced(d), !.cached = cache]
  BY FetchedIs
<1>8. /\ Turns(d, f) /\ f.headBitOffset = Advanced(d) /\ f.cyclesForBit = d.cyclesForBit
      /\ f.UE7 = d.UE7 /\ f.UF4 = d.UF4 /\ f.noise = d.noise
  BY <1>1, <1>7 DEF Turns, Mounted, DriveRecords
<1> HIDE DEF f
<1>9. e \in DriveRecords /\ e.cyclesForBit = c
  BY <1>3, <1>6 DEF DriveRecords
<1>10. /\ Turns(f, e) /\ e.headBitOffset = f.headBitOffset /\ e.cached = f.cached
       /\ e.UE7 = f.UE7 /\ e.UF4 = f.UF4 /\ e.noise = f.noise
  BY <1>6 DEF Turns, Mounted, DriveRecords
<1> HIDE DEF e
<1>11. Shaped(e)
  BY <1>6, <1>9, <1>10, ShapedStays DEF Turns, Mounted, Shaped, Whole
<1>12. Turns(d, e)
  BY <1>8, <1>10 DEF Turns, Mounted
<1>13. BitRead(e) = BitRead(f)
  BY <1>10 DEF BitRead
<1>14. CASE BitRead(f) = 1
  <2> DEFINE r == ResetEncoderDecoder(e, first)
  <2>1. /\ Shaped(r) /\ Turns(e, r) /\ r.headBitOffset = e.headBitOffset
        /\ r.cyclesForBit = e.cyclesForBit /\ r.cached = e.cached
        /\ r.UE7 = e.CLOCK_SEL_AB /\ r.UF4 = 0 /\ r.noise = first
    BY <1>11, ResetTurns
  <2>2. Turned(d, first) = r
    BY <1>5, <1>13, <1>14
  <2> HIDE DEF r
  <2>3. Turns(d, r) /\ e.CLOCK_SEL_AB = d.CLOCK_SEL_AB
    BY <1>12, <2>1 DEF Turns, Mounted
  <2>4. QED
    BY <1>8, <1>9, <1>10, <1>14, <2>1, <2>2, <2>3 DEF f, c
<1>15. CASE BitRead(f) # 1
  BY <1>5, <1>8, <1>9, <1>10, <1>11, <1>12, <1>13, <1>15 DEF f, c
<1>16. QED
  BY <1>14, <1>15

\* The amplifier hears the reversal, or waits for its own.
LEMMA HeardIs ==
  ASSUME NEW d, Shaped(d), NEW later \in Noises
  PROVE  LET e == Heard(d, later)
         IN  /\ Shaped(e) /\ Turns(d, e) /\ e.headBitOffset = d.headBitOffset
             /\ e.cyclesForBit = d.cyclesForBit /\ e.cached = d.cached
             /\ d.noise > 1 => e.UE7 = d.UE7 /\ e.UF4 = d.UF4 /\ e.noise = d.noise - 1
<1>1. d \in DriveRecords /\ d.noise \in 1 .. 25 * UE7Count
  BY DEF Shaped, Whole, DriveRecords, Noises
<1>2. CASE d.noise > 1
  <2> DEFINE e == [d EXCEPT !.noise = @ - 1]
  <2>1. Heard(d, later) = e
    BY <1>2 DEF Heard
  <2>2. d.noise - 1 \in Noises
    BY <1>1, <1>2, Sizes DEF Noises
  <2>3. e \in DriveRecords /\ e.noise = d.noise - 1
    BY <1>1, <2>2 DEF DriveRecords
  <2>4. /\ Turns(d, e) /\ e.headBitOffset = d.headBitOffset /\ e.cached = d.cached
        /\ e.UE7 = d.UE7 /\ e.UF4 = d.UF4 /\ e.cyclesForBit = d.cyclesForBit
    BY <1>1 DEF Turns, Mounted, DriveRecords
  <2> HIDE DEF e
  <2>5. Shaped(e)
    BY <2>3, <2>4, ShapedStays DEF Turns, Mounted, Shaped, Whole
  <2>6. QED
    BY <2>1, <2>3, <2>4, <2>5
<1>3. CASE ~(d.noise > 1)
  <2>1. Heard(d, later) = ResetEncoderDecoder(d, later)
    BY <1>3 DEF Heard
  <2> DEFINE r == ResetEncoderDecoder(d, later)
  <2>2. /\ Shaped(r) /\ Turns(d, r) /\ r.headBitOffset = d.headBitOffset
        /\ r.cyclesForBit = d.cyclesForBit /\ r.cached = d.cached
    BY ResetTurns
  <2>3. Heard(d, later) = r
    BY <2>1, Zenon
  <2> HIDE DEF r
  <2>4. QED
    BY <1>3, <2>2, <2>3
<1>4. QED
  BY <1>2, <1>3

-----------------------------------------------------------------------------
(* A pulse of UE7 *)

\* The fields that a shift and a latch leave.
Spins(d, e) ==
  /\ Mounted(d, e) /\ e.cyclesForBit = d.cyclesForBit /\ e.noise = d.noise
  /\ e.UF4 = d.UF4 /\ e.UE7 = d.UE7 /\ e.cached = d.cached

In(d)   == Shifted(d.readShift, IF d.UF4 = 2 THEN 1 ELSE 0)
Sync(d) == ~d.writing /\ In(d) = Ones

\* A bit is written: the next one of the track, and no other.
Writes(d, e, bit) ==
  /\ e.headBitOffset = Advanced(d)
  /\ Len(Track(e)) = Length(d) /\ Track(e)[Advanced(d) + 1] = bit
  /\ \A k \in 1 .. Length(d) : k # Advanced(d) + 1 => Track(e)[k] = Track(d)[k]
  /\ \A i \in Images, t \in Tracks :
       <<i, t>> # <<d.image, d.headTrackPos>> => e.tracks[i][t] = d.tracks[i][t]
  /\ d.dirty \subseteq e.dirty
  /\ Track(e) # Track(d) => <<d.image, d.headTrackPos>> \in e.dirty

WrittenTracks(d, bit) ==
  [d.tracks EXCEPT ![d.image][d.headTrackPos][Advanced(d) + 1] = bit]
TracksAre(d, tracks, track, at, bit) ==
  /\ tracks \in Disks /\ Len(track) = Length(d) /\ track[at + 1] = bit
  /\ \A k \in 1 .. Length(d) : k # at + 1 => track[k] = Track(d)[k]
  /\ track = [Track(d) EXCEPT ![at + 1] = bit]
  /\ \A i \in Images, t \in Tracks : Len(tracks[i][t]) = Len(d.tracks[i][t])
  /\ \A i \in Images, t \in Tracks :
       <<i, t>> # <<d.image, d.headTrackPos>> => tracks[i][t] = d.tracks[i][t]

LEMMA TracksWritten ==
  ASSUME NEW d, Shaped(d), NEW bit \in Bit
  PROVE  TracksAre(d, WrittenTracks(d, bit), WrittenTracks(d, bit)[d.image][d.headTrackPos],
                   Advanced(d), bit)
<1> DEFINE i == d.image
           t == d.headTrackPos
           k == Advanced(d) + 1
           old == d.tracks
           new == [old EXCEPT ![i][t][k] = bit]
<1>1. i \in Images /\ t \in Tracks /\ old \in Disks
  BY DEF Shaped, Whole, DriveRecords
<1>2. Track(d) = old[i][t]
  BY DEF Track
<1>3. k \in 1 .. Length(d) /\ Track(d) \in Seq(Bit) /\ Length(d) \in Nat
  <2>1. Advanced(d) \in 0 .. Length(d) - 1 /\ Track(d) \in Seq(Bit) /\ Length(d) \in Nat
    BY AdvancedIs, TrackType DEF Shaped, Whole
  <2>2. QED
    BY <2>1
<1> DEFINE s == old[i][t]
           r == [s EXCEPT ![k] = bit]
<1>4. s \in Seq(Bit) /\ Len(s) = Length(d)
  BY <1>2, <1>3 DEF Length
<1> HIDE DEF i, t, k, old
<1>5. r \in Seq(Bit) /\ Len(r) = Len(s)
      /\ \A j \in 1 .. Len(s) : r[j] = IF j = k THEN bit ELSE s[j]
  <2> HIDE DEF s
  <2>1. k \in 1 .. Len(s)
    BY <1>3, <1>4
  <2>2. QED
    BY <1>4, <2>1, ExceptSeq
<1> DEFINE row == [old[i] EXCEPT ![t] = r]
<1>6. new = [old EXCEPT ![i] = row]
  BY <1>1
<1>7. old[i] \in [Tracks -> Seq(Bit)]
  BY <1>1 DEF Disks
<1> HIDE DEF r
<1>8. row \in [Tracks -> Seq(Bit)] /\ row[t] = r
      /\ \A u \in Tracks : u # t => row[u] = old[i][u]
  BY <1>1, <1>5, <1>7
<1> HIDE DEF row, new
<1>9. new \in Disks /\ new[i] = row /\ \A j \in Images : j # i => new[j] = old[j]
  BY <1>1, <1>6, <1>8 DEF Disks
<1>10. new[i][t] = r
  BY <1>8, <1>9
<1>11. ASSUME NEW j \in Images, NEW u \in Tracks, <<j, u>> # <<i, t>>
       PROVE  new[j][u] = old[j][u]
  BY <1>8, <1>9, <1>11
<1>12. ASSUME NEW j \in Images, NEW u \in Tracks
       PROVE  Len(new[j][u]) = Len(old[j][u])
  BY <1>5, <1>10, <1>11
<1>13. \A j \in 1 .. Length(d) : j # k => r[j] = s[j]
  BY <1>4, <1>5
<1>14. r[k] = bit
  BY <1>3, <1>4, <1>5
<1>15. QED
  BY <1>2, <1>4, <1>5, <1>9, <1>10, <1>11, <1>12, <1>13, <1>14
  DEF new, i, t, k, old, r, TracksAre, WrittenTracks

LEMMA WrittenIs ==
  ASSUME NEW d, Shaped(d), NEW bit \in Bit
  PROVE  LET e == SetNextBit(d, bit)
         IN  /\ Shaped(e) /\ Spins(d, e) /\ Writes(d, e, bit)
             /\ e.SO = d.SO /\ e.UE3 = d.UE3 /\ e.PB7 = d.PB7 /\ e.PA = d.PA
             /\ e.readShift = d.readShift /\ e.writeShift = d.writeShift
<1> DEFINE at == Advanced(d)
           tracks == WrittenTracks(d, bit)
           dirty == IF Track(d)[at + 1] = bit THEN d.dirty
                    ELSE d.dirty \union {<<d.image, d.headTrackPos>>}
           e == [d EXCEPT !.headBitOffset = at, !.tracks = tracks, !.dirty = dirty]
<1>1. d \in DriveRecords /\ d.image \in Images /\ d.headTrackPos \in Tracks
  BY DEF Shaped, Whole, DriveRecords
<1>2. SetNextBit(d, bit) = e
  BY <1>1 DEF SetNextBit, WrittenTracks, DriveRecords
<1>3. at \in Nat /\ at \in 0 .. Length(d) - 1
  BY AdvancedIs
<1>4. dirty \in Saves /\ d.dirty \subseteq dirty
  <2>1. d.dirty \in Saves
    BY <1>1 DEF DriveRecords
  <2>2. QED
    BY <1>1, <2>1 DEF Saves
<1> DEFINE track == tracks[d.image][d.headTrackPos]
<1>5. TracksAre(d, tracks, track, at, bit)
  BY TracksWritten
<1>6. track # Track(d) => <<d.image, d.headTrackPos>> \in dirty
  <2>1. SUFFICES ASSUME Track(d)[at + 1] = bit PROVE track = Track(d)
    OBVIOUS
  <2>2. Track(d) \in Seq(Bit)
    BY TrackType DEF Shaped, Whole
  <2>3. QED
    BY <1>5, <2>1, <2>2 DEF TracksAre
<1> HIDE DEF at, tracks, dirty
<1>7. e \in DriveRecords
  BY <1>1, <1>3, <1>4, <1>5 DEF DriveRecords, TracksAre
<1>8. /\ e.tracks = tracks /\ e.dirty = dirty /\ e.headBitOffset = at
      /\ Spins(d, e) /\ e.SO = d.SO /\ e.UE3 = d.UE3 /\ e.PB7 = d.PB7 /\ e.PA = d.PA
      /\ e.readShift = d.readShift /\ e.writeShift = d.writeShift
  BY <1>1 DEF Spins, Mounted, DriveRecords
<1> HIDE DEF e
<1>9. Track(e) = track /\ Length(e) = Length(d)
  BY <1>5, <1>8 DEF Track, Length, Spins, Mounted, TracksAre
<1>10. Shaped(e)
  <2>1. \A i \in Images, t \in Tracks : Len(e.tracks[i][t]) = Len(Content[i][t])
    BY <1>5, <1>8 DEF Shaped, Whole, TracksAre
  <2>2. at < Length(d) /\ (d.UE3 = ByteBits => d.UF4 % 4 # 1)
    <3>1. Length(d) \in Nat
      BY TrackType DEF Shaped, Whole
    <3>2. QED
      BY <1>3, <3>1 DEF Shaped, Whole
  <2>3. QED
    BY <1>7, <1>8, <1>9, <2>1, <2>2 DEF Shaped, Whole, Spins
<1>11. Writes(d, e, bit)
  BY <1>4, <1>5, <1>6, <1>8, <1>9 DEF Writes, TracksAre, at
<1>12. QED
  BY <1>2, <1>8, <1>10, <1>11 DEF e, at, tracks, dirty

\* The disk and what was saved of it stay.
Stays(d, e) ==
  e.headBitOffset = d.headBitOffset /\ e.tracks = d.tracks /\ e.dirty = d.dirty

LEMMA InIs ==
  ASSUME NEW d, Shaped(d)
  PROVE  /\ In(d) \in Shifts /\ Shifted(d.writeShift, 0) \in Bytes
         /\ In(d)[SyncBits] = (IF d.UF4 = 2 THEN 1 ELSE 0)
         /\ \A i \in 1 .. SyncBits - 1 : In(d)[i] = d.readShift[i + 1]
         /\ \A i \in 1 .. ByteBits - 1 : Shifted(d.writeShift, 0)[i] = d.writeShift[i + 1]
         /\ d.writeShift[1] \in Bit
<1>1. /\ d.readShift \in Seq(Bit) /\ Len(d.readShift) = SyncBits
      /\ d.writeShift \in Seq(Bit) /\ Len(d.writeShift) = ByteBits
  BY BytesAre DEF Shaped, Whole, DriveRecords, Shifts
<1> DEFINE bit == IF d.UF4 = 2 THEN 1 ELSE 0
           r == d.readShift
           w == d.writeShift
<1>2. bit \in Bit /\ 0 \in Bit
  BY DEF Bit
<1>3. In(d) = Shifted(r, bit)
  BY DEF In
<1> HIDE DEF bit, r, w
<1>4. r # <<>> /\ w # <<>> /\ w[1] \in Bit
  <2>1. Len(r) > 0 /\ Len(w) > 0
    BY <1>1, Sizes DEF r, w
  <2>2. QED
    BY <1>1, <2>1 DEF r, w
<1>5. /\ Shifted(r, bit) \in Seq(Bit) /\ Len(Shifted(r, bit)) = Len(r)
      /\ Shifted(r, bit)[Len(r)] = bit
      /\ \A i \in 1 .. Len(r) - 1 : Shifted(r, bit)[i] = r[i + 1]
  BY <1>1, <1>2, <1>4, ShiftedIs DEF r
<1>6. /\ Shifted(w, 0) \in Seq(Bit) /\ Len(Shifted(w, 0)) = Len(w)
      /\ \A i \in 1 .. Len(w) - 1 : Shifted(w, 0)[i] = w[i + 1]
  BY <1>1, <1>2, <1>4, ShiftedIs DEF w
<1>7. QED
  BY <1>1, <1>3, <1>4, <1>5, <1>6, BytesAre DEF Shifts, bit, r, w

LEMMA CellIs ==
  ASSUME NEW d, Shaped(d), d.UE3 < ByteBits, d.UF4 % 4 = 2
  PROVE  LET e == ShiftedCell(d)
         IN  /\ Shaped(e) /\ Spins(d, e) /\ e.SO = d.SO /\ e.PA = d.PA
             /\ e.readShift = In(d) /\ e.writeShift = Shifted(d.writeShift, 0)
             /\ e.UE3 = IF Sync(d) THEN 0 ELSE d.UE3 + 1
             /\ e.PB7 = IF d.writing THEN d.PB7 ELSE ~Sync(d)
             /\ IF d.writing THEN Writes(d, e, d.writeShift[1]) ELSE Stays(d, e)
<1> DEFINE put == IF d.writing THEN SetNextBit(d, d.writeShift[1]) ELSE d
           out == Shifted(d.writeShift, 0)
           ue3 == IF Sync(d) THEN 0 ELSE d.UE3 + 1
           pb7 == IF d.writing THEN d.PB7 ELSE ~Sync(d)
           e == [put EXCEPT !.readShift = In(d), !.writeShift = out, !.UE3 = ue3, !.PB7 = pb7]
<1>1. In(d) \in Shifts /\ out \in Bytes /\ d.writeShift[1] \in Bit
  BY InIs
<1>2. /\ Shaped(put) /\ Spins(d, put) /\ put.SO = d.SO /\ put.PA = d.PA
      /\ put.UE3 = d.UE3 /\ put.PB7 = d.PB7 /\ put.writeShift = d.writeShift
      /\ IF d.writing THEN Writes(d, put, d.writeShift[1]) ELSE Stays(d, put)
  <2>1. CASE d.writing
    <3> DEFINE p == SetNextBit(d, d.writeShift[1])
    <3>1. /\ Shaped(p) /\ Spins(d, p) /\ Writes(d, p, d.writeShift[1])
          /\ p.SO = d.SO /\ p.UE3 = d.UE3 /\ p.PB7 = d.PB7 /\ p.PA = d.PA
          /\ p.readShift = d.readShift /\ p.writeShift = d.writeShift
      BY <1>1, WrittenIs
    <3> HIDE DEF p
    <3>2. put = p
      BY <2>1 DEF p
    <3>3. QED
      BY <2>1, <3>1, <3>2
  <2>2. CASE ~d.writing
    BY <2>2 DEF Spins, Mounted, Stays
  <2>3. QED
    BY <2>1, <2>2
<1>3. ShiftedCell(d) = e
  <2> DEFINE f == [put EXCEPT !.readShift = In(d), !.writeShift = Shifted(@, 0),
                              !.UE3 = IF Sync(d) THEN 0 ELSE @ + 1,
                              !.PB7 = IF d.writing THEN @ ELSE ~Sync(d)]
  <2>1. ShiftedCell(d) = f
    BY DEF ShiftedCell, In, Sync
  <2> HIDE DEF put
  <2>2. put \in DriveRecords
    BY <1>2 DEF Shaped, Whole
  <2>3. f = e
    BY <1>2, <2>2 DEF DriveRecords
  <2>4. QED
    BY <2>1, <2>3
<1> HIDE DEF put, out
<1>4. ue3 \in Counts3
  <2>1. d.UE3 \in 0 .. ByteBits
    BY DEF Shaped, Whole, DriveRecords, Counts3
  <2>2. QED
    BY <2>1, Sizes DEF Counts3
<1>5. pb7 \in BOOLEAN
  BY DEF Shaped, Whole, DriveRecords, Sync
<1>6. put \in DriveRecords
  BY <1>2 DEF Shaped, Whole
<1> HIDE DEF ue3, pb7
<1>7. e \in DriveRecords
  BY <1>1, <1>4, <1>5, <1>6 DEF DriveRecords
<1>8. /\ Spins(put, e) /\ Stays(put, e) /\ e.SO = put.SO /\ e.PA = put.PA
      /\ e.readShift = In(d) /\ e.writeShift = out /\ e.UE3 = ue3 /\ e.PB7 = pb7
  BY <1>6 DEF Spins, Mounted, Stays, DriveRecords
<1> HIDE DEF e
<1>9. e.UF4 % 4 # 1
  BY <1>2, <1>8 DEF Spins
<1>10. Shaped(e)
  BY <1>2, <1>7, <1>8, <1>9, ShapedStays DEF Spins, Mounted, Stays
<1>11. Spins(d, e)
  BY <1>2, <1>8 DEF Spins, Mounted
<1>12. IF d.writing THEN Writes(d, e, d.writeShift[1]) ELSE Stays(d, e)
  <2>1. Track(e) = Track(put)
    BY <1>8 DEF Stays, Track, Spins, Mounted
  <2>2. QED
    BY <1>2, <1>8, <2>1 DEF Writes, Stays
<1>13. QED
  BY <1>2, <1>3, <1>8, <1>10, <1>11, <1>12 DEF out, ue3, pb7

LEMMA LatchedIs ==
  ASSUME NEW d, Whole(d)
  PROVE  LET e == Latched(d)
         IN  /\ Shaped(e) /\ Spins(d, e) /\ Stays(d, e) /\ e.UE3 = 0 /\ e.SO = d.soe
             /\ e.readShift = d.readShift /\ e.PB7 = d.PB7
             /\ e.writeShift = (IF d.writing THEN d.out ELSE InRead(d))
             /\ e.PA = (IF d.writing THEN d.PA ELSE InRead(d))
<1> DEFINE shift == IF d.writing THEN d.out ELSE InRead(d)
           pa == IF d.writing THEN d.PA ELSE InRead(d)
           e == [d EXCEPT !.UE3 = 0, !.SO = d.soe, !.writeShift = shift, !.PA = pa]
<1>1. d \in DriveRecords
  BY DEF Whole
<1>2. Latched(d) = e
  BY <1>1 DEF Latched, DriveRecords
<1>3. shift \in Bytes /\ pa \in Bytes
  <2>1. InRead(d) \in Bytes
    BY <1>1, InReadIs
  <2>2. d.out \in Bytes /\ d.PA \in Bytes
    BY <1>1 DEF DriveRecords
  <2>3. QED
    BY <2>1, <2>2
<1> HIDE DEF shift, pa
<1>4. 0 \in Counts3 /\ 0 # ByteBits
  BY Sizes DEF Counts3
<1>5. e \in DriveRecords
  BY <1>1, <1>3, <1>4 DEF DriveRecords
<1>6. /\ Spins(d, e) /\ Stays(d, e) /\ e.UE3 = 0 /\ e.SO = d.soe
      /\ e.readShift = d.readShift /\ e.PB7 = d.PB7
      /\ e.writeShift = shift /\ e.PA = pa
  BY <1>1 DEF Spins, Mounted, Stays, DriveRecords
<1> HIDE DEF e
<1>7. Shaped(e)
  <2>1. Whole(e)
    BY <1>5, <1>6, WholeStays DEF Spins, Mounted, Stays
  <2>2. QED
    BY <1>4, <1>6, <2>1 DEF Shaped
<1>8. QED
  BY <1>2, <1>6, <1>7 DEF shift, pa

\* What a pulse does: a bit is shifted, a byte is latched, or it only counts.
Pulses(d, e) ==
  /\ Mounted(d, e) /\ e.cyclesForBit = d.cyclesForBit /\ e.noise = d.noise
  /\ e.cached = d.cached /\ e.UE7 = d.CLOCK_SEL_AB /\ e.UF4 = (d.UF4 + 1) % 16
ReadIn(d) == Shifted(d.readShift, IF (d.UF4 + 1) % 16 = 2 THEN 1 ELSE 0)
AtSync(d) == ~d.writing /\ ReadIn(d) = Ones
Shifting(d, e) ==
  /\ e.SO = d.SO /\ e.PA = d.PA
  /\ e.readShift = ReadIn(d) /\ e.writeShift = Shifted(d.writeShift, 0)
  /\ e.UE3 = IF AtSync(d) THEN 0 ELSE d.UE3 + 1
  /\ e.PB7 = IF d.writing THEN d.PB7 ELSE ~AtSync(d)
  /\ IF d.writing THEN Writes(d, e, d.writeShift[1]) ELSE Stays(d, e)
Latching(d, e) ==
  /\ Stays(d, e) /\ e.UE3 = 0 /\ e.SO = d.soe
  /\ e.readShift = d.readShift /\ e.PB7 = d.PB7
  /\ e.writeShift = (IF d.writing THEN d.out ELSE InRead(d))
  /\ e.PA = (IF d.writing THEN d.PA ELSE InRead(d))
Counting(d, e) ==
  /\ Stays(d, e) /\ e.UE3 = d.UE3 /\ e.SO = d.SO /\ e.readShift = d.readShift
  /\ e.PB7 = d.PB7 /\ e.writeShift = d.writeShift /\ e.PA = d.PA

LEMMA PulseIs ==
  ASSUME NEW d, Shaped(d)
  PROVE  LET e == Clocked4(d)
             u == (d.UF4 + 1) % 16
         IN  /\ Shaped(e) /\ Pulses(d, e)
             /\ u % 4 = 2 => d.UE3 < ByteBits /\ Shifting(d, e)
             /\ u % 4 < 2 /\ d.UE3 = ByteBits => Latching(d, e)
             /\ u % 4 # 2 /\ ~(u % 4 < 2 /\ d.UE3 = ByteBits) => Counting(d, e)
<1> DEFINE u == (d.UF4 + 1) % 16
           c == [d EXCEPT !.UE7 = d.CLOCK_SEL_AB, !.UF4 = u]
           e == Clocked4(d)
<1>1. d \in DriveRecords /\ Whole(d)
  BY DEF Shaped, Whole
<1>2. /\ d.UF4 \in 0 .. 15 /\ u \in 0 .. 15 /\ d.UE3 \in 0 .. ByteBits
      /\ u % 4 = 2 => d.UF4 % 4 = 1
  BY <1>1 DEF DriveRecords, Counts4, Counts3
<1>3. e = IF c.UF4 % 4 = 2 THEN ShiftedCell(c)
          ELSE IF c.UF4 % 4 < 2 /\ c.UE3 = ByteBits THEN Latched(c) ELSE c
  <2> DEFINE f == [d EXCEPT !.UE7 = d.CLOCK_SEL_AB, !.UF4 = (@ + 1) % 16]
  <2>1. f = c
    BY <1>1 DEF DriveRecords
  <2> HIDE DEF c, u
  <2>2. e = IF f.UF4 % 4 = 2 THEN ShiftedCell(f)
            ELSE IF f.UF4 % 4 < 2 /\ f.UE3 = ByteBits THEN Latched(f) ELSE f
    BY DEF Clocked4
  <2>3. QED
    BY <2>1, <2>2
<1>4. u \in Counts4 /\ d.CLOCK_SEL_AB \in Counts7
  <2>1. d.CLOCK_SEL_AB \in 0 .. Fastest
    BY <1>1 DEF DriveRecords, Zones
  <2>2. QED
    BY <1>2, <2>1, Sizes DEF Counts4, Counts7
<1> HIDE DEF u
<1>5. c \in DriveRecords
  BY <1>1, <1>4 DEF DriveRecords
<1>6. /\ c.UF4 = u /\ c.UE7 = d.CLOCK_SEL_AB /\ Mounted(d, c) /\ Counting(d, c)
      /\ c.cyclesForBit = d.cyclesForBit /\ c.noise = d.noise /\ c.cached = d.cached
  BY <1>1 DEF Mounted, Counting, Stays, DriveRecords
<1> HIDE DEF c, e
<1>7. Whole(c) /\ Length(c) = Length(d)
  BY <1>1, <1>5, <1>6, WholeStays DEF Mounted, Counting, Stays
<1>8. /\ In(c) = ReadIn(d) /\ Sync(c) = AtSync(d) /\ InRead(c) = InRead(d)
      /\ Advanced(c) = Advanced(d) /\ Track(c) = Track(d)
  BY <1>6, <1>7 DEF In, ReadIn, Sync, AtSync, InRead, Advanced, Track, Mounted, Counting, Stays, u
<1>9. CASE u % 4 = 2
  <2>1. d.UE3 # ByteBits
    BY <1>2, <1>9 DEF Shaped
  <2>2. Shaped(c) /\ c.UE3 < ByteBits
    BY <1>2, <1>6, <1>7, <2>1, Sizes DEF Shaped, Counting
  <2> DEFINE f == ShiftedCell(c)
  <2>3. /\ Shaped(f) /\ Spins(c, f) /\ f.SO = c.SO /\ f.PA = c.PA
        /\ f.readShift = In(c) /\ f.writeShift = Shifted(c.writeShift, 0)
        /\ f.UE3 = IF Sync(c) THEN 0 ELSE c.UE3 + 1
        /\ f.PB7 = IF c.writing THEN c.PB7 ELSE ~Sync(c)
        /\ IF c.writing THEN Writes(c, f, c.writeShift[1]) ELSE Stays(c, f)
    BY <1>6, <1>9, <2>2, CellIs
  <2>4. e = f
    BY <1>3, <1>6, <1>9
  <2> HIDE DEF f
  <2>5. Pulses(d, f)
    BY <1>6, <2>3 DEF Pulses, Spins, Mounted, u
  <2>6. IF d.writing THEN Writes(d, f, d.writeShift[1]) ELSE Stays(d, f)
    BY <1>6, <1>7, <1>8, <2>3 DEF Writes, Stays, Mounted, Counting
  <2>7. Shifting(d, f)
    BY <1>6, <1>8, <2>3, <2>6 DEF Shifting, Mounted, Counting
  <2>8. d.UE3 < ByteBits
    BY <1>6, <2>2 DEF Counting
  <2>9. QED
    BY <1>9, <2>3, <2>4, <2>5, <2>7, <2>8 DEF e, u
<1>10. CASE u % 4 < 2 /\ d.UE3 = ByteBits
  <2> DEFINE f == Latched(c)
  <2>1. /\ Shaped(f) /\ Spins(c, f) /\ Stays(c, f) /\ f.UE3 = 0 /\ f.SO = c.soe
        /\ f.readShift = c.readShift /\ f.PB7 = c.PB7
        /\ f.writeShift = (IF c.writing THEN c.out ELSE InRead(c))
        /\ f.PA = (IF c.writing THEN c.PA ELSE InRead(c))
    BY <1>7, LatchedIs
  <2>2. e = f
    BY <1>3, <1>6, <1>10 DEF Counting
  <2> HIDE DEF f
  <2>3. Pulses(d, f)
    BY <1>6, <2>1 DEF Pulses, Spins, Mounted, u
  <2>4. Latching(d, f)
    BY <1>6, <1>8, <2>1 DEF Latching, Stays, Mounted, Counting
  <2>5. QED
    BY <1>10, <2>1, <2>2, <2>3, <2>4 DEF e, u
<1>11. CASE u % 4 # 2 /\ ~(u % 4 < 2 /\ d.UE3 = ByteBits)
  <2>1. e = c
    BY <1>3, <1>6, <1>11 DEF Counting
  <2>2. Shaped(c)
    <3>1. c.UE3 = ByteBits => c.UF4 % 4 # 1
      BY <1>6, <1>11 DEF Counting
    <3>2. QED
      BY <1>7, <3>1 DEF Shaped
  <2>3. Pulses(d, c)
    BY <1>6 DEF Pulses, u
  <2>4. QED
    BY <1>6, <1>11, <2>1, <2>2, <2>3 DEF e, u
<1>12. QED
  BY <1>9, <1>10, <1>11 DEF u, e

-----------------------------------------------------------------------------
(* The cycles of an Update *)

\* UE7 only counts.
Ticks(d, e) ==
  /\ Mounted(d, e) /\ Counting(d, e) /\ e.cyclesForBit = d.cyclesForBit
  /\ e.noise = d.noise /\ e.cached = d.cached /\ e.UF4 = d.UF4 /\ e.UE7 = d.UE7 + 1

LEMMA TickIs ==
  ASSUME NEW d, Shaped(d), d.UE7 + 1 # UE7Count
  PROVE  LET e == [d EXCEPT !.UE7 = @ + 1]
         IN  Shaped(e) /\ Ticks(d, e)
<1> DEFINE e == [d EXCEPT !.UE7 = @ + 1]
<1>1. d \in DriveRecords
  BY DEF Shaped, Whole
<1>2. d.UE7 + 1 \in Counts7
  <2>1. d.UE7 \in 0 .. UE7Count - 1
    BY <1>1 DEF DriveRecords, Counts7
  <2>2. QED
    BY <2>1, Sizes DEF Counts7
<1>3. e \in DriveRecords
  BY <1>1, <1>2 DEF DriveRecords
<1>4. Ticks(d, e)
  BY <1>1 DEF Ticks, Mounted, Counting, Stays, DriveRecords
<1> HIDE DEF e
<1>5. Shaped(e)
  <2>1. e.UE3 = ByteBits => e.UF4 % 4 # 1
    BY <1>4 DEF Ticks, Counting, Shaped
  <2>2. QED
    BY <1>3, <1>4, <2>1, ShapedStays DEF Ticks, Mounted, Counting, Stays
<1>6. QED
  BY <1>4, <1>5 DEF e

\* A cycle ends with a count of UE7, or with a pulse.
Clocks(d, e) ==
  IF d.UE7 + 1 = UE7Count THEN e = Clocked4(d) ELSE Ticks(d, e)
Amplified(d, first, later) == Heard(Turned(d, first), later)

LEMMA CycleIs ==
  ASSUME NEW d, Shaped(d), NEW first \in Noises, NEW later \in Noises
  PROVE  LET e    == Cycle(d, first, later)
             read == IF d.writing THEN d ELSE Amplified(d, first, later)
         IN  /\ Shaped(read) /\ Turns(d, read)
             /\ Shaped(e) /\ Mounted(d, e) /\ Clocks(read, e)
<1> DEFINE t == Turned(d, first)
           h == Heard(t, later)
           read == IF d.writing THEN d ELSE Amplified(d, first, later)
           e == Cycle(d, first, later)
<1>1. Shaped(read) /\ Turns(d, read)
  <2>1. CASE d.writing
    BY <2>1 DEF Turns, Mounted
  <2>2. CASE ~d.writing
    <3>1. Shaped(t) /\ Turns(d, t)
      <4>1. CASE Within(d)
        BY <4>1, TurnedQuietly
      <4>2. CASE ~Within(d)
        BY <4>2, TurnedOn
      <4>3. QED
        BY <4>1, <4>2
    <3> HIDE DEF t
    <3>2. Shaped(h) /\ Turns(t, h)
      BY <3>1, HeardIs
    <3>3. read = h
      BY <2>2 DEF Amplified, t
    <3> HIDE DEF h, read
    <3>4. QED
      BY <3>1, <3>2, <3>3 DEF Turns, Mounted
  <2>3. QED
    BY <2>1, <2>2
<1>2. e = IF read.UE7 + 1 = UE7Count THEN Clocked4(read) ELSE [read EXCEPT !.UE7 = @ + 1]
  BY DEF Cycle, Amplified
<1> HIDE DEF read, e
<1>3. Shaped(e) /\ Clocks(read, e) /\ Mounted(read, e)
  <2>1. CASE read.UE7 + 1 = UE7Count
    <3> DEFINE c == Clocked4(read)
    <3>1. Shaped(c) /\ Pulses(read, c)
      BY <1>1, PulseIs
    <3>2. e = c
      BY <1>2, <2>1
    <3> HIDE DEF c
    <3>3. Clocks(read, e)
      BY <2>1, <3>2 DEF Clocks, c
    <3>4. QED
      BY <3>1, <3>2, <3>3 DEF Pulses
  <2>2. CASE read.UE7 + 1 # UE7Count
    <3> DEFINE c == [read EXCEPT !.UE7 = @ + 1]
    <3>1. Shaped(c) /\ Ticks(read, c)
      BY <1>1, <2>2, TickIs
    <3>2. e = c
      BY <1>2, <2>2
    <3> HIDE DEF c
    <3>3. QED
      BY <2>2, <3>1, <3>2 DEF Clocks, Ticks
  <2>3. QED
    BY <2>1, <2>2
<1>4. Mounted(d, e)
  BY <1>1, <1>3 DEF Turns, Mounted
<1>5. QED
  BY <1>1, <1>3, <1>4 DEF read, e

\* What is so of the drive before an Update, and stays so over each of its cycles, is so
\* after it.
LEMMA CyclesHave ==
  ASSUME NEW d, Shaped(d), NEW first \in Noises, NEW later \in Noises,
         NEW J, <<0, d>> \in J,
         \A n \in 0 .. UE7Count - 1 : \A e :
           Shaped(e) /\ <<n, e>> \in J => <<n + 1, Cycle(e, first, later)>> \in J
  PROVE  Shaped(Cycles(d, first, later)) /\ <<UE7Count, Cycles(d, first, later)>> \in J
<1> DEFINE T == {e \in DriveRecords : Shaped(e)}
           Step(e) == Cycle(e, first, later)
           step == [p \in Nat \X T |-> Step(p[2])]
           Is(f) == f = [n \in 0 .. UE7Count |-> IF n = 0 THEN d ELSE Step(f[n - 1])]
           after == CHOOSE g : Is(g)
<1>1. Cycles(d, first, later) = after[UE7Count]
  BY DEF Cycles
<1>2. \A e : Shaped(e) <=> e \in T
  BY DEF Shaped, Whole
<1> HIDE DEF T, Step
<1>3. \A e \in T : Step(e) \in T
  <2>1. ASSUME NEW e \in T PROVE Step(e) \in T
    <3>1. Shaped(e)
      BY <1>2
    <3>2. Shaped(Cycle(e, first, later))
      BY <3>1, CycleIs
    <3>3. QED
      BY <1>2, <3>2 DEF Step
  <2>2. QED
    BY <2>1
<1>4. step \in [Nat \X T -> T] /\ \A n \in Nat, e \in T : step[<<n, e>>] = Step(e)
  BY <1>3
<1>5. d \in T /\ UE7Count \in Nat
  BY <1>2, Sizes
<1> HIDE DEF step
<1>6. PICK f \in [0 .. UE7Count -> T] :
        f[0] = d /\ \A n \in 1 .. UE7Count : f[n] = step[<<n, f[n - 1]>>]
  <2>1. \E f : Recursive(f, T, d, step, UE7Count)
    BY <1>4, <1>5, FiniteRecursion
  <2>2. QED
    BY <2>1 DEF Recursive
<1>7. \A n \in 1 .. UE7Count : f[n] = Step(f[n - 1]) /\ f[n - 1] \in T
  <2>1. ASSUME NEW n \in 1 .. UE7Count PROVE f[n] = Step(f[n - 1]) /\ f[n - 1] \in T
    <3>1. n - 1 \in 0 .. UE7Count /\ n \in Nat
      BY <1>5
    <3>2. f[n - 1] \in T /\ f[n] = step[<<n, f[n - 1]>>]
      BY <1>6, <3>1
    <3>3. QED
      BY <1>4, <3>1, <3>2
  <2>2. QED
    BY <2>1
<1>8. Is(f)
  <2>1. ASSUME NEW n \in 0 .. UE7Count PROVE f[n] = IF n = 0 THEN d ELSE Step(f[n - 1])
    <3>1. CASE n = 0
      BY <1>6, <3>1
    <3>2. CASE n # 0
      <4>1. n \in 1 .. UE7Count
        BY <1>5, <3>2
      <4>2. QED
        BY <1>7, <3>2, <4>1
    <3>3. QED
      BY <3>1, <3>2
  <2>2. QED
    BY <1>6, <2>1
<1>9. Is(after)
  BY <1>8
<1> HIDE DEF after
<1>10. after[0] = d /\ \A n \in 1 .. UE7Count : after[n] = Step(after[n - 1])
  BY <1>5, <1>9
<1> DEFINE S == {n \in Nat : n <= UE7Count => after[n] \in T /\ <<n, after[n]>> \in J}
<1>11. 0 \in S
  BY <1>5, <1>10
<1>12. ASSUME NEW n \in Nat, n \in S PROVE n + 1 \in S
  <2>1. SUFFICES ASSUME n + 1 <= UE7Count
                 PROVE  after[n + 1] \in T /\ <<n + 1, after[n + 1]>> \in J
    OBVIOUS
  <2>2. n \in 0 .. UE7Count - 1 /\ n + 1 \in 1 .. UE7Count /\ (n + 1) - 1 = n /\ n <= UE7Count
    BY <1>5, <2>1
  <2>3. after[n] \in T /\ <<n, after[n]>> \in J
    BY <1>12, <2>2
  <2>4. after[n + 1] = Step(after[n])
    BY <1>10, <2>2
  <2>5. Shaped(after[n])
    BY <1>2, <2>3
  <2>6. <<n + 1, Cycle(after[n], first, later)>> \in J
    BY <2>2, <2>3, <2>5
  <2>7. QED
    BY <1>3, <2>3, <2>4, <2>6 DEF Step
<1>13. UE7Count \in S
  <2> HIDE DEF S
  <2>1. QED
    BY <1>5, <1>11, <1>12, SetInduction
<1>14. QED
  BY <1>1, <1>2, <1>5, <1>13

-----------------------------------------------------------------------------
(* What the program and the user do to the drive *)

LEMMA InsertedIs ==
  ASSUME NEW d, Shaped(d), NEW image \in Images
  PROVE  Shaped(Inserted(d, image))
<1> DEFINE e == Inserted(d, image)
<1>1. d \in DriveRecords
  BY DEF Shaped, Whole
<1>2. Swap \in Swaps
  BY DriveAssumption DEF Swap, Swaps
<1>3. e \in DriveRecords
  BY <1>1, <1>2 DEF Inserted, DriveRecords
<1>4. /\ e.tracks = d.tracks /\ e.image = image /\ e.headTrackPos = d.headTrackPos
      /\ e.headBitOffset = d.headBitOffset /\ e.UE3 = d.UE3 /\ e.UF4 = d.UF4
  BY <1>1 DEF Inserted, DriveRecords
<1> HIDE DEF e
<1>5. Length(e) = Length(d)
  <2>1. d.image \in Images /\ d.headTrackPos \in Tracks
    BY <1>1 DEF DriveRecords
  <2>2. Len(d.tracks[image][d.headTrackPos]) = Len(d.tracks[d.image][d.headTrackPos])
    <3>1. Len(Content[image][d.headTrackPos]) = Len(Content[d.image][d.headTrackPos])
      BY <2>1, DriveAssumption
    <3>2. QED
      BY <2>1, <3>1 DEF Shaped, Whole
  <2>3. QED
    BY <1>4, <2>2 DEF Length, Track
<1>6. Shaped(e)
  BY <1>3, <1>4, <1>5 DEF Shaped, Whole
<1>7. QED
  BY <1>6 DEF e

LEMMA MovedIs ==
  ASSUME NEW d, Shaped(d), NEW step \in Steps
  PROVE  Shaped(Moved(d, step))
<1> DEFINE reached == Reached(d, step)
           there == [d EXCEPT !.lastHeadDirection = step, !.headTrackPos = reached]
           at == d.headBitOffset % Length(there)
           e == [there EXCEPT !.headBitOffset = at]
<1>1. d \in DriveRecords
  BY DEF Shaped, Whole
<1>2. reached \in Tracks
  <2>1. d.headTrackPos \in 0 .. HalfTracks - 1 /\ HalfTracks \in Nat \ {0}
    BY <1>1, DriveAssumption DEF DriveRecords, Tracks
  <2>2. QED
    BY <2>1 DEF Reached, Tracks
<1>3. Moved(d, step) = e
  <2> DEFINE f == [there EXCEPT !.headBitOffset = @ % Length(there)]
  <2>1. Moved(d, step) = f
    BY DEF Moved
  <2>2. there.headBitOffset = d.headBitOffset /\ there \in DriveRecords
    BY <1>1, <1>2 DEF DriveRecords
  <2> HIDE DEF there
  <2>3. f = e
    BY <2>2 DEF DriveRecords
  <2>4. QED
    BY <2>1, <2>3
<1> HIDE DEF reached
<1>4. there \in DriveRecords
  BY <1>1, <1>2 DEF DriveRecords
<1>5. /\ there.tracks = d.tracks /\ there.image = d.image
      /\ there.UE3 = d.UE3 /\ there.UF4 = d.UF4
  BY <1>1 DEF DriveRecords
<1> HIDE DEF there
<1>6. Length(there) \in Nat /\ Length(there) > 0
  <2>1. \A i \in Images, t \in Tracks : Len(there.tracks[i][t]) = Len(Content[i][t])
    BY <1>5 DEF Shaped, Whole
  <2>2. Length(there) \in Nat /\ Length(there) > ByteBits
    BY <1>4, <2>1, TrackType
  <2>3. QED
    BY <2>2, Sizes
<1>7. at \in Nat /\ at < Length(there)
  <2>1. d.headBitOffset \in Nat
    BY <1>1 DEF DriveRecords
  <2>2. QED
    BY <1>6, <2>1
<1> HIDE DEF at
<1>8. e \in DriveRecords /\ e.headBitOffset = at
  BY <1>4, <1>7 DEF DriveRecords
<1>9. /\ e.tracks = there.tracks /\ e.image = there.image
      /\ e.headTrackPos = there.headTrackPos /\ e.UE3 = there.UE3 /\ e.UF4 = there.UF4
  BY <1>4 DEF DriveRecords
<1> HIDE DEF e
<1>10. Shaped(e)
  <2>1. Length(e) = Length(there)
    BY <1>9 DEF Length, Track
  <2>2. \A i \in Images, t \in Tracks : Len(e.tracks[i][t]) = Len(Content[i][t])
    BY <1>5, <1>9 DEF Shaped, Whole
  <2>3. e.UE3 = ByteBits => e.UF4 % 4 # 1
    BY <1>5, <1>9 DEF Shaped
  <2>4. QED
    BY <1>7, <1>8, <2>1, <2>2, <2>3 DEF Shaped, Whole
<1>11. QED
  BY <1>3, <1>10

LEMMA PortOutIs ==
  ASSUME NEW d, Shaped(d), NEW step \in Steps, NEW motor \in BOOLEAN, NEW zone \in Zones
  PROVE  Shaped(OnPortOut(d, step, motor, zone))
<1> DEFINE moved == IF d.motor /\ d.lastHeadDirection # step THEN Moved(d, step) ELSE d
           e == [moved EXCEPT !.motor = motor, !.CLOCK_SEL_AB = zone]
<1>1. Shaped(moved)
  BY MovedIs
<1>2. OnPortOut(d, step, motor, zone) = e
  BY DEF OnPortOut
<1> HIDE DEF moved
<1>3. moved \in DriveRecords
  BY <1>1 DEF Shaped, Whole
<1>4. e \in DriveRecords
  BY <1>3 DEF DriveRecords
<1>5. /\ e.tracks = moved.tracks /\ e.image = moved.image /\ e.UE3 = moved.UE3
      /\ e.headTrackPos = moved.headTrackPos /\ e.UF4 = moved.UF4
      /\ e.headBitOffset = moved.headBitOffset
  BY <1>3 DEF DriveRecords
<1> HIDE DEF e
<1>6. e.UE3 = ByteBits => e.UF4 % 4 # 1
  BY <1>1, <1>5 DEF Shaped
<1>7. Shaped(e)
  BY <1>1, <1>4, <1>5, <1>6, ShapedStays
<1>8. QED
  BY <1>2, <1>7

\* A change of fields that say nothing of the disk and the counters.
LEMMA ModeIs ==
  ASSUME NEW d, Shaped(d), NEW writing \in BOOLEAN, NEW soe \in BOOLEAN
  PROVE  Shaped([d EXCEPT !.writing = writing, !.soe = soe])
<1> DEFINE e == [d EXCEPT !.writing = writing, !.soe = soe]
<1>1. d \in DriveRecords
  BY DEF Shaped, Whole
<1>2. e \in DriveRecords
  BY <1>1 DEF DriveRecords
<1>3. /\ e.tracks = d.tracks /\ e.image = d.image /\ e.headTrackPos = d.headTrackPos
      /\ e.headBitOffset = d.headBitOffset /\ e.UE3 = d.UE3 /\ e.UF4 = d.UF4
  BY <1>1 DEF DriveRecords
<1> HIDE DEF e
<1>4. e.UE3 = ByteBits => e.UF4 % 4 # 1
  BY <1>3 DEF Shaped
<1>5. Shaped(e)
  BY <1>2, <1>3, <1>4, ShapedStays
<1>6. QED
  BY <1>5 DEF e

LEMMA OutIs ==
  ASSUME NEW d, Shaped(d), NEW byte \in Bytes
  PROVE  LET e == [d EXCEPT !.out = byte]
         IN  /\ Shaped(e) /\ e.out = byte /\ Counting(d, e)
             /\ e.headTrackPos = d.headTrackPos /\ e.lastHeadDirection = d.lastHeadDirection
             /\ e.CLOCK_SEL_AB = d.CLOCK_SEL_AB /\ e.motor = d.motor /\ e.image = d.image
             /\ e.swap = d.swap /\ e.PB4 = d.PB4 /\ e.writing = d.writing /\ e.soe = d.soe
             /\ e.cyclesForBit = d.cyclesForBit /\ e.noise = d.noise
             /\ e.cached = d.cached /\ e.UF4 = d.UF4 /\ e.UE7 = d.UE7
<1> DEFINE e == [d EXCEPT !.out = byte]
<1>1. d \in DriveRecords
  BY DEF Shaped, Whole
<1>2. e \in DriveRecords
  BY <1>1 DEF DriveRecords
<1>3. /\ e.out = byte /\ Counting(d, e)
      /\ e.headTrackPos = d.headTrackPos /\ e.lastHeadDirection = d.lastHeadDirection
      /\ e.CLOCK_SEL_AB = d.CLOCK_SEL_AB /\ e.motor = d.motor /\ e.image = d.image
      /\ e.swap = d.swap /\ e.PB4 = d.PB4 /\ e.writing = d.writing /\ e.soe = d.soe
      /\ e.cyclesForBit = d.cyclesForBit /\ e.noise = d.noise
      /\ e.cached = d.cached /\ e.UF4 = d.UF4 /\ e.UE7 = d.UE7
  BY <1>1 DEF Counting, Stays, DriveRecords
<1> HIDE DEF e
<1>4. Shaped(e)
  <2>1. e.UE3 = ByteBits => e.UF4 % 4 # 1
    BY <1>3 DEF Shaped, Counting
  <2>2. QED
    BY <1>2, <1>3, <2>1, ShapedStays DEF Counting, Stays
<1>5. QED
  BY <1>3, <1>4 DEF e

LEMMA SwappedIs ==
  ASSUME NEW d, Shaped(d), d.swap > 0
  PROVE  LET e == Swapped(d)
         IN  /\ Shaped(e) /\ Counting(d, e) /\ e.swap = d.swap - 1 /\ e.image = d.image
             /\ e.PB4 = IF e.swap = 0 THEN d.image \notin ReadOnly
                        ELSE e.swap <= NoDisk + Inserting /\ e.swap > Inserting
<1> DEFINE left == d.swap - 1
           pb4 == IF left = 0 THEN d.image \notin ReadOnly
                  ELSE left <= NoDisk + Inserting /\ left > Inserting
           e == [d EXCEPT !.swap = left, !.PB4 = pb4]
<1>1. d \in DriveRecords /\ Swap \in Nat
  BY DriveAssumption DEF Shaped, Whole, Swap
<1>2. left \in Swaps
  <2>1. d.swap \in 0 .. Swap
    BY <1>1 DEF DriveRecords, Swaps
  <2>2. QED
    BY <1>1, <2>1 DEF Swaps
<1>3. pb4 \in BOOLEAN /\ Swapped(d) = e
  BY DEF Swapped
<1> HIDE DEF left, pb4
<1>4. e \in DriveRecords
  BY <1>1, <1>2, <1>3 DEF DriveRecords
<1>5. /\ e.swap = left /\ e.PB4 = pb4 /\ e.image = d.image /\ Counting(d, e)
      /\ e.headTrackPos = d.headTrackPos /\ e.UF4 = d.UF4
  BY <1>1 DEF Counting, Stays, DriveRecords
<1> HIDE DEF e
<1>6. Shaped(e)
  <2>1. e.UE3 = ByteBits => e.UF4 % 4 # 1
    BY <1>5 DEF Shaped, Counting
  <2>2. QED
    BY <1>4, <1>5, <2>1, ShapedStays DEF Counting, Stays
<1>7. QED
  BY <1>3, <1>5, <1>6 DEF left, pb4

LEMMA ResetShaped == Shaped(DriveReset(First))
<1> DEFINE noise == CHOOSE n \in FirstNoise : TRUE
           zs == Zeros(SyncBits)
           zb == Zeros(ByteBits)
           cache == [track |-> -1, byte |-> -1, bits |-> zb]
           d == DriveReset(First)
<1>1. noise \in Noises
  <2>1. noise \in FirstNoise
    BY DriveAssumption
  <2>2. QED
    BY <2>1, NoiseType
<1>2. zs \in Shifts /\ zb \in Bytes
  <2>1. SyncBits \in Nat /\ ByteBits \in Nat
    BY Sizes
  <2>2. QED
    BY <2>1 DEF Shifts, Zeros, Bytes, Bit
<1> HIDE DEF zs, zb
<1>3. cache \in Caches
  BY <1>2 DEF Caches
<1> HIDE DEF noise, cache
<1>4. d = [headTrackPos |-> Home, headBitOffset |-> 0, lastHeadDirection |-> 0,
   CLOCK_SEL_AB |-> Fastest, motor |-> FALSE, SO |-> FALSE,
   cyclesForBit |-> 0, UE7 |-> Fastest, UF4 |-> 0, UE3 |-> 0,
   noise |-> noise, readShift |-> zs, writeShift |-> zb, cached |-> cache,
   image |-> First, tracks |-> Content, dirty |-> {}, swap |-> Swap,
   PB4 |-> TRUE, PB7 |-> TRUE, PA |-> zb,
   writing |-> FALSE, soe |-> FALSE, out |-> zb]
  BY DEF DriveReset, noise, zs, zb, cache
<1>5. /\ Home \in Tracks /\ Fastest \in Zones /\ Fastest \in Counts7 /\ 0 \in Counts4
      /\ 0 \in Counts3 /\ 0 \in Cycled /\ 0 \in Steps /\ Content \in Disks /\ {} \in Saves
      /\ Swap \in Swaps /\ First \in Images
  BY DriveAssumption, Sizes
  DEF Zones, Counts7, Counts4, Counts3, Cycled, Steps, Disks, Saves, Swaps, Swap
<1> HIDE DEF d
<1>6. d \in DriveRecords
  BY <1>1, <1>2, <1>3, <1>4, <1>5 DEF DriveRecords
<1>7. d.headBitOffset = 0 /\ d.tracks = Content /\ d.UE3 = 0
  BY <1>4
<1>8. Length(d) > 0
  <2>1. \A i \in Images, t \in Tracks : Len(d.tracks[i][t]) = Len(Content[i][t])
    BY <1>7
  <2>2. Length(d) \in Nat /\ Length(d) > ByteBits
    BY <1>6, <2>1, TrackType
  <2>3. QED
    BY <2>2, Sizes
<1>9. Shaped(d)
  BY <1>6, <1>7, <1>8, Sizes DEF Shaped, Whole
<1>10. QED
  BY <1>9 DEF d

LEMMA SilentIs ==
  ASSUME NEW d, Shaped(d)
  PROVE  LET e == [d EXCEPT !.SO = FALSE]
         IN  /\ Shaped(e) /\ Mounted(d, e) /\ Stays(d, e) /\ e.SO = FALSE
             /\ e.UE3 = d.UE3 /\ e.readShift = d.readShift /\ e.PB7 = d.PB7
             /\ e.writeShift = d.writeShift /\ e.PA = d.PA
             /\ e.cyclesForBit = d.cyclesForBit /\ e.noise = d.noise
             /\ e.cached = d.cached /\ e.UF4 = d.UF4 /\ e.UE7 = d.UE7
<1> DEFINE e == [d EXCEPT !.SO = FALSE]
<1>1. d \in DriveRecords
  BY DEF Shaped, Whole
<1>2. e \in DriveRecords
  BY <1>1 DEF DriveRecords
<1>3. /\ Mounted(d, e) /\ Stays(d, e) /\ e.SO = FALSE
      /\ e.UE3 = d.UE3 /\ e.readShift = d.readShift /\ e.PB7 = d.PB7
      /\ e.writeShift = d.writeShift /\ e.PA = d.PA
      /\ e.cyclesForBit = d.cyclesForBit /\ e.noise = d.noise
      /\ e.cached = d.cached /\ e.UF4 = d.UF4 /\ e.UE7 = d.UE7
  BY <1>1 DEF Mounted, Stays, DriveRecords
<1> HIDE DEF e
<1>4. Shaped(e)
  <2>1. e.UE3 = ByteBits => e.UF4 % 4 # 1
    BY <1>3 DEF Shaped
  <2>2. QED
    BY <1>2, <1>3, <2>1, ShapedStays DEF Mounted, Stays
<1>5. QED
  BY <1>3, <1>4 DEF e

LEMMA CyclesKeep ==
  ASSUME NEW d, Shaped(d), NEW first \in Noises, NEW later \in Noises
  PROVE  Shaped(Cycles(d, first, later)) /\ Mounted(d, Cycles(d, first, later))
<1> DEFINE Same(e) == Mounted(d, e)
           J == {p \in Nat \X DriveRecords : Same(p[2])}
<1>1. \A e : Shaped(e) => e \in DriveRecords
  BY DEF Shaped, Whole
<1>2. Same(d)
  BY DEF Mounted
<1>3. ASSUME NEW e, Shaped(e), Same(e)
      PROVE  Shaped(Cycle(e, first, later)) /\ Same(Cycle(e, first, later))
  <2> DEFINE c == Cycle(e, first, later)
  <2>1. Shaped(c) /\ Mounted(e, c)
    BY <1>3, CycleIs
  <2> HIDE DEF c
  <2>2. Same(c)
    BY <1>3, <2>1 DEF Mounted
  <2>3. QED
    BY <2>1, <2>2 DEF c
<1> HIDE DEF Same
<1>4. <<0, d>> \in J
  BY <1>1, <1>2
<1>5. ASSUME NEW n \in 0 .. UE7Count - 1, NEW e, Shaped(e), <<n, e>> \in J
      PROVE  <<n + 1, Cycle(e, first, later)>> \in J
  <2>1. Same(e) /\ n + 1 \in Nat
    BY <1>5, Sizes
  <2>2. Shaped(Cycle(e, first, later)) /\ Same(Cycle(e, first, later))
    BY <1>3, <1>5, <2>1
  <2>3. QED
    BY <1>1, <2>1, <2>2
<1>6. Shaped(Cycles(d, first, later)) /\ <<UE7Count, Cycles(d, first, later)>> \in J
  <2> HIDE DEF J
  <2>1. QED
    BY <1>4, <1>5, CyclesHave
<1>7. QED
  BY <1>6 DEF Same

\* An Update, of a drive whose disk is swapped, and of one that turns or does not.
Spun(d, first, later) == Cycles([d EXCEPT !.SO = FALSE], first, later)
LEMMA UpdatedIs ==
  ASSUME NEW d, Shaped(d), NEW first \in FirstNoise, NEW later \in LaterNoise
  PROVE  /\ Shaped(Updated(d, first, later))
         /\ d.swap > 0 => Updated(d, first, later) = Swapped(d)
         /\ d.swap = 0 => Mounted(d, Updated(d, first, later))
         /\ d.swap = 0 /\ ~d.motor => Updated(d, first, later) = d
         /\ Reads(d) => Updated(d, first, later) = Spun(d, first, later)
<1>1. d.swap \in Nat
  BY DriveAssumption DEF Shaped, Whole, DriveRecords, Swaps
<1>2. first \in Noises /\ later \in Noises
  BY NoiseType
<1>3. CASE d.swap > 0
  <2> DEFINE e == Swapped(d)
  <2>1. Shaped(e)
    BY <1>3, SwappedIs
  <2>2. Updated(d, first, later) = e
    BY <1>3 DEF Updated
  <2> HIDE DEF e
  <2>3. QED
    BY <1>1, <1>3, <2>1, <2>2 DEF Reads, e
<1>4. CASE d.swap = 0 /\ d.motor
  <2> DEFINE s == [d EXCEPT !.SO = FALSE]
             e == Cycles(s, first, later)
  <2>1. Shaped(s) /\ Mounted(d, s)
    BY SilentIs
  <2>2. Updated(d, first, later) = e /\ Spun(d, first, later) = e
    BY <1>4 DEF Updated, Spun
  <2> HIDE DEF s
  <2>3. Shaped(e) /\ Mounted(s, e)
    BY <1>2, <2>1, CyclesKeep
  <2> HIDE DEF e
  <2>4. Mounted(d, e)
    BY <2>1, <2>3 DEF Mounted
  <2>5. QED
    BY <1>4, <2>2, <2>3, <2>4 DEF Reads
<1>5. CASE d.swap = 0 /\ ~d.motor
  <2>1. Updated(d, first, later) = d
    BY <1>5 DEF Updated
  <2>2. QED
    BY <1>5, <2>1 DEF Reads, Mounted
<1>6. QED
  BY <1>1, <1>3, <1>4, <1>5

-----------------------------------------------------------------------------
(* The steps that move the drive *)

StepStill  == UNCHANGED <<drive, passed, sensor>>
StepPort   == /\ \E step \in Steps, motor \in BOOLEAN, zone \in Zones :
                   drive' = OnPortOut(drive, step, motor, zone)
              /\ passed' = Unknown /\ sensor' = sensor
StepMode   == /\ \E writing \in BOOLEAN, soe \in BOOLEAN :
                   drive' = [drive EXCEPT !.writing = writing, !.soe = soe]
              /\ passed' = Unknown /\ sensor' = sensor
StepData   == /\ \E byte \in Bytes : drive' = [drive EXCEPT !.out = byte]
              /\ passed' = passed /\ sensor' = sensor
StepInsert == /\ \E image \in Images : drive' = Inserted(drive, image)
              /\ passed' = Unknown /\ sensor' = <<>>
StepUpdate == /\ \E first \in FirstNoise, later \in LaterNoise :
                   drive' = Updated(drive, first, later)
              /\ passed' = Passed(passed, drive, drive')
              /\ sensor' = IF drive.swap > 0
                                /\ (sensor = <<>> \/ sensor[Len(sensor)] # drive'.PB4)
                           THEN Append(sensor, drive'.PB4) ELSE sensor

LEMMA DriveSteps ==
  ASSUME [Next]_vars
  PROVE  \/ StepStill \/ StepPort \/ StepMode \/ StepData \/ StepInsert \/ StepUpdate
<1>1. CASE UNCHANGED vars
  BY <1>1 DEF vars, StepStill
<1>2. CASE \/ ReadRegister \/ WriteOtherORA \/ WriteOtherSR \/ WriteTimers \/ WriteMode
           \/ WriteEdge \/ WriteEnable \/ WriteFlags \/ WritePort \/ NoAccess \/ ReadData
  BY <1>2, Zenon DEF ReadRegister, WriteOtherORA, WriteOtherSR, WriteTimers, WriteMode,
     WriteEdge, WriteEnable, WriteFlags, WritePort, NoAccess, ReadData, Access, Untouched,
     StepStill
<1>3. CASE WriteDrive
  <2>1. PICK w \in DriveWrites : Disturbs(OnPortOut(drive, w[1], w[2], w[3]))
    BY <1>3 DEF WriteDrive
  <2>2. w[1] \in Steps /\ w[2] \in BOOLEAN /\ w[3] \in Zones
    BY Pi1541Assumption
  <2>3. drive' = OnPortOut(drive, w[1], w[2], w[3]) /\ passed' = Unknown
    BY <2>1 DEF Disturbs
  <2>4. sensor' = sensor
    BY <1>3 DEF WriteDrive
  <2>5. QED
    BY <2>2, <2>3, <2>4 DEF StepPort
<1>4. CASE WriteDriveMode
  <2>1. PICK mode \in DriveModes :
          Disturbs([drive EXCEPT !.writing = mode[1], !.soe = mode[2]])
    BY <1>4 DEF WriteDriveMode
  <2>2. mode[1] \in BOOLEAN /\ mode[2] \in BOOLEAN
    BY Pi1541Assumption
  <2>3. drive' = [drive EXCEPT !.writing = mode[1], !.soe = mode[2]] /\ passed' = Unknown
    BY <2>1 DEF Disturbs
  <2>4. sensor' = sensor
    BY <1>4 DEF WriteDriveMode
  <2>5. QED
    BY <2>2, <2>3, <2>4 DEF StepMode
<1>5. CASE WriteData
  <2>1. PICK byte \in DataWrites \ {drive.out} : drive' = [drive EXCEPT !.out = byte]
    BY <1>5 DEF WriteData
  <2>2. byte \in Bytes
    BY Pi1541Assumption
  <2>3. passed' = passed /\ sensor' = sensor
    BY <1>5 DEF WriteData
  <2>4. QED
    BY <2>1, <2>2, <2>3 DEF StepData
<1>6. CASE Insert
  <2>1. PICK image \in Images : Disturbs(Inserted(drive, image))
    BY <1>6 DEF Insert
  <2>2. drive' = Inserted(drive, image) /\ passed' = Unknown
    BY <2>1 DEF Disturbs
  <2>3. sensor' = <<>>
    BY <1>6 DEF Insert
  <2>4. QED
    BY <2>2, <2>3 DEF StepInsert
<1>7. CASE Update
  <2>1. PICK pb6 \in PB6, first \in FirstNoise, later \in LaterNoise :
          LET new == Updated(drive, first, later)
          IN  /\ drive' = new
              /\ passed' = Passed(passed, drive, new)
              /\ sensor' = IF drive.swap > 0
                                /\ (sensor = <<>> \/ sensor[Len(sensor)] # new.PB4)
                           THEN Append(sensor, new.PB4) ELSE sensor
    BY <1>7, Zenon DEF Update
  <2>2. QED
    BY <2>1, Zenon DEF StepUpdate
<1>8. QED
  BY <1>1, <1>2, <1>3, <1>4, <1>5, <1>6, <1>7 DEF Next, Drives

ShapeInv == Shaped(drive)

LEMMA ShapedStep == ShapeInv /\ [Next]_vars => ShapeInv'
<1> SUFFICES ASSUME Shaped(drive), [Next]_vars PROVE Shaped(drive')
  BY DEF ShapeInv
<1>1. CASE StepStill
  BY <1>1 DEF StepStill
<1>2. CASE StepPort
  BY <1>2, PortOutIs DEF StepPort
<1>3. CASE StepMode
  <2>1. PICK writing \in BOOLEAN, soe \in BOOLEAN :
          drive' = [drive EXCEPT !.writing = writing, !.soe = soe]
    BY <1>3 DEF StepMode
  <2> DEFINE e == [drive EXCEPT !.writing = writing, !.soe = soe]
  <2>2. Shaped(e)
    BY ModeIs
  <2> HIDE DEF e
  <2>3. QED
    BY <2>1, <2>2 DEF e
<1>4. CASE StepData
  BY <1>4, OutIs DEF StepData
<1>5. CASE StepInsert
  BY <1>5, InsertedIs DEF StepInsert
<1>6. CASE StepUpdate
  BY <1>6, UpdatedIs DEF StepUpdate
<1>7. QED
  BY <1>1, <1>2, <1>3, <1>4, <1>5, <1>6, DriveSteps

\* The drive keeps the shape of its record, whatever the program and the user do.
THEOREM DriveKeepsShape == Spec => []ShapeInv
<1>1. Init => ShapeInv
  BY ResetShaped DEF Init, ShapeInv
<1>2. QED
  BY <1>1, ShapedStep, PTL DEF Spec

-----------------------------------------------------------------------------
(* Types *)

LEMMA DriveTypes == ASSUME NEW d, Shaped(d) PROVE DriveTypeOK(d)
<1>1. d \in DriveRecords /\ d.headBitOffset < Length(d)
  BY DEF Shaped, Whole
<1>2. Length(d) \in Nat
  BY TrackType DEF Shaped, Whole
<1>3. d.headBitOffset \in 0 .. Length(d) - 1
  <2>1. d.headBitOffset \in Nat
    BY <1>1 DEF DriveRecords
  <2>2. QED
    BY <1>1, <1>2, <2>1
<1>4. /\ d.headTrackPos \in Tracks /\ d.cyclesForBit \in Cycled /\ d.noise \in Noises
      /\ d.UE7 \in Counts7 /\ d.UF4 \in Counts4 /\ d.UE3 \in Counts3
      /\ d.readShift \in Shifts /\ d.writeShift \in Bytes /\ d.PA \in Bytes /\ d.swap \in Swaps
  BY <1>1 DEF DriveRecords
<1>5. QED
  BY <1>3, <1>4
  DEF DriveTypeOK, Cycled, Noises, Counts7, Counts4, Counts3, Shifts, Swaps

RestInv == /\ asserted \in BOOLEAN /\ program \in Programs /\ overflow \in BOOLEAN
           /\ uses \in 0 .. MaxUses

LEMMA NoUses == MaxUses \in Nat /\ 0 \in 0 .. MaxUses
<1>1. MaxUses \in Nat
  BY Pi1541Assumption, Zenon
<1>2. QED
  BY <1>1

LEMMA UsesCounted ==
  ASSUME uses \in 0 .. MaxUses, uses' = uses \/ (uses < MaxUses /\ uses' = uses + 1)
  PROVE  uses' \in 0 .. MaxUses
BY NoUses

LEMMA RestStep ==
  ASSUME BoardInv, ShapeInv, RestInv, [Next]_vars
  PROVE  RestInv'
<1>0. uses \in 0 .. MaxUses
  BY Zenon DEF RestInv
<1>1. VIA' \in [Vias -> ViaRecords] /\ \A i \in Vias : Follows(VIA'[i])
  BY BoardStep DEF BoardInv, ChipsInv
<1>2. VIA \in [Vias -> ViaRecords]
  BY DEF BoardInv, ChipsInv
<1>3. ASSUME NEW i \in Vias, NEW old, NEW new, Changed(i, old, new)
      PROVE  asserted' \in BOOLEAN
  <2>1. VIA'[i] = new
    BY <1>2, <1>3 DEF Changed
  <2>2. Follows(new)
    BY <1>1, <2>1
  <2>3. QED
    BY <1>3, <2>2, LineType DEF Changed, RestInv
<1>4. 0 \in Vias /\ 1 \in Vias
  BY DEF Vias
<1>5. program' = program \/ UNCHANGED vars
  BY DEF Next, Drives, ReadRegister, WriteOtherORA, WriteOtherSR, WriteTimers, WriteMode,
     WriteEdge, WriteEnable, WriteFlags, WritePort, NoAccess, Access, Accesses,
     WriteDrive, WriteDriveMode, WriteData, ReadData, Insert, Update
<1>6. CASE UNCHANGED vars
  BY <1>6 DEF vars, RestInv
<1>7. CASE Update
  <2>1. asserted' \in BOOLEAN
    BY <1>7, UpdateDone DEF RestInv
  <2>2. overflow' \in BOOLEAN /\ uses' = uses /\ program' = program
    BY <1>7, Zenon DEF Update
  <2>3. QED
    BY <2>1, <2>2 DEF RestInv
<1>8. CASE \/ ReadRegister \/ WriteOtherORA \/ WriteOtherSR \/ WriteTimers \/ WriteMode
           \/ WriteEdge \/ WriteEnable
  <2>1. PICK new : Access(0, new)
    BY <1>8, Zenon DEF ReadRegister, WriteOtherORA, WriteOtherSR, WriteTimers, WriteMode,
       WriteEdge, WriteEnable
  <2>2. asserted' \in BOOLEAN
    BY <1>3, <1>4, <2>1, Zenon DEF Access
  <2>3. UNCHANGED <<program, overflow, uses>>
    BY <2>1, Zenon DEF Access, Accesses, Untouched
  <2>4. QED
    BY <2>2, <2>3 DEF RestInv
<1>9. CASE WriteFlags
  <2>1. asserted' \in BOOLEAN
    BY <1>3, <1>4, <1>9, Zenon DEF WriteFlags
  <2>2. UNCHANGED <<program, overflow, uses>>
    BY <1>9, Zenon DEF WriteFlags, Accesses, Untouched
  <2>3. QED
    BY <2>1, <2>2 DEF RestInv
<1>10. CASE WritePort \/ NoAccess
  BY <1>10, Zenon DEF WritePort, NoAccess, Accesses, Untouched, RestInv
<1>11. CASE WriteData \/ ReadData
  <2>1. asserted' \in BOOLEAN
    BY <1>3, <1>4, <1>11, Zenon DEF WriteData, ReadData
  <2>2. program' = program
    BY <1>11, Zenon DEF WriteData, ReadData, Accesses
  <2>3. overflow' \in BOOLEAN
    BY <1>11, Zenon DEF WriteData, ReadData, RestInv
  <2>4. uses' = uses \/ (uses < MaxUses /\ uses' = uses + 1)
    BY <1>11, Zenon DEF WriteData, ReadData, Touches
  <2>5. uses' \in 0 .. MaxUses
    BY <1>0, <2>4, UsesCounted, Zenon
  <2>6. QED
    BY <2>1, <2>2, <2>3, <2>5 DEF RestInv
<1>12. CASE WriteDrive \/ WriteDriveMode \/ Insert
  <2>1. UNCHANGED <<asserted, program, overflow>>
    BY <1>12, Zenon DEF WriteDrive, WriteDriveMode, Insert, Accesses, Disturbs
  <2>2. uses < MaxUses /\ uses' = uses + 1
    BY <1>12, Zenon DEF WriteDrive, WriteDriveMode, Insert, Disturbs, Touches
  <2>3. uses' \in 0 .. MaxUses
    BY <1>0, <2>2, UsesCounted, Zenon
  <2>4. QED
    BY <2>1, <2>3 DEF RestInv
<1>13. QED
  BY <1>6, <1>7, <1>8, <1>9, <1>10, <1>11, <1>12, Zenon DEF Next, Drives

\* The 6522s, the bus, the drive and the line keep their types: no counter of the drive
\* runs over what it counts to, and the head stays over a bit of the track.
THEOREM Types == Spec => []TypeOK
<1>1. Init => BoardInv /\ ShapeInv /\ RestInv
  <2>1. Init => RestInv
    <3> SUFFICES ASSUME Init PROVE RestInv
      OBVIOUS
    <3>1. uses \in 0 .. MaxUses
      BY NoUses, Zenon DEF Init
    <3>2. asserted = FALSE /\ overflow = FALSE /\ program \in Programs
      BY Zenon DEF Init
    <3>3. QED
      BY <3>1, <3>2, Zenon DEF RestInv
  <2>2. Init => ShapeInv
    BY ResetShaped DEF Init, ShapeInv
  <2>3. QED
    BY <2>1, <2>2, BoardInit
<1>2. (BoardInv /\ ShapeInv /\ RestInv) /\ [Next]_vars => (BoardInv /\ ShapeInv /\ RestInv)'
  BY BoardStep, ShapedStep, RestStep
<1>3. BoardInv /\ ShapeInv /\ RestInv => TypeOK
  <2> SUFFICES ASSUME BoardInv, ShapeInv, RestInv PROVE TypeOK
    OBVIOUS
  <2>2. DriveTypeOK(drive)
    BY DriveTypes DEF ShapeInv
  <2>3. VIA \in [Vias -> ViaRecords] /\ turn \in {"cpu", "update"} /\ bus \in BusRecords
    BY Zenon DEF BoardInv, ChipsInv, BusInv, TurnInv, BusKept
  <2>4. QED
    BY <2>2, <2>3, Zenon DEF RestInv, TypeOK
<1>4. QED
  BY <1>1, <1>2, <1>3, PTL DEF Spec

-----------------------------------------------------------------------------
(* The write protect sensor *)

\* What it showed so far; on and off are TRUE and FALSE.
Shows(s, notch, on, off) ==
  IF s = Swap THEN <<>>
  ELSE IF s > NoDisk + Inserting THEN <<off>>
  ELSE IF s > Inserting THEN <<off, on>>
  ELSE IF s > 0 \/ notch = off THEN <<off, on, off>>
  ELSE <<off, on, off, on>>
Notch(d) == IF d.image \in ReadOnly THEN FALSE ELSE TRUE
SensorInv == sensor = Shows(drive.swap, Notch(drive), TRUE, FALSE)

\* One more sample: a level is noted when it is not the last one.
Sampled(x, level) == IF x = <<>> \/ x[Len(x)] # level THEN Append(x, level) ELSE x

LEMMA AppendIs ==
  ASSUME NEW T, NEW s \in Seq(T), NEW t \in Seq(T), NEW e \in T,
         Len(t) = Len(s) + 1, t[Len(s) + 1] = e, \A i \in 1 .. Len(s) : t[i] = s[i]
  PROVE  Append(s, e) = t
<1>1. /\ Append(s, e) \in Seq(T) /\ Len(Append(s, e)) = Len(s) + 1
      /\ \A i \in 1 .. Len(s) : Append(s, e)[i] = s[i]
      /\ Append(s, e)[Len(s) + 1] = e
  BY AppendProperties
<1> DEFINE u == Append(s, e)
<1>2. u \in Seq(T) /\ Len(u) = Len(t)
  BY <1>1
<1>3. \A i \in 1 .. Len(u) : u[i] = t[i]
  BY <1>1
<1> HIDE DEF u
<1>4. u = t
  BY <1>2, <1>3, SeqEqual
<1>5. QED
  BY <1>4 DEF u

LEMMA Sampling ==
  ASSUME NEW on, NEW off, on # off
  PROVE  /\ Sampled(<<>>, off) = <<off>> /\ Sampled(<<off>>, off) = <<off>>
         /\ Sampled(<<off>>, on) = <<off, on>> /\ Sampled(<<off, on>>, on) = <<off, on>>
         /\ Sampled(<<off, on>>, off) = <<off, on, off>>
         /\ Sampled(<<off, on, off>>, off) = <<off, on, off>>
         /\ Sampled(<<off, on, off>>, on) = <<off, on, off, on>>
<1> DEFINE T == {on, off}
           s0 == <<>>
           s1 == <<off>>
           s2 == <<off, on>>
           s3 == <<off, on, off>>
           s4 == <<off, on, off, on>>
<1>1. s0 \in Seq(T) /\ s1 \in Seq(T) /\ s2 \in Seq(T) /\ s3 \in Seq(T) /\ s4 \in Seq(T)
  OBVIOUS
<1>2. Len(s0) = 0 /\ Len(s1) = 1 /\ Len(s2) = 2 /\ Len(s3) = 3 /\ Len(s4) = 4
  OBVIOUS
<1>3. /\ s1[1] = off /\ s2[1] = off /\ s2[2] = on
      /\ s3[1] = off /\ s3[2] = on /\ s3[3] = off
      /\ s4[1] = off /\ s4[2] = on /\ s4[3] = off /\ s4[4] = on
  OBVIOUS
<1>4. on \in T /\ off \in T
  OBVIOUS
<1> HIDE DEF T, s0, s1, s2, s3, s4
<1>5. Append(s0, off) = s1
  <2>1. \A i \in 1 .. Len(s0) : s1[i] = s0[i]
    BY <1>2, <1>3
  <2>2. Len(s1) = Len(s0) + 1 /\ s1[Len(s0) + 1] = off
    BY <1>2, <1>3
  <2>3. QED
    BY <1>1, <1>4, <2>1, <2>2, AppendIs
<1>6. Append(s1, on) = s2
  <2>1. \A i \in 1 .. Len(s1) : s2[i] = s1[i]
    BY <1>2, <1>3
  <2>2. Len(s2) = Len(s1) + 1 /\ s2[Len(s1) + 1] = on
    BY <1>2, <1>3
  <2>3. QED
    BY <1>1, <1>4, <2>1, <2>2, AppendIs
<1>7. Append(s2, off) = s3
  <2>1. \A i \in 1 .. Len(s2) : s3[i] = s2[i]
    BY <1>2, <1>3
  <2>2. Len(s3) = Len(s2) + 1 /\ s3[Len(s2) + 1] = off
    BY <1>2, <1>3
  <2>3. QED
    BY <1>1, <1>4, <2>1, <2>2, AppendIs
<1>8. Append(s3, on) = s4
  <2>1. \A i \in 1 .. Len(s3) : s4[i] = s3[i]
    BY <1>2, <1>3
  <2>2. Len(s4) = Len(s3) + 1 /\ s4[Len(s3) + 1] = on
    BY <1>2, <1>3
  <2>3. QED
    BY <1>1, <1>4, <2>1, <2>2, AppendIs
<1>9. s1 # s0 /\ s2 # s0 /\ s3 # s0
  BY <1>2
<1>10. s1[Len(s1)] = off /\ s2[Len(s2)] = on /\ s3[Len(s3)] = off
  BY <1>2, <1>3
<1>11. s0 = <<>>
  BY DEF s0
<1>12. /\ Sampled(s0, off) = s1 /\ Sampled(s1, off) = s1 /\ Sampled(s1, on) = s2
       /\ Sampled(s2, on) = s2 /\ Sampled(s2, off) = s3 /\ Sampled(s3, off) = s3
       /\ Sampled(s3, on) = s4
  BY <1>5, <1>6, <1>7, <1>8, <1>9, <1>10, <1>11, Zenon DEF Sampled
<1>13. QED
  BY <1>12 DEF s0, s1, s2, s3, s4

\* The level of the sensor s Updates before the swap ends.
Level(s, notch, on, off) ==
  IF s = 0 THEN notch ELSE IF s <= NoDisk + Inserting /\ s > Inserting THEN on ELSE off

LEMMA ShowsMore ==
  ASSUME NEW on, NEW off, on # off, NEW notch \in {on, off}, NEW s \in 1 .. Swap,
         NEW pb4, pb4 = Level(s - 1, notch, on, off),
         NEW x, x = Shows(s, notch, on, off)
  PROVE  Shows(s - 1, notch, on, off) = Sampled(x, pb4)
<1>1. /\ Ejecting \in Nat /\ Ejecting > 1 /\ NoDisk \in Nat /\ NoDisk > 0
      /\ Inserting \in Nat /\ Inserting > 0 /\ Swap = Ejecting + NoDisk + Inserting
  BY DriveAssumption DEF Swap
<1>2. CASE s = Swap
  <2>1. x = <<>> /\ pb4 = off /\ Shows(s - 1, notch, on, off) = <<off>>
    BY <1>1, <1>2 DEF Shows, Level
  <2>2. QED
    BY <2>1, Sampling
<1>3. CASE s # Swap /\ s > NoDisk + Inserting + 1
  <2>1. x = <<off>> /\ pb4 = off /\ Shows(s - 1, notch, on, off) = <<off>>
    BY <1>1, <1>3 DEF Shows, Level
  <2>2. QED
    BY <2>1, Sampling
<1>4. CASE s = NoDisk + Inserting + 1
  <2>1. x = <<off>> /\ pb4 = on /\ Shows(s - 1, notch, on, off) = <<off, on>>
    BY <1>1, <1>4 DEF Shows, Level
  <2>2. QED
    BY <2>1, Sampling
<1>5. CASE s <= NoDisk + Inserting /\ s > Inserting + 1
  <2>1. x = <<off, on>> /\ pb4 = on /\ Shows(s - 1, notch, on, off) = <<off, on>>
    BY <1>1, <1>5 DEF Shows, Level
  <2>2. QED
    BY <2>1, Sampling
<1>6. CASE s = Inserting + 1
  <2>1. x = <<off, on>> /\ pb4 = off /\ Shows(s - 1, notch, on, off) = <<off, on, off>>
    BY <1>1, <1>6 DEF Shows, Level
  <2>2. QED
    BY <2>1, Sampling
<1>7. CASE s <= Inserting /\ s > 1
  <2>1. x = <<off, on, off>> /\ pb4 = off /\ Shows(s - 1, notch, on, off) = <<off, on, off>>
    BY <1>1, <1>7 DEF Shows, Level
  <2>2. QED
    BY <2>1, Sampling
<1>8. CASE s = 1
  <2>1. x = <<off, on, off>> /\ pb4 = notch
    BY <1>1, <1>8 DEF Shows, Level
  <2>2. Shows(s - 1, notch, on, off)
          = IF notch = off THEN <<off, on, off>> ELSE <<off, on, off, on>>
    BY <1>1, <1>8 DEF Shows
  <2>3. CASE notch = off
    BY <2>1, <2>2, <2>3, Sampling
  <2>4. CASE notch = on
    BY <2>1, <2>2, <2>4, Sampling
  <2>5. QED
    BY <2>3, <2>4
<1>9. QED
  BY <1>1, <1>2, <1>3, <1>4, <1>5, <1>6, <1>7, <1>8

LEMMA SensorStep == ShapeInv /\ SensorInv /\ [Next]_vars => SensorInv'
<1> SUFFICES ASSUME ShapeInv, SensorInv, [Next]_vars PROVE SensorInv'
  OBVIOUS
<1>1. drive \in DriveRecords /\ Shaped(drive)
  BY DEF ShapeInv, Shaped, Whole
<1>2. drive.swap \in 0 .. Swap
  BY <1>1 DEF DriveRecords, Swaps
<1>3. CASE StepStill
  BY <1>3 DEF StepStill, SensorInv
<1>4. CASE StepPort
  <2>1. PICK step \in Steps, motor \in BOOLEAN, zone \in Zones :
          drive' = OnPortOut(drive, step, motor, zone)
    BY <1>4 DEF StepPort
  <2>2. drive'.swap = drive.swap /\ drive'.image = drive.image
    BY <1>1, <2>1 DEF OnPortOut, Moved, DriveRecords
  <2>3. QED
    BY <1>4, <2>2 DEF StepPort, SensorInv, Notch
<1>5. CASE StepMode
  <2>1. PICK writing \in BOOLEAN, soe \in BOOLEAN :
          drive' = [drive EXCEPT !.writing = writing, !.soe = soe]
    BY <1>5 DEF StepMode
  <2>2. drive'.swap = drive.swap /\ drive'.image = drive.image
    BY <1>1, <2>1 DEF DriveRecords
  <2>3. QED
    BY <1>5, <2>2 DEF StepMode, SensorInv, Notch
<1>6. CASE StepData
  <2>1. PICK byte \in Bytes : drive' = [drive EXCEPT !.out = byte]
    BY <1>6 DEF StepData
  <2>2. drive'.swap = drive.swap /\ drive'.image = drive.image
    BY <1>1, <2>1, OutIs
  <2>3. QED
    BY <1>6, <2>2 DEF StepData, SensorInv, Notch
<1>7. CASE StepInsert
  <2>1. drive'.swap = Swap
    BY <1>1, <1>7 DEF StepInsert, Inserted, DriveRecords
  <2>2. QED
    BY <1>7, <2>1 DEF StepInsert, SensorInv, Shows
<1>8. CASE StepUpdate
  <2>1. PICK first \in FirstNoise, later \in LaterNoise :
          drive' = Updated(drive, first, later)
    BY <1>8 DEF StepUpdate
  <2>2. CASE drive.swap = 0
    <3>1. drive'.swap = drive.swap /\ drive'.image = drive.image
      BY <1>1, <2>1, <2>2, UpdatedIs DEF Mounted
    <3>2. sensor' = sensor
      BY <1>8, <2>2 DEF StepUpdate
    <3>3. QED
      BY <3>1, <3>2 DEF SensorInv, Notch
  <2>3. CASE drive.swap > 0
    <3> DEFINE e == Swapped(drive)
    <3>1. /\ e.swap = drive.swap - 1 /\ e.image = drive.image
          /\ e.PB4 = IF e.swap = 0 THEN drive.image \notin ReadOnly
                     ELSE e.swap <= NoDisk + Inserting /\ e.swap > Inserting
      BY <1>1, <2>3, SwappedIs
    <3>2. drive' = e
      BY <1>1, <2>1, <2>3, UpdatedIs
    <3> HIDE DEF e
    <3> DEFINE s == drive.swap
               notch == Notch(drive)
               pb4 == drive'.PB4
               x == sensor
    <3>3. s \in 1 .. Swap /\ drive'.swap = s - 1 /\ drive'.image = drive.image
      BY <1>2, <2>3, <3>1, <3>2 DEF Swap
    <3>4. Notch(drive') = notch
      BY <3>3 DEF Notch
    <3>5. pb4 = IF s - 1 = 0 THEN notch
                ELSE IF s - 1 <= NoDisk + Inserting /\ s - 1 > Inserting THEN TRUE
                ELSE FALSE
      <4>1. drive'.swap = s - 1 /\ pb4 = e.PB4 /\ e.swap = s - 1
        BY <3>1, <3>2, <3>3
      <4>2. CASE s - 1 = 0
        <5>1. pb4 = (drive.image \notin ReadOnly)
          BY <3>1, <4>1, <4>2, Zenon
        <5>2. QED
          BY <4>2, <5>1, Zenon DEF Notch
      <4>3. CASE s - 1 # 0
        <5>1. pb4 = (s - 1 <= NoDisk + Inserting /\ s - 1 > Inserting)
          BY <3>1, <4>1, <4>3, Zenon
        <5>2. QED
          BY <4>3, <5>1, Zenon
      <4>4. QED
        BY <4>2, <4>3
    <3>6. x = Shows(s, notch, TRUE, FALSE)
      BY DEF SensorInv
    <3>7. sensor' = Sampled(x, pb4)
      <4>1. sensor' = IF drive.swap > 0
                           /\ (sensor = <<>> \/ sensor[Len(sensor)] # drive'.PB4)
                      THEN Append(sensor, drive'.PB4) ELSE sensor
        BY <1>8, Zenon DEF StepUpdate
      <4>2. CASE sensor = <<>> \/ sensor[Len(sensor)] # drive'.PB4
        <5>1. sensor' = Append(sensor, drive'.PB4)
          BY <2>3, <4>1, <4>2
        <5>2. QED
          BY <4>2, <5>1 DEF Sampled
      <4>3. CASE ~(sensor = <<>> \/ sensor[Len(sensor)] # drive'.PB4)
        <5>1. sensor' = sensor
          BY <4>1, <4>3
        <5>2. QED
          BY <4>3, <5>1 DEF Sampled
      <4>4. QED
        BY <4>2, <4>3
    <3>8. notch \in {TRUE, FALSE} /\ TRUE # FALSE
      BY Zenon DEF Notch
    <3> HIDE DEF s, notch, pb4, x
    <3>9. Shows(s - 1, notch, TRUE, FALSE) = Sampled(x, pb4)
      <4> DEFINE on == TRUE
                 off == FALSE
      <4>1. on # off /\ notch \in {on, off}
        BY <3>8
      <4>2. pb4 = Level(s - 1, notch, on, off)
        BY <3>5, Zenon DEF Level
      <4>3. x = Shows(s, notch, on, off)
        BY <3>6
      <4>4. s \in 1 .. Swap
        BY <3>3
      <4> HIDE DEF on, off
      <4>5. Shows(s - 1, notch, on, off) = Sampled(x, pb4)
        BY <4>1, <4>2, <4>3, <4>4, ShowsMore
      <4>6. QED
        BY <4>5 DEF on, off
    <3>10. QED
      BY <3>3, <3>4, <3>7, <3>9, Zenon DEF SensorInv
  <2>4. QED
    BY <1>2, <2>2, <2>3
<1>9. QED
  BY <1>3, <1>4, <1>5, <1>6, <1>7, <1>8, DriveSteps

\* However often disks are swapped, the sensor shows the one leave, the gap, the other
\* come, and its notch.
THEOREM SwapSeen == Spec => []SwapIsSeen
<1>1. Init => ShapeInv /\ SensorInv
  <2> SUFFICES ASSUME Init PROVE SensorInv
    BY ResetShaped DEF Init, ShapeInv
  <2>2. drive.swap = Swap /\ sensor = <<>>
    BY DEF Init, DriveReset
  <2>3. QED
    BY <2>2 DEF SensorInv, Shows
<1>2. (ShapeInv /\ SensorInv) /\ [Next]_vars => (ShapeInv /\ SensorInv)'
  BY ShapedStep, SensorStep
<1>3. SensorInv => SwapIsSeen
  <2> SUFFICES ASSUME SensorInv, drive.swap = 0
               PROVE  sensor = <<FALSE, TRUE, FALSE>>
                                 \o (IF drive.image \in ReadOnly THEN <<>> ELSE <<TRUE>>)
    BY DEF SwapIsSeen
  <2>2. 0 # Swap /\ ~(0 > NoDisk + Inserting) /\ ~(0 > Inserting)
    BY DriveAssumption DEF Swap
  <2>3. ASSUME NEW on, NEW off, on # off, NEW notch \in {on, off}
        PROVE  Shows(0, notch, on, off)
                 = <<off, on, off>> \o (IF notch = off THEN <<>> ELSE <<on>>)
    <3>1. Shows(0, notch, on, off)
            = IF notch = off THEN <<off, on, off>> ELSE <<off, on, off, on>>
      BY <2>2 DEF Shows
    <3>2. <<off, on, off>> \o <<>> = <<off, on, off>>
          /\ <<off, on, off>> \o <<on>> = <<off, on, off, on>>
      <4> DEFINE T == {on, off}
                 x == <<off, on, off>>
      <4>1. x \in Seq(T) /\ on \in T /\ x # <<>> /\ Len(x) = 3 /\ x[3] = off
        OBVIOUS
      <4> HIDE DEF T
      <4>2. Append(x, on) = <<off, on, off, on>>
        <5>1. Sampled(x, on) = <<off, on, off, on>>
          BY <2>3, Sampling, Zenon
        <5> HIDE DEF x
        <5>2. Sampled(x, on) = Append(x, on)
          BY <2>3, <4>1 DEF Sampled
        <5>3. QED
          BY <5>1, <5>2
      <4> HIDE DEF x
      <4>3. x \o <<>> = x
        BY <4>1, ConcatEmptySeq, Zenon
      <4>4. x \o <<on>> = Append(x, on)
        BY <4>1, AppendIsConcat
      <4>5. QED
        BY <4>2, <4>3, <4>4, Zenon DEF x
    <3>3. QED
      BY <3>1, <3>2, Zenon
  <2>4. Notch(drive) \in {TRUE, FALSE} /\ TRUE # FALSE
        /\ (Notch(drive) = FALSE <=> drive.image \in ReadOnly)
    BY Zenon DEF Notch
  <2>5. Shows(0, Notch(drive), TRUE, FALSE)
          = <<FALSE, TRUE, FALSE>> \o (IF Notch(drive) = FALSE THEN <<>> ELSE <<TRUE>>)
    BY <2>3, <2>4, Zenon
  <2>6. QED
    BY <2>4, <2>5, Zenon DEF SensorInv
<1>4. QED
  BY <1>1, <1>2, <1>3, PTL DEF Spec
-----------------------------------------------------------------------------
(* What an Update writes *)

\* What an Update that writes does: nothing, or it puts the next bit, or takes the next
\* byte, or takes it and puts its first bit.
Leaves(d, e) == Stays(d, e) /\ e.UE3 = d.UE3 /\ e.writeShift = d.writeShift
Puts(d, e) ==
  /\ d.UE3 < ByteBits /\ Writes(d, e, d.writeShift[1])
  /\ e.UE3 = d.UE3 + 1 /\ e.writeShift = Shifted(d.writeShift, 0)
Loads(d, e) ==
  d.UE3 = ByteBits /\ Stays(d, e) /\ e.UE3 = 0 /\ e.writeShift = d.out
LoadsAndPuts(d, e) ==
  /\ d.UE3 = ByteBits /\ Writes(d, e, d.out[1])
  /\ e.UE3 = 1 /\ e.writeShift = Shifted(d.out, 0)
Wrote(d, e) == Leaves(d, e) \/ Puts(d, e) \/ Loads(d, e) \/ LoadsAndPuts(d, e)

\* The pulses of UE7 in the first n cycles.
Pulse(d, k) == (d.UF4 + k) % 16
AtStart(d, n, e) == Leaves(d, e) /\ e.UF4 = d.UF4 /\ e.UE7 = d.UE7 + n
AfterOne(d, n, e) ==
  /\ e.UF4 = Pulse(d, 1) /\ e.UE7 = d.UE7 + n - UE7Count + d.CLOCK_SEL_AB
  /\ e.UE3 = ByteBits => e.UF4 % 4 \in {2, 3}
  /\ \/ Leaves(d, e) /\ e.UF4 % 4 # 2
     \/ Puts(d, e) /\ e.UF4 % 4 = 2
     \/ Loads(d, e) /\ e.UF4 % 4 < 2
AfterTwo(d, n, e) ==
  /\ e.UE7 = d.UE7 + n - 2 * UE7Count + 2 * d.CLOCK_SEL_AB
  /\ Wrote(d, e)
SoFar(d, n, e) ==
  /\ d.writing /\ Mounted(d, e)
  /\ AtStart(d, n, e) \/ AfterOne(d, n, e) \/ AfterTwo(d, n, e)

LEMMA Numbers ==
  ASSUME NEW d, Shaped(d)
  PROVE  /\ d.UE7 \in 0 .. UE7Count - 1 /\ d.UF4 \in 0 .. 15 /\ d.UE3 \in 0 .. ByteBits
         /\ d.CLOCK_SEL_AB \in 0 .. Fastest /\ d.swap \in Nat /\ d.headBitOffset \in Nat
         /\ d.cyclesForBit \in 0 .. 4 * UE7Count - 1 /\ d.noise \in 1 .. 25 * UE7Count
         /\ d.UE3 = ByteBits => d.UF4 % 4 # 1
BY DriveAssumption DEF Shaped, Whole, DriveRecords, Counts7, Counts4, Counts3, Zones, Swaps, Swap,
   Cycled, Noises

\* A disk that stays is the same one to the next pulse.
LEMMA StaysThen ==
  ASSUME NEW d, NEW e, NEW f, Mounted(d, e), Stays(d, e)
  PROVE  /\ Stays(e, f) => Stays(d, f)
         /\ \A bit : Writes(e, f, bit) => Writes(d, f, bit)
<1>1. Track(e) = Track(d) /\ Length(e) = Length(d) /\ Advanced(e) = Advanced(d)
  BY DEF Stays, Mounted, Track, Length, Advanced
<1>2. Stays(e, f) => Stays(d, f)
  BY DEF Stays
<1>3. ASSUME NEW bit, Writes(e, f, bit) PROVE Writes(d, f, bit)
  BY <1>1, <1>3 DEF Stays, Mounted, Writes
<1>4. QED
  BY <1>2, <1>3

LEMMA WritesThen ==
  ASSUME NEW d, NEW e, NEW f, NEW bit, Mounted(d, e), Mounted(e, f), Writes(d, e, bit), Stays(e, f)
  PROVE  Writes(d, f, bit)
<1>1. Track(f) = Track(e)
  BY DEF Stays, Mounted, Track
<1>2. QED
  BY <1>1 DEF Stays, Mounted, Writes

\* A cycle without a pulse.
LEMMA TickWrites ==
  ASSUME NEW d, Shaped(d), NEW e, NEW f, NEW n \in Nat, SoFar(d, n, e), Ticks(e, f)
  PROVE  SoFar(d, n + 1, f)
<1>1. Mounted(d, e) /\ Mounted(e, f) /\ Mounted(d, f) /\ Counting(e, f)
      /\ f.UF4 = e.UF4 /\ f.UE7 = e.UE7 + 1 /\ d.writing
  BY DEF SoFar, Ticks, Mounted
<1>2. Leaves(d, e) => Leaves(d, f)
  BY <1>1, StaysThen DEF Leaves, Counting
<1>3. Puts(d, e) => Puts(d, f)
  BY <1>1, WritesThen DEF Puts, Counting
<1>4. Loads(d, e) => Loads(d, f)
  BY <1>1, StaysThen DEF Loads, Counting
<1>5. LoadsAndPuts(d, e) => LoadsAndPuts(d, f)
  BY <1>1, WritesThen DEF LoadsAndPuts, Counting
<1>6. d.UE7 \in Nat /\ UE7Count \in Nat /\ d.CLOCK_SEL_AB \in Nat
  BY Numbers, Sizes
<1>7. f.UE3 = e.UE3
  BY <1>1 DEF Counting
<1>8. CASE AtStart(d, n, e)
  <2>1. AtStart(d, n + 1, f)
    BY <1>1, <1>2, <1>6, <1>8 DEF AtStart
  <2>2. QED
    BY <1>1, <2>1 DEF SoFar
<1>9. CASE AfterOne(d, n, e)
  <2>1. AfterOne(d, n + 1, f)
    BY <1>1, <1>2, <1>3, <1>4, <1>6, <1>7, <1>9 DEF AfterOne
  <2>2. QED
    BY <1>1, <2>1 DEF SoFar
<1>10. CASE AfterTwo(d, n, e)
  <2>1. AfterTwo(d, n + 1, f)
    BY <1>1, <1>2, <1>3, <1>4, <1>5, <1>6, <1>10 DEF AfterTwo, Wrote
  <2>2. QED
    BY <1>1, <2>1 DEF SoFar
<1>11. QED
  BY <1>8, <1>9, <1>10 DEF SoFar

\* One that pulses.
LEMMA PulseWrites ==
  ASSUME NEW d, Shaped(d), NEW e, Shaped(e), NEW n \in 0 .. UE7Count - 1, SoFar(d, n, e),
         e.UE7 + 1 = UE7Count
  PROVE  SoFar(d, n + 1, Clocked4(e))
<1> DEFINE f == Clocked4(e)
           u == (e.UF4 + 1) % 16
<1>1. /\ Pulses(e, f)
      /\ u % 4 = 2 => e.UE3 < ByteBits /\ Shifting(e, f)
      /\ u % 4 < 2 /\ e.UE3 = ByteBits => Latching(e, f)
      /\ u % 4 # 2 /\ ~(u % 4 < 2 /\ e.UE3 = ByteBits) => Counting(e, f)
  BY PulseIs
<1> SUFFICES SoFar(d, n + 1, f)
  OBVIOUS
<1> HIDE DEF f
<1>2. /\ Mounted(d, e) /\ Mounted(e, f) /\ Mounted(d, f) /\ d.writing /\ e.writing
      /\ f.UE7 = d.CLOCK_SEL_AB /\ f.UF4 = u /\ e.out = d.out
  BY <1>1 DEF SoFar, Pulses, Mounted
<1>3. /\ d.UE7 \in 0 .. UE7Count - 1 /\ d.UF4 \in 0 .. 15 /\ d.UE3 \in 0 .. ByteBits
      /\ e.UF4 \in 0 .. 15 /\ e.UE3 \in 0 .. ByteBits
      /\ UE7Count \in Nat /\ d.CLOCK_SEL_AB \in 0 .. Fastest /\ Fastest \in Nat
      /\ Fastest < UE7Count /\ 2 * Fastest <= UE7Count /\ ByteBits \in Nat /\ ByteBits > 2
  BY Numbers, Sizes
<1>4. u \in 0 .. 15 /\ u % 4 = (e.UF4 + 1) % 4
  BY <1>3
<1> HIDE DEF u
<1>5. ~AtSync(e)
  BY <1>2 DEF AtSync
<1>6. Shifting(e, f) => /\ Writes(e, f, e.writeShift[1]) /\ f.UE3 = e.UE3 + 1
                        /\ f.writeShift = Shifted(e.writeShift, 0)
  BY <1>2, <1>5 DEF Shifting
<1>7. Latching(e, f) => Stays(e, f) /\ f.UE3 = 0 /\ f.writeShift = d.out
  BY <1>2 DEF Latching
<1>8. Counting(e, f) => Stays(e, f) /\ f.UE3 = e.UE3 /\ f.writeShift = e.writeShift
  BY DEF Counting
<1>13. Stays(d, e) => /\ Stays(e, f) => Stays(d, f)
                      /\ \A bit : Writes(e, f, bit) => Writes(d, f, bit)
  BY <1>2, StaysThen
<1>14. ASSUME NEW bit, Writes(d, e, bit), Stays(e, f) PROVE Writes(d, f, bit)
  BY <1>2, <1>14, WritesThen
<1>15. AfterOne(d, n + 1, f) \/ AfterTwo(d, n + 1, f) => SoFar(d, n + 1, f)
  BY <1>2, Zenon DEF SoFar
<1>16. Wrote(d, f) /\ f.UE7 = d.UE7 + (n + 1) - 2 * UE7Count + 2 * d.CLOCK_SEL_AB
         => AfterTwo(d, n + 1, f)
  BY DEF AfterTwo
<1>9. CASE AtStart(d, n, e)
  <2>1. f.UF4 = Pulse(d, 1)
    BY <1>2, <1>9 DEF AtStart, Pulse, u
  <2>2. f.UE7 = d.UE7 + (n + 1) - UE7Count + d.CLOCK_SEL_AB
    BY <1>2, <1>3, <1>9 DEF AtStart
  <2>3. Leaves(d, e) /\ e.UE3 = d.UE3 /\ e.writeShift = d.writeShift
    BY <1>9 DEF AtStart, Leaves
  <2>4. CASE u % 4 = 2
    <3>1. Puts(d, f)
      BY <1>1, <1>6, <1>13, <2>3, <2>4 DEF Leaves, Puts
    <3>2. QED
      BY <1>2, <1>3, <1>15, <2>1, <2>2, <2>4, <3>1 DEF AfterOne
  <2>5. CASE u % 4 < 2 /\ e.UE3 = ByteBits
    <3>1. Loads(d, f)
      BY <1>1, <1>2, <1>7, <2>3, <2>5, <1>13 DEF Leaves, Loads
    <3>2. f.UE3 # ByteBits
      BY <1>3, <3>1 DEF Loads
    <3>3. QED
      BY <1>2, <1>3, <1>15, <2>1, <2>2, <2>5, <3>1, <3>2 DEF AfterOne
  <2>6. CASE u % 4 # 2 /\ ~(u % 4 < 2 /\ e.UE3 = ByteBits)
    <3>1. Leaves(d, f)
      BY <1>1, <1>2, <1>8, <2>3, <2>6, <1>13 DEF Leaves
    <3>2. f.UE3 = ByteBits => u % 4 = 3
      BY <1>1, <1>4, <1>8, <2>6
    <3>3. QED
      BY <1>2, <1>3, <1>15, <2>1, <2>2, <2>6, <3>1, <3>2 DEF AfterOne
  <2>7. QED
    BY <2>4, <2>5, <2>6
<1>10. CASE AfterOne(d, n, e)
  <2>1. f.UE7 = d.UE7 + (n + 1) - 2 * UE7Count + 2 * d.CLOCK_SEL_AB
    BY <1>2, <1>3, <1>10 DEF AfterOne
  <2>2. CASE Leaves(d, e) /\ e.UF4 % 4 # 2
    <3>1. e.UE3 = d.UE3 /\ e.writeShift = d.writeShift /\ Stays(d, e)
      BY <2>2 DEF Leaves
    <3>2. CASE u % 4 = 2
      <4>1. Puts(d, f)
        BY <1>1, <1>2, <1>6, <3>1, <3>2, <1>13 DEF Puts
      <4>2. QED
        BY <1>15, <1>16, <2>1, <4>1, Zenon DEF Wrote
    <3>3. CASE u % 4 < 2 /\ e.UE3 = ByteBits
      <4>1. Loads(d, f)
        BY <1>1, <1>2, <1>7, <3>1, <3>3, <1>13 DEF Loads
      <4>2. QED
        BY <1>15, <1>16, <2>1, <4>1, Zenon DEF Wrote
    <3>4. CASE u % 4 # 2 /\ ~(u % 4 < 2 /\ e.UE3 = ByteBits)
      <4>1. Leaves(d, f)
        BY <1>1, <1>2, <1>8, <3>1, <3>4, <1>13 DEF Leaves
      <4>2. QED
        BY <1>15, <1>16, <2>1, <4>1, Zenon DEF Wrote
    <3>5. QED
      BY <3>2, <3>3, <3>4
  <2>3. CASE Puts(d, e) /\ e.UF4 % 4 = 2
    <3>1. u % 4 = 3
      BY <1>3, <1>4, <2>3
    <3>2. Counting(e, f)
      BY <1>1, <3>1
    <3>3. Puts(d, f)
      BY <1>2, <1>8, <2>3, <3>2, <1>14 DEF Puts
    <3>4. QED
      BY <1>15, <1>16, <2>1, <3>3, Zenon DEF Wrote
  <2>4. CASE Loads(d, e) /\ e.UF4 % 4 < 2
    <3>1. e.UE3 = 0 /\ e.writeShift = d.out /\ Stays(d, e) /\ d.UE3 = ByteBits
      BY <2>4 DEF Loads
    <3>2. CASE u % 4 = 2
      <4>1. f.UE3 = 1
        BY <1>1, <1>6, <3>1, <3>2
      <4>2. LoadsAndPuts(d, f)
        BY <1>1, <1>2, <1>6, <3>1, <3>2, <4>1, <1>13 DEF LoadsAndPuts
      <4>3. QED
        BY <1>15, <1>16, <2>1, <4>2, Zenon DEF Wrote
    <3>3. CASE u % 4 # 2
      <4>1. Counting(e, f)
        BY <1>1, <1>3, <3>1, <3>3
      <4>2. Loads(d, f)
        BY <1>2, <1>8, <3>1, <4>1, <1>13 DEF Loads
      <4>3. QED
        BY <1>15, <1>16, <2>1, <4>2, Zenon DEF Wrote
    <3>4. QED
      BY <3>2, <3>3
  <2>5. QED
    BY <1>10, <2>2, <2>3, <2>4 DEF AfterOne
<1>11. ~AfterTwo(d, n, e)
  <2>1. SUFFICES ASSUME e.UE7 = d.UE7 + n - 2 * UE7Count + 2 * d.CLOCK_SEL_AB PROVE FALSE
    BY DEF AfterTwo
  <2>2. QED
    BY <1>3, <2>1
<1>12. QED
  BY <1>9, <1>10, <1>11 DEF SoFar, f

LEMMA CyclesWrite ==
  ASSUME NEW d, Shaped(d), d.writing, NEW first \in Noises, NEW later \in Noises
  PROVE  LET e == Cycles(d, first, later)
         IN  Shaped(e) /\ Mounted(d, e) /\ Wrote(d, e)
<1> DEFINE J == {p \in Nat \X DriveRecords : SoFar(d, p[1], p[2])}
<1>1. \A e : Shaped(e) => e \in DriveRecords
  BY DEF Shaped, Whole
<1>2. SoFar(d, 0, d)
  <2>1. Mounted(d, d) /\ Leaves(d, d) /\ d.UE7 \in Nat
    BY Numbers DEF Mounted, Leaves, Stays
  <2>2. QED
    BY <2>1 DEF SoFar, AtStart
<1>3. <<0, d>> \in J
  BY <1>1, <1>2
<1>4. ASSUME NEW n \in 0 .. UE7Count - 1, NEW e, Shaped(e), <<n, e>> \in J
      PROVE  <<n + 1, Cycle(e, first, later)>> \in J
  <2> DEFINE f == Cycle(e, first, later)
  <2>1. SoFar(d, n, e) /\ n \in Nat /\ e.writing
    BY <1>4, Sizes DEF SoFar, Mounted
  <2>2. Shaped(f) /\ Clocks(e, f)
    <3> DEFINE read == IF e.writing THEN e ELSE Amplified(e, first, later)
    <3>1. Shaped(f) /\ Clocks(read, f)
      BY <1>4, CycleIs
    <3>2. read = e
      BY <2>1
    <3> HIDE DEF f, read
    <3>3. QED
      BY <3>1, <3>2
  <2> HIDE DEF f
  <2>3. SoFar(d, n + 1, f)
    <3>1. CASE e.UE7 + 1 = UE7Count
      <4>1. f = Clocked4(e)
        BY <2>2, <3>1 DEF Clocks
      <4>2. SoFar(d, n + 1, Clocked4(e))
        BY <1>4, <2>1, <3>1, PulseWrites
      <4>3. QED
        BY <4>1, <4>2
    <3>2. CASE e.UE7 + 1 # UE7Count
      <4>1. Ticks(e, f)
        BY <2>2, <3>2 DEF Clocks
      <4>2. QED
        BY <2>1, <4>1, TickWrites
    <3>3. QED
      BY <3>1, <3>2
  <2>4. QED
    BY <1>1, <2>1, <2>2, <2>3 DEF f
<1> HIDE DEF J
<1>5. Shaped(Cycles(d, first, later)) /\ <<UE7Count, Cycles(d, first, later)>> \in J
  BY <1>3, <1>4, CyclesHave
<1>6. SoFar(d, UE7Count, Cycles(d, first, later))
  BY <1>5 DEF J
<1>7. QED
  BY <1>5, <1>6, Zenon DEF SoFar, AtStart, AfterOne, AfterTwo, Wrote

\* An Update that reads leaves the disks alone.
Spares(d, e) == Mounted(d, e) /\ e.tracks = d.tracks /\ e.dirty = d.dirty
LEMMA CyclesSpare ==
  ASSUME NEW d, Shaped(d), ~d.writing, NEW first \in Noises, NEW later \in Noises
  PROVE  LET e == Cycles(d, first, later) IN Shaped(e) /\ Spares(d, e)
<1> DEFINE J == {p \in Nat \X DriveRecords : Spares(d, p[2])}
<1>1. \A e : Shaped(e) => e \in DriveRecords
  BY DEF Shaped, Whole
<1>2. <<0, d>> \in J
  BY <1>1 DEF Spares, Mounted
<1>3. ASSUME NEW n \in 0 .. UE7Count - 1, NEW e, Shaped(e), <<n, e>> \in J
      PROVE  <<n + 1, Cycle(e, first, later)>> \in J
  <2> DEFINE f == Cycle(e, first, later)
             read == IF e.writing THEN e ELSE Amplified(e, first, later)
  <2>1. Spares(d, e) /\ n + 1 \in Nat
    BY <1>3, Sizes
  <2>2. Shaped(f) /\ Clocks(read, f) /\ Shaped(read) /\ Turns(e, read)
    BY <1>3, CycleIs
  <2> HIDE DEF f, read
  <2>3. Spares(d, read) /\ ~read.writing
    BY <2>1, <2>2 DEF Spares, Turns, Mounted
  <2>4. Stays(read, f) /\ Mounted(read, f)
    <3>1. CASE read.UE7 + 1 = UE7Count
      <4>1. f = Clocked4(read)
        BY <2>2, <3>1 DEF Clocks
      <4> DEFINE c == Clocked4(read)
                 u == (read.UF4 + 1) % 16
      <4>2. /\ Pulses(read, c)
            /\ u % 4 = 2 => Shifting(read, c)
            /\ u % 4 < 2 /\ read.UE3 = ByteBits => Latching(read, c)
            /\ u % 4 # 2 /\ ~(u % 4 < 2 /\ read.UE3 = ByteBits) => Counting(read, c)
        BY <2>2, PulseIs
      <4> HIDE DEF c, u
      <4>3. Shifting(read, c) \/ Latching(read, c) \/ Counting(read, c)
        BY <4>2, Zenon
      <4>4. QED
        BY <2>3, <4>1, <4>2, <4>3 DEF c, Pulses, Shifting, Latching, Counting
    <3>2. CASE read.UE7 + 1 # UE7Count
      BY <2>2, <3>2 DEF Clocks, Ticks, Counting
    <3>3. QED
      BY <3>1, <3>2
  <2>5. Spares(d, f)
    BY <2>3, <2>4 DEF Spares, Stays, Mounted
  <2>6. QED
    BY <1>1, <2>1, <2>2, <2>5 DEF f
<1> HIDE DEF J
<1>4. Shaped(Cycles(d, first, later)) /\ <<UE7Count, Cycles(d, first, later)>> \in J
  BY <1>2, <1>3, CyclesHave
<1>5. QED
  BY <1>4 DEF J

LEMMA UpdateWrites ==
  ASSUME NEW d, Shaped(d), NEW first \in FirstNoise, NEW later \in LaterNoise
  PROVE  LET e == Updated(d, first, later)
         IN  IF Reads(d) /\ d.writing THEN Mounted(d, e) /\ Wrote(d, e)
             ELSE e.tracks = d.tracks /\ e.dirty = d.dirty
<1> DEFINE e == Updated(d, first, later)
<1>1. first \in Noises /\ later \in Noises
  BY NoiseType
<1>2. CASE Reads(d)
  <2> DEFINE s == [d EXCEPT !.SO = FALSE]
             f == Cycles(s, first, later)
  <2>1. /\ Shaped(s) /\ Mounted(d, s) /\ Stays(d, s) /\ s.UE3 = d.UE3
        /\ s.writeShift = d.writeShift
    BY SilentIs
  <2>2. e = f
    <3>1. Updated(d, first, later) = Spun(d, first, later)
      BY <1>2, UpdatedIs
    <3>2. Spun(d, first, later) = f
      BY Zenon DEF Spun
    <3>3. QED
      BY <3>1, <3>2, Zenon
  <2> HIDE DEF s, e
  <2>3. CASE d.writing
    <3>0. s.writing
      BY <2>1, <2>3 DEF Mounted
    <3>1. Mounted(s, f) /\ Wrote(s, f)
      BY <1>1, <2>1, <3>0, CyclesWrite, Zenon
    <3> HIDE DEF f
    <3>2. s.out = d.out
      BY <2>1 DEF Mounted
    <3>3. Stays(s, f) => Stays(d, f)
      BY <2>1, StaysThen
    <3>4. \A bit : Writes(s, f, bit) => Writes(d, f, bit)
      BY <2>1, StaysThen
    <3>5. Wrote(d, f)
      BY <2>1, <3>1, <3>2, <3>3, <3>4 DEF Wrote, Leaves, Puts, Loads, LoadsAndPuts
    <3>6. Mounted(d, f)
      BY <2>1, <3>1 DEF Mounted
    <3>7. QED
      BY <1>2, <2>2, <2>3, <3>5, <3>6 DEF e
  <2>4. CASE ~d.writing
    <3>1. Spares(s, f)
      BY <1>1, <2>1, <2>4, CyclesSpare DEF Mounted
    <3> HIDE DEF f
    <3>2. f.tracks = d.tracks /\ f.dirty = d.dirty
      BY <2>1, <3>1 DEF Spares, Stays
    <3>3. QED
      BY <2>2, <2>4, <3>2 DEF e
  <2>5. QED
    BY <2>3, <2>4
<1>3. CASE ~Reads(d)
  <2>1. CASE d.swap > 0
    <3> DEFINE f == Swapped(d)
    <3>1. Counting(d, f)
      BY <2>1, SwappedIs
    <3>2. e = f
      BY <2>1, UpdatedIs
    <3> HIDE DEF e, f
    <3>3. QED
      BY <1>3, <3>1, <3>2 DEF Counting, Stays, e
  <2>2. CASE ~(d.swap > 0)
    <3>1. d.swap = 0 /\ ~d.motor
      BY <1>3, <2>2, Numbers DEF Reads
    <3>2. e = d
      BY <3>1, UpdatedIs
    <3>3. QED
      BY <1>3, <3>2
  <2>3. QED
    BY <2>1, <2>2
<1>4. QED
  BY <1>2, <1>3

-----------------------------------------------------------------------------
(* The bits of a byte that are written *)

\* A place is n bits before the head has passed w of them.
Behind(d, w, n) == (d.headBitOffset + Length(d) - w + n) % Length(d)
Loaded(p, d) ==
  p.loaded =>
    /\ Reads(d) /\ InZone(d) /\ d.writing /\ d.UE3 = p.written
    /\ \A i \in 1 .. ByteBits :
         p.written + i <= ByteBits => d.writeShift[i] = p.byte[p.written + i]
    /\ \A n \in 1 .. p.written : Track(d)[Behind(d, p.written, n) + 1] = p.byte[n]
Marked(d) ==
  \A i \in Images, t \in Tracks : d.tracks[i][t] # Content[i][t] => <<i, t>> \in d.dirty

LEMMA Wraps ==
  ASSUME NEW m \in Nat, m > 0, NEW y \in Nat, y < 2 * m
  PROVE  y % m = IF y < m THEN y ELSE y - m
<1>1. /\ y \div m \in Nat /\ y % m \in 0 .. m - 1 /\ y = ((y \div m) * m) + (y % m)
  BY Division
<1> DEFINE a == y \div m
           r == y % m
<1>2. a \in Nat /\ r \in 0 .. m - 1 /\ y = (a * m) + r
  BY <1>1
<1> HIDE DEF a, r
<1>3. CASE a = 0
  BY <1>2, <1>3 DEF r
<1>4. CASE a = 1
  BY <1>2, <1>4 DEF r
<1>5. ~(a >= 2)
  <2>1. SUFFICES ASSUME a >= 2 PROVE FALSE
    OBVIOUS
  <2>2. a * m >= 2 * m /\ a * m \in Int
    BY <1>2, <2>1, Products
  <2> DEFINE am == a * m
  <2>3. am >= 2 * m /\ am \in Int /\ y = am + r
    BY <1>2, <2>2
  <2> HIDE DEF am
  <2>4. QED
    BY <1>2, <2>3
<1>6. QED
  BY <1>2, <1>3, <1>4, <1>5

LEMMA BehindIs ==
  ASSUME NEW d, Shaped(d), NEW w \in 0 .. ByteBits, NEW n \in 1 .. w
  PROVE  LET x == d.headBitOffset - w + n
         IN  Behind(d, w, n) = IF x >= 0 THEN x ELSE x + Length(d)
<1> DEFINE m == Length(d)
           y == d.headBitOffset + m - w + n
<1>1. m \in Nat /\ m > ByteBits /\ d.headBitOffset \in Nat /\ d.headBitOffset < m
  BY TrackType, Numbers DEF Shaped, Whole
<1> HIDE DEF m
<1>2. m > 0 /\ y \in Nat /\ y < 2 * m
  BY <1>1, Sizes
<1>3. y % m = IF y < m THEN y ELSE y - m
  BY <1>1, <1>2, Wraps
<1>4. QED
  BY <1>1, <1>3, Sizes DEF Behind, m

\* A bit more behind the head: those that were there keep their places.
LEMMA BehindMore ==
  ASSUME NEW d, Shaped(d), NEW e, Shaped(e), NEW w \in 0 .. ByteBits - 1,
         e.headBitOffset = Advanced(d), Length(e) = Length(d)
  PROVE  /\ Behind(e, w + 1, w + 1) = Advanced(d)
         /\ \A n \in 1 .. w : /\ Behind(e, w + 1, n) = Behind(d, w, n)
                              /\ Behind(d, w, n) # Advanced(d)
                              /\ Behind(d, w, n) \in 0 .. Length(d) - 1
<1> DEFINE m == Length(d)
           x == d.headBitOffset
           y == Advanced(d)
<1>1. /\ m \in Nat /\ m > ByteBits /\ x \in Nat /\ x < m /\ y \in 0 .. m - 1
      /\ y = IF x = m - 1 THEN 0 ELSE x + 1
  BY TrackType, Numbers, AdvancedIs DEF Shaped, Whole
<1>2. w \in Nat /\ w + 1 \in 0 .. ByteBits /\ w + 1 \in 1 .. w + 1 /\ w \in 0 .. ByteBits
  BY Sizes
<1>3. Behind(e, w + 1, w + 1) = y
  <2>1. Behind(e, w + 1, w + 1)
          = IF y - (w + 1) + (w + 1) >= 0 THEN y - (w + 1) + (w + 1)
            ELSE y - (w + 1) + (w + 1) + Length(e)
    BY <1>2, BehindIs
  <2> HIDE DEF y, m
  <2>2. QED
    BY <1>1, <1>2, <2>1
<1>4. ASSUME NEW n \in 1 .. w
      PROVE  /\ Behind(e, w + 1, n) = Behind(d, w, n) /\ Behind(d, w, n) # y
             /\ Behind(d, w, n) \in 0 .. m - 1
  <2>1. n \in 1 .. w + 1
    BY <1>2
  <2>2. Behind(e, w + 1, n)
          = IF y - (w + 1) + n >= 0 THEN y - (w + 1) + n ELSE y - (w + 1) + n + m
    BY <1>2, <2>1, BehindIs
  <2>3. Behind(d, w, n) = IF x - w + n >= 0 THEN x - w + n ELSE x - w + n + m
    BY <1>2, BehindIs
  <2> HIDE DEF y, m, x
  <2>4. QED
    BY <1>1, <1>2, <2>2, <2>3, Sizes
<1>5. QED
  BY <1>3, <1>4

Freshness == {"no", "one", "yes"}
BitSeqs   == Seq(Bit)
Gone      == 0 .. ByteBits
LEMMA PassedFields ==
  PassedRecords = [fresh : Freshness, bits : BitSeqs, count : Int, ready : Nat,
                   loaded : BOOLEAN, byte : Bytes, written : Gone]
BY DEF PassedRecords, Freshness, BitSeqs, Gone

With(p, byte, w) == [p EXCEPT !.loaded = TRUE, !.byte = byte, !.written = w]
LEMMA LoadedType ==
  ASSUME NEW p \in PassedRecords, NEW byte \in Bytes, NEW w \in Gone
  PROVE  /\ With(p, byte, w) \in PassedRecords
         /\ With(p, byte, w).written = w /\ With(p, byte, w).byte = byte
BY PassedFields DEF With

\* What a byte and the history keep of an Update that writes.
LEMMA LoadedWrites ==
  ASSUME NEW d, Shaped(d), NEW e, Shaped(e), Mounted(d, e), Wrote(d, e), Reads(d), InZone(d),
         d.writing, NEW p \in PassedRecords, Loaded(p, d)
  PROVE  LET q == Passed(p, d, e) IN q \in PassedRecords /\ Loaded(q, e)
<1> DEFINE q == Passed(p, d, e)
           moved == e.headBitOffset # d.headBitOffset
           takes == d.UE3 = ByteBits /\ e.UE3 < ByteBits
           step == IF moved THEN 1 ELSE 0
<1>1. q = IF takes THEN [p EXCEPT !.loaded = TRUE, !.byte = d.out, !.written = step]
          ELSE IF p.loaded THEN [p EXCEPT !.written = @ + step] ELSE p
  BY DEF Passed
<1>2. /\ d.UE3 \in 0 .. ByteBits /\ ByteBits \in Nat /\ ByteBits > 2 /\ d.out \in Bytes
      /\ d.writeShift \in Bytes /\ d.headBitOffset \in Nat
      /\ p.written \in 0 .. ByteBits /\ p.byte \in Bytes
  BY Numbers, Sizes DEF Shaped, Whole, DriveRecords, PassedRecords
<1>3. Length(d) \in Nat /\ Advanced(d) \in 0 .. Length(d) - 1 /\ Advanced(d) # d.headBitOffset
  BY TrackType, AdvancedIs DEF Shaped, Whole
<1> SUFFICES q \in PassedRecords /\ Loaded(q, e)
  OBVIOUS
<1>4. Len(Track(e)) = Length(d) => Reads(e) /\ InZone(e) /\ e.writing /\ Length(e) = Length(d)
  BY DEF Mounted, Reads, InZone, CyclesPerBit, Length
<1>5. CASE Leaves(d, e)
  <2>1. ~moved /\ ~takes /\ e.UE3 = d.UE3 /\ e.writeShift = d.writeShift
        /\ Track(e) = Track(d) /\ e.headBitOffset = d.headBitOffset
    BY <1>2, <1>5 DEF Leaves, Stays, Mounted, Track
  <2>2. q = p
    BY <1>1, <1>2, <2>1 DEF PassedRecords
  <2> HIDE DEF q
  <2>3. Length(e) = Length(d)
    BY <2>1 DEF Length
  <2>4. \A w, n : Behind(e, w, n) = Behind(d, w, n)
    BY <2>1, <2>3 DEF Behind
  <2>5. QED
    BY <1>4, <2>1, <2>2, <2>3, <2>4 DEF Loaded, Length
<1>6. CASE Puts(d, e)
  <2> DEFINE bit == d.writeShift[1]
  <2>1. moved /\ ~takes /\ step = 1
    BY <1>2, <1>3, <1>6 DEF Puts, Writes
  <2>2. q = IF p.loaded THEN [p EXCEPT !.written = @ + 1] ELSE p
    BY <1>1, <2>1
  <2>3. /\ e.UE3 = d.UE3 + 1 /\ d.UE3 < ByteBits /\ e.writeShift = Shifted(d.writeShift, 0)
        /\ e.headBitOffset = Advanced(d) /\ Len(Track(e)) = Length(d)
        /\ Track(e)[Advanced(d) + 1] = bit
        /\ \A k \in 1 .. Length(d) : k # Advanced(d) + 1 => Track(e)[k] = Track(d)[k]
    BY <1>6 DEF Puts, Writes
  <2>4. \A i \in 1 .. ByteBits - 1 : e.writeShift[i] = d.writeShift[i + 1]
    BY <2>3, InIs
  <2> HIDE DEF q, bit, moved, takes, step
  <2>5. CASE p.loaded
    <3> DEFINE w == p.written
    <3>1. d.UE3 = w /\ w \in 0 .. ByteBits - 1 /\ w + 1 \in 0 .. ByteBits
      BY <1>2, <2>3, <2>5 DEF Loaded
    <3>2. q \in PassedRecords /\ q.written = w + 1 /\ q.byte = p.byte
      BY <2>2, <2>5, <3>1 DEF PassedRecords
    <3>3. /\ \A i \in 1 .. ByteBits : w + i <= ByteBits => d.writeShift[i] = p.byte[w + i]
          /\ \A n \in 1 .. w : Track(d)[Behind(d, w, n) + 1] = p.byte[n]
      BY <2>5 DEF Loaded
    <3> HIDE DEF w
    <3>4. ASSUME NEW i \in 1 .. ByteBits, (w + 1) + i <= ByteBits
          PROVE  e.writeShift[i] = p.byte[(w + 1) + i]
      <4>1. i \in 1 .. ByteBits - 1 /\ i + 1 \in 1 .. ByteBits /\ w + (i + 1) <= ByteBits
            /\ (w + 1) + i = w + (i + 1)
        BY <1>2, <3>1, <3>4
      <4>2. QED
        BY <2>4, <3>3, <4>1
    <3>5. bit = p.byte[w + 1]
      BY <1>2, <3>1, <3>3 DEF bit
    <3>6. /\ Behind(e, w + 1, w + 1) = Advanced(d)
          /\ \A n \in 1 .. w : /\ Behind(e, w + 1, n) = Behind(d, w, n)
                               /\ Behind(d, w, n) # Advanced(d)
                               /\ Behind(d, w, n) \in 0 .. Length(d) - 1
      BY <1>4, <2>3, <3>1, BehindMore
    <3>7. ASSUME NEW n \in 1 .. w + 1
          PROVE  Track(e)[Behind(e, w + 1, n) + 1] = p.byte[n]
      <4>1. CASE n = w + 1
        BY <2>3, <3>5, <3>6, <4>1
      <4>2. CASE n # w + 1
        <5>1. n \in 1 .. w
          BY <3>1, <4>2
        <5> DEFINE b == Behind(d, w, n)
        <5>2. /\ Behind(e, w + 1, n) = b /\ b # Advanced(d) /\ b \in 0 .. Length(d) - 1
              /\ Track(d)[b + 1] = p.byte[n]
          BY <3>3, <3>6, <5>1
        <5> HIDE DEF b
        <5>3. b + 1 # Advanced(d) + 1 /\ b + 1 \in 1 .. Length(d)
          BY <1>3, <5>2
        <5>4. QED
          BY <2>3, <5>2, <5>3
      <4>3. QED
        BY <4>1, <4>2
    <3>8. QED
      BY <1>4, <2>3, <3>1, <3>2, <3>4, <3>7 DEF Loaded
  <2>6. CASE ~p.loaded
    BY <2>2, <2>6 DEF Loaded
  <2>7. QED
    BY <2>5, <2>6
<1>7. CASE Loads(d, e)
  <2>1. ~moved /\ takes /\ step = 0 /\ e.UE3 = 0 /\ e.writeShift = d.out
        /\ Track(e) = Track(d)
    BY <1>2, <1>7 DEF Loads, Stays, Mounted, Track
  <2>2. q = [p EXCEPT !.loaded = TRUE, !.byte = d.out, !.written = 0]
    BY <1>1, <2>1
  <2> HIDE DEF q
  <2>3. q \in PassedRecords /\ q.written = 0 /\ q.byte = d.out
    <3>1. 0 \in Gone /\ q = With(p, d.out, 0)
      BY <1>2, <2>2 DEF Gone, With
    <3>2. QED
      BY <1>2, <3>1, LoadedType
  <2>4. \A i \in 1 .. ByteBits : 0 + i = i
    BY <1>2
  <2>5. \A n \in 1 .. 0 : FALSE
    OBVIOUS
  <2>6. QED
    BY <1>4, <2>1, <2>3, <2>4, <2>5 DEF Loaded, Length
<1>8. CASE LoadsAndPuts(d, e)
  <2> DEFINE bit == d.out[1]
  <2>1. moved /\ takes /\ step = 1
    BY <1>2, <1>3, <1>8 DEF LoadsAndPuts, Writes
  <2>2. q = [p EXCEPT !.loaded = TRUE, !.byte = d.out, !.written = 1]
    BY <1>1, <2>1
  <2>3. /\ e.UE3 = 1 /\ e.writeShift = Shifted(d.out, 0)
        /\ e.headBitOffset = Advanced(d) /\ Len(Track(e)) = Length(d)
        /\ Track(e)[Advanced(d) + 1] = bit
    BY <1>8 DEF LoadsAndPuts, Writes
  <2> HIDE DEF q, bit, moved, takes, step
  <2>4. q \in PassedRecords /\ q.written = 1 /\ q.byte = d.out
    <3>1. 1 \in Gone /\ q = With(p, d.out, 1)
      BY <1>2, <2>2 DEF Gone, With
    <3>2. QED
      BY <1>2, <3>1, LoadedType
  <2>5. \A i \in 1 .. ByteBits - 1 : e.writeShift[i] = d.out[i + 1]
    <3>1. d.out \in Seq(Bit) /\ Len(d.out) = ByteBits
      BY <1>2, BytesAre
    <3>2. d.out # <<>> /\ 0 \in Bit
      BY <1>2, <3>1 DEF Bit
    <3> DEFINE s == d.out
               t == Shifted(s, 0)
    <3>3. s \in Seq(Bit) /\ s # <<>> /\ Len(s) = ByteBits /\ e.writeShift = t
      BY <2>3, <3>1, <3>2
    <3> HIDE DEF s
    <3>4. \A i \in 1 .. Len(s) - 1 : t[i] = s[i + 1]
      BY <3>2, <3>3, ShiftedIs
    <3>5. QED
      BY <3>3, <3>4 DEF s
  <2>6. ASSUME NEW i \in 1 .. ByteBits, 1 + i <= ByteBits
        PROVE  e.writeShift[i] = d.out[1 + i]
    <3>1. i \in 1 .. ByteBits - 1 /\ i + 1 = 1 + i
      BY <1>2, <2>6
    <3>2. QED
      BY <2>5, <3>1
  <2>7. Behind(e, 1, 1) = Advanced(d)
    <3>1. 0 \in 0 .. ByteBits - 1 /\ 0 + 1 = 1 /\ Length(e) = Length(d)
      BY <1>2, <1>4, <2>3
    <3>2. Behind(e, 0 + 1, 0 + 1) = Advanced(d)
      BY <2>3, <3>1, BehindMore
    <3>3. QED
      BY <3>1, <3>2
  <2>8. \A n \in 1 .. 1 : Track(e)[Behind(e, 1, n) + 1] = d.out[n]
    BY <2>3, <2>7 DEF bit
  <2>9. QED
    BY <1>4, <2>3, <2>4, <2>6, <2>8 DEF Loaded
<1>9. QED
  BY <1>5, <1>6, <1>7, <1>8 DEF Wrote

LEMMA UnknownType ==
  /\ Unknown \in PassedRecords /\ Unknown.loaded = FALSE
  /\ [Unknown EXCEPT !.fresh = "yes"] \in PassedRecords
  /\ [Unknown EXCEPT !.fresh = "yes"].loaded = FALSE
<1>1. Zeros(ByteBits) \in Bytes /\ 0 \in Gone
  BY Sizes DEF Zeros, Bytes, Bit, Gone
<1>2. <<>> \in BitSeqs /\ "no" \in Freshness /\ "yes" \in Freshness
  BY DEF BitSeqs, Freshness
<1> DEFINE z == Zeros(ByteBits)
<1>3. Unknown = [fresh |-> "no", bits |-> <<>>, count |-> -1, ready |-> 0,
                 loaded |-> FALSE, byte |-> z, written |-> 0]
  BY DEF Unknown
<1> HIDE DEF z
<1>4. z \in Bytes
  BY <1>1 DEF z
<1>5. Unknown \in PassedRecords /\ Unknown.loaded = FALSE
  BY <1>1, <1>2, <1>3, <1>4, PassedFields
<1>6. [Unknown EXCEPT !.fresh = "yes"] \in PassedRecords
      /\ [Unknown EXCEPT !.fresh = "yes"].loaded = FALSE
  BY <1>2, <1>5, PassedFields
<1>7. QED
  BY <1>5, <1>6

\* The bits that went by, with one more.
Next10(p, d) ==
  Append(IF Len(p.bits) = SyncBits THEN Tail(p.bits) ELSE p.bits,
         Track(d)[d.headBitOffset + 1])
LEMMA BitsMore ==
  ASSUME NEW p \in PassedRecords, NEW d, Shaped(d)
  PROVE  Next10(p, d) \in BitSeqs /\ Len(Next10(p, d)) \in Nat
<1> DEFINE s == IF Len(p.bits) = SyncBits THEN Tail(p.bits) ELSE p.bits
           bit == Track(d)[d.headBitOffset + 1]
<1>1. bit \in Bit
  <2>1. Track(d) \in Seq(Bit) /\ Length(d) \in Nat
        /\ d.headBitOffset \in Nat /\ d.headBitOffset < Length(d)
    BY TrackType, Numbers DEF Shaped, Whole
  <2>2. d.headBitOffset + 1 \in 1 .. Len(Track(d))
    BY <2>1 DEF Length
  <2>3. QED
    BY <2>1, <2>2
<1>2. s \in Seq(Bit)
  <2>1. p.bits \in Seq(Bit) /\ SyncBits > 0
    BY Sizes, PassedFields DEF BitSeqs
  <2>2. Len(p.bits) = SyncBits => Tail(p.bits) \in Seq(Bit)
    BY <2>1
  <2>3. QED
    BY <2>1, <2>2
<1>3. Next10(p, d) = Append(s, bit)
  BY DEF Next10
<1> HIDE DEF s, bit
<1>4. QED
  BY <1>1, <1>2, <1>3 DEF BitSeqs

LEMMA RecordedType ==
  ASSUME NEW p \in PassedRecords, NEW d, Shaped(d), NEW ready \in 0 .. 1
  PROVE  Recorded(p, d, ready) \in PassedRecords
         /\ (Recorded(p, d, ready).loaded => p.loaded)
<1> DEFINE bits == Next10(p, d)
           weak == Len(bits) > 3 /\ SubSeq(bits, Len(bits) - 3, Len(bits)) = Zeros(4)
           count == IF bits = Ones THEN 0 ELSE IF p.count < 0 THEN -1 ELSE p.count + 1
           total == IF count < 1 THEN 0 ELSE p.ready + ready
           q == [p EXCEPT !.fresh = "yes", !.bits = bits, !.count = count, !.ready = total]
<1>1. Recorded(p, d, ready) = IF weak THEN [Unknown EXCEPT !.fresh = "yes"] ELSE q
  <2> DEFINE r == [p EXCEPT !.fresh = "yes", !.bits = bits, !.count = count,
                     !.ready = IF count < 1 THEN 0 ELSE @ + ready]
  <2>1. Recorded(p, d, ready) = IF weak THEN [Unknown EXCEPT !.fresh = "yes"] ELSE r
    BY DEF Recorded, Next10
  <2> HIDE DEF bits, count, weak
  <2>2. r = q
    BY PassedFields
  <2>3. QED
    BY <2>1, <2>2
<1>2. bits \in BitSeqs
  BY BitsMore
<1>3. p.count \in Int /\ p.ready \in Nat /\ count \in Int
  BY PassedFields
<1> HIDE DEF bits, weak, count
<1>4. total \in Nat
  BY <1>3
<1>5. "yes" \in Freshness
  BY DEF Freshness
<1> HIDE DEF total
<1>6. q \in PassedRecords /\ q.loaded = p.loaded
  BY <1>2, <1>3, <1>4, <1>5, PassedFields
<1> HIDE DEF q
<1>7. CASE weak
  <2>1. Recorded(p, d, ready) = [Unknown EXCEPT !.fresh = "yes"]
    BY <1>1, <1>7
  <2>2. QED
    BY <2>1, UnknownType
<1>8. CASE ~weak
  BY <1>1, <1>6, <1>8
<1>9. QED
  BY <1>7, <1>8

\* An Update that does not write loads nothing.
LEMMA PassedType ==
  ASSUME NEW p \in PassedRecords, NEW d, Shaped(d), NEW e, Shaped(e),
         ~(Reads(d) /\ InZone(d) /\ d.writing)
  PROVE  Passed(p, d, e) \in PassedRecords /\ (Passed(p, d, e).loaded => p.loaded)
<1> DEFINE moved == e.headBitOffset # d.headBitOffset
           ready == IF DataReady(d) THEN 1 ELSE 0
           q == Passed(p, d, e)
<1>1. q = IF ~Reads(d) \/ ~InZone(d) THEN p
          ELSE IF ~moved THEN [p EXCEPT !.ready = IF p.count < 1 THEN 0 ELSE @ + ready]
          ELSE IF p.fresh = "no" THEN [p EXCEPT !.fresh = "one"]
          ELSE IF p.fresh = "one" /\ e.headBitOffset % ByteBits # 0 THEN p
          ELSE Recorded(p, e, ready)
  BY DEF Passed
<1>2. ready \in 0 .. 1
  OBVIOUS
<1> HIDE DEF ready, moved
<1>3. p.ready \in Nat /\ p.count \in Int /\ "one" \in Freshness
  BY PassedFields DEF Freshness
<1>4. [p EXCEPT !.ready = IF p.count < 1 THEN 0 ELSE @ + ready] \in PassedRecords
      /\ [p EXCEPT !.ready = IF p.count < 1 THEN 0 ELSE @ + ready].loaded = p.loaded
  BY <1>2, <1>3, PassedFields
<1>5. [p EXCEPT !.fresh = "one"] \in PassedRecords
      /\ [p EXCEPT !.fresh = "one"].loaded = p.loaded
  BY <1>3, PassedFields
<1>6. Recorded(p, e, ready) \in PassedRecords /\ (Recorded(p, e, ready).loaded => p.loaded)
  BY <1>2, RecordedType
<1> HIDE DEF q
<1>7. QED
  BY <1>1, <1>4, <1>5, <1>6, Zenon DEF q

WriteInv == passed \in PassedRecords /\ Loaded(passed, drive) /\ Marked(drive)

LEMMA WriteStep == ShapeInv /\ WriteInv /\ [Next]_vars => WriteInv'
<1> SUFFICES ASSUME ShapeInv, WriteInv, [Next]_vars PROVE WriteInv'
  OBVIOUS
<1>1. Shaped(drive) /\ Shaped(drive') /\ passed \in PassedRecords
  BY ShapedStep DEF ShapeInv, WriteInv
<1>2. drive \in DriveRecords
  BY <1>1 DEF Shaped, Whole
<1>3. ASSUME passed' = Unknown, drive'.tracks = drive.tracks, drive'.dirty = drive.dirty
      PROVE  WriteInv'
  <2>1. passed' \in PassedRecords /\ ~passed'.loaded
    BY <1>3, UnknownType
  <2>2. Marked(drive')
    BY <1>3 DEF WriteInv, Marked
  <2>3. QED
    BY <2>1, <2>2 DEF WriteInv, Loaded
<1>4. CASE StepStill
  BY <1>4 DEF StepStill, WriteInv
<1>5. CASE StepPort
  <2>1. PICK step \in Steps, motor \in BOOLEAN, zone \in Zones :
          drive' = OnPortOut(drive, step, motor, zone)
    BY <1>5 DEF StepPort
  <2>2. drive'.tracks = drive.tracks /\ drive'.dirty = drive.dirty
    BY <1>2, <2>1 DEF OnPortOut, Moved, DriveRecords
  <2>3. QED
    BY <1>3, <1>5, <2>2 DEF StepPort
<1>6. CASE StepMode
  <2>1. PICK writing \in BOOLEAN, soe \in BOOLEAN :
          drive' = [drive EXCEPT !.writing = writing, !.soe = soe]
    BY <1>6 DEF StepMode
  <2>2. drive'.tracks = drive.tracks /\ drive'.dirty = drive.dirty
    BY <1>2, <2>1 DEF DriveRecords
  <2>3. QED
    BY <1>3, <1>6, <2>2 DEF StepMode
<1>7. CASE StepData
  <2>1. PICK byte \in Bytes : drive' = [drive EXCEPT !.out = byte]
    BY <1>7 DEF StepData
  <2> DEFINE e == [drive EXCEPT !.out = byte]
  <2>2. /\ Counting(drive, e) /\ e.headTrackPos = drive.headTrackPos
        /\ e.CLOCK_SEL_AB = drive.CLOCK_SEL_AB /\ e.motor = drive.motor
        /\ e.image = drive.image /\ e.swap = drive.swap /\ e.writing = drive.writing
    BY <1>1, OutIs
  <2> HIDE DEF e
  <2>3. drive' = e /\ passed' = passed
    BY <1>7, <2>1 DEF StepData, e
  <2>4. Track(e) = Track(drive) /\ Length(e) = Length(drive) /\ Reads(e) = Reads(drive)
        /\ InZone(e) = InZone(drive) /\ e.headBitOffset = drive.headBitOffset
    BY <2>2 DEF Counting, Stays, Track, Length, Reads, InZone, CyclesPerBit
  <2>5. \A w, n : Behind(e, w, n) = Behind(drive, w, n)
    BY <2>4 DEF Behind
  <2>6. Loaded(passed, e)
    BY <2>2, <2>4, <2>5 DEF WriteInv, Loaded, Counting
  <2>7. Marked(e)
    BY <2>2 DEF WriteInv, Marked, Counting, Stays
  <2>8. QED
    BY <1>1, <2>3, <2>6, <2>7 DEF WriteInv
<1>8. CASE StepInsert
  <2>1. PICK image \in Images : drive' = Inserted(drive, image)
    BY <1>8 DEF StepInsert
  <2>2. drive'.tracks = drive.tracks /\ drive'.dirty = drive.dirty
    BY <1>2, <2>1 DEF Inserted, DriveRecords
  <2>3. QED
    BY <1>3, <1>8, <2>2 DEF StepInsert
<1>9. CASE StepUpdate
  <2>1. PICK first \in FirstNoise, later \in LaterNoise :
          drive' = Updated(drive, first, later)
    BY <1>9 DEF StepUpdate
  <2>2. passed' = Passed(passed, drive, drive')
    BY <1>9 DEF StepUpdate
  <2> DEFINE e == drive'
  <2>3. IF Reads(drive) /\ drive.writing THEN Mounted(drive, e) /\ Wrote(drive, e)
        ELSE e.tracks = drive.tracks /\ e.dirty = drive.dirty
    BY <1>1, <2>1, UpdateWrites
  <2>4. Marked(e)
    <3>1. CASE e.tracks = drive.tracks /\ drive.dirty \subseteq e.dirty
      BY <3>1 DEF WriteInv, Marked
    <3>2. ASSUME NEW bit, Writes(drive, e, bit), Mounted(drive, e)
          PROVE  Marked(e)
      <4>1. SUFFICES ASSUME NEW i \in Images, NEW t \in Tracks,
                            e.tracks[i][t] # Content[i][t]
                     PROVE  <<i, t>> \in e.dirty
        BY DEF Marked
      <4>2. CASE <<i, t>> # <<drive.image, drive.headTrackPos>>
        BY <3>2, <4>1, <4>2 DEF Writes, WriteInv, Marked
      <4>3. CASE <<i, t>> = <<drive.image, drive.headTrackPos>>
        <5>1. i = drive.image /\ t = drive.headTrackPos
          BY <4>3
        <5>2. e.tracks[i][t] = Track(e) /\ drive.tracks[i][t] = Track(drive)
          BY <3>2, <5>1 DEF Track, Mounted
        <5>3. CASE Track(e) = Track(drive)
          BY <3>2, <4>1, <5>2, <5>3 DEF Writes, WriteInv, Marked
        <5>4. CASE Track(e) # Track(drive)
          BY <3>2, <4>3, <5>4 DEF Writes
        <5>5. QED
          BY <5>3, <5>4
      <4>4. QED
        BY <4>2, <4>3
    <3>3. QED
      BY <2>3, <3>1, <3>2 DEF Wrote, Leaves, Puts, Loads, LoadsAndPuts, Stays
  <2>5. passed' \in PassedRecords /\ Loaded(passed', e)
    <3>1. CASE Reads(drive) /\ InZone(drive) /\ drive.writing
      BY <1>1, <2>2, <2>3, <3>1, LoadedWrites DEF WriteInv
    <3>2. CASE ~(Reads(drive) /\ InZone(drive) /\ drive.writing)
      <4>1. passed' \in PassedRecords /\ (passed'.loaded => passed.loaded)
        BY <1>1, <2>2, <3>2, PassedType
      <4>2. ~passed.loaded
        BY <3>2 DEF WriteInv, Loaded
      <4>3. QED
        BY <4>1, <4>2 DEF Loaded
    <3>3. QED
      BY <3>1, <3>2
  <2>6. QED
    BY <2>4, <2>5 DEF WriteInv
<1>10. QED
  BY <1>4, <1>5, <1>6, <1>7, <1>8, <1>9, DriveSteps

\* While it writes, the bits behind the head are those of the byte the program had put on
\* port A, however the pulses fall in the Updates, and what is changed is marked.
THEOREM WritesItsByte == Spec => []WritesTheByte
<1>1. Init => ShapeInv /\ WriteInv
  <2>1. SUFFICES ASSUME Init PROVE WriteInv
    BY ResetShaped DEF Init, ShapeInv
  <2>2. passed = Unknown /\ drive.tracks = Content
    BY <2>1 DEF Init, DriveReset
  <2>3. QED
    BY <2>2, UnknownType DEF WriteInv, Loaded, Marked
<1>2. (ShapeInv /\ WriteInv) /\ [Next]_vars => (ShapeInv /\ WriteInv)'
  BY ShapedStep, WriteStep
<1>3. WriteInv => WritesTheByte
  <2>1. SUFFICES ASSUME WriteInv PROVE WritesTheByte
    OBVIOUS
  <2>2. QED
    BY <2>1 DEF WriteInv, Loaded, Marked, Behind, WritesTheByte
<1>4. QED
  BY <1>1, <1>2, <1>3, PTL DEF Spec

-----------------------------------------------------------------------------
(* What passed and what the counters make of it *)

\* The cycles between two pulses, those of q of them, and those of z bits.
Period(d) == UE7Count - d.CLOCK_SEL_AB
Quarters(d, q) == IF q = 0 THEN 0 ELSE IF q = 1 THEN Period(d) ELSE IF q = 2 THEN 2 * Period(d)
                  ELSE IF q = 3 THEN 3 * Period(d) ELSE 4 * Period(d)
Cells(d, z) == IF z = 0 THEN 0 ELSE IF z = 1 THEN 4 * Period(d) ELSE IF z = 2 THEN 8 * Period(d)
               ELSE IF z = 3 THEN 12 * Period(d) ELSE 16 * Period(d)

\* The last 1 was z bits ago; a bit is known to have been decoded if one before it was 1.
HasOne(bits) == \E i \in 1 .. Len(bits) : bits[i] = 1
Since(bits, z) == /\ z < Len(bits) /\ bits[Len(bits) - z] = 1
                  /\ \A j \in Len(bits) - z + 1 .. Len(bits) : bits[j] = 0
Known(bits, count, i) == count >= 0 \/ \E j \in 1 .. i : bits[j] = 1

\* c cycles of the bit under the head are over, and q pulses came in them.
Beats(d, c, z, q) ==
  /\ c = Quarters(d, q) + d.UE7 - d.CLOCK_SEL_AB /\ d.UE7 >= d.CLOCK_SEL_AB
  /\ q = 4 => d.UE7 = d.CLOCK_SEL_AB
  /\ d.UF4 = ((4 * z) + q) % 16
  /\ d.noise + Cells(d, z) + d.cyclesForBit + 1 > 16 * UE7Count

\* The bits that are known are in the register, the last one after two pulses, and PB7
\* tells of them.
Heads(d, bits, count, q) ==
  \A i \in 1 .. Len(bits) : Known(bits, count, i) =>
     IF q >= 2 THEN d.readShift[SyncBits - Len(bits) + i] = bits[i]
     ELSE i < Len(bits) => d.readShift[SyncBits - Len(bits) + i + 1] = bits[i]
Synced(d, q) == q >= 2 => (d.PB7 <=> d.readShift # Ones)

\* A byte that is ready became so in this Update, at a fourth pulse if it is a byte.
Readies(d, c, n, q) ==
  /\ n = 0 => ~d.SO
  /\ d.SO => c <= n + Period(d) \/ (q = 4 /\ d.UE3 = 0 /\ d.PA = InRead(d))
  /\ q = 4 => d.UE3 # ByteBits
Framed(d, c, n, q) ==
  /\ d.UE3 = ByteBits => q \in {2, 3}
  /\ d.SO => d.UE3 = 0 /\ d.PA = InRead(d) /\ (q = 4 \/ c <= n)
AtSyncs(d, c, n, ready, q) ==
  /\ q >= 2 => d.UE3 = 0 /\ ~d.SO
  /\ ready = 0 \/ c < (2 * Period(d)) + 1 + n
Counted(d, ready, q) ==
  d.UE3 + (ByteBits * (ready + (IF d.SO THEN 1 ELSE 0))) + (IF q < 2 THEN 1 ELSE 0)
Frames(d, c, n, bits, count, ready, q) ==
  /\ Known(bits, count, Len(bits) - 1) => Framed(d, c, n, q)
  /\ count = 0 => AtSyncs(d, c, n, ready, q)
  /\ count >= 1 /\ d.soe => Counted(d, ready, q) = count

\* After n cycles of an Update; and within one, when the disk has turned.
Decodes(d, n, bits, count, ready, z, q) ==
  /\ Since(bits, z) /\ Beats(d, d.cyclesForBit + 1, z, q)
  /\ Heads(d, bits, count, q) /\ Synced(d, q) /\ Readies(d, d.cyclesForBit + 2, n, q)
  /\ Frames(d, d.cyclesForBit + 2, n, bits, count, ready, q)
Halfway(d, n, bits, count, ready, z, q) ==
  /\ Since(bits, z) /\ Beats(d, d.cyclesForBit, z, q)
  /\ Heads(d, bits, count, q) /\ Synced(d, q) /\ Readies(d, d.cyclesForBit + 1, n, q)
  /\ Frames(d, d.cyclesForBit + 1, n, bits, count, ready, q)

Zs == 0 .. 3
Qs == 0 .. 4

\* What is counted and what is in the history.
Sensible(bits, count) ==
  /\ bits \in BitSeqs /\ Len(bits) <= SyncBits /\ count \in Int /\ count >= -1
  /\ count = 0 <=> bits = Ones
  /\ count >= 0 => Len(bits) = SyncBits /\ HasOne(bits)

LEMMA Rates ==
  ASSUME NEW d, Shaped(d)
  PROVE  /\ UE7Count \in Nat /\ Period(d) \in Nat /\ Period(d) >= 1 /\ Period(d) <= UE7Count
         /\ UE7Count <= 2 * Period(d) /\ d.CLOCK_SEL_AB \in Nat
         /\ Period(d) = UE7Count - d.CLOCK_SEL_AB
         /\ d.UE7 \in Nat /\ d.UE7 < UE7Count /\ d.UF4 \in 0 .. 15 /\ d.UE3 \in 0 .. ByteBits
         /\ d.cyclesForBit \in Nat /\ d.noise \in Nat /\ d.noise >= 1
         /\ InZone(d) => CyclesPerBit(d) = 4 * Period(d)
BY Numbers, Sizes DEF Period, InZone

LEMMA RegisterIs ==
  ASSUME NEW d, Shaped(d)
  PROVE  d.readShift \in Seq(Bit) /\ Len(d.readShift) = SyncBits
BY DEF Shaped, Whole, DriveRecords, Shifts

-----------------------------------------------------------------------------
(* A cycle: first the disk turns, and then UE7 counts *)

LEMMA TickDecodes ==
  ASSUME NEW d, Shaped(d), NEW e, Ticks(d, e), NEW n \in Nat, NEW bits, NEW count, NEW ready,
         NEW z \in Zs, NEW q \in 0 .. 3, Halfway(d, n, bits, count, ready, z, q)
  PROVE  Decodes(e, n + 1, bits, count, ready, z, q)
<1>1. /\ e.cyclesForBit = d.cyclesForBit /\ e.noise = d.noise /\ e.UF4 = d.UF4
      /\ e.UE7 = d.UE7 + 1 /\ e.CLOCK_SEL_AB = d.CLOCK_SEL_AB /\ e.UE3 = d.UE3 /\ e.SO = d.SO
      /\ e.readShift = d.readShift /\ e.PB7 = d.PB7 /\ e.PA = d.PA /\ e.soe = d.soe
  BY DEF Ticks, Mounted, Counting
<1>2. /\ Period(d) \in Nat /\ d.CLOCK_SEL_AB \in Nat /\ d.UE7 \in Nat /\ d.cyclesForBit \in Nat
      /\ UE7Count \in Nat
  BY Rates
<1>3. /\ Period(e) = Period(d) /\ InRead(e) = InRead(d)
      /\ Quarters(e, q) = Quarters(d, q) /\ Cells(e, z) = Cells(d, z)
  BY <1>1 DEF Period, InRead, Quarters, Cells
<1>4. q \in Nat /\ q # 4 /\ Quarters(d, q) \in Int
  BY <1>2 DEF Quarters
<1>5. Beats(e, e.cyclesForBit + 1, z, q)
  BY <1>1, <1>2, <1>3, <1>4 DEF Halfway, Beats
<1>6. Heads(e, bits, count, q) /\ Synced(e, q)
  BY <1>1 DEF Halfway, Heads, Synced
<1>7. Readies(e, e.cyclesForBit + 2, n + 1, q)
  BY <1>1, <1>2, <1>3, <1>4 DEF Halfway, Readies
<1>8. Frames(e, e.cyclesForBit + 2, n + 1, bits, count, ready, q)
  <2>1. Framed(d, d.cyclesForBit + 1, n, q) => Framed(e, e.cyclesForBit + 2, n + 1, q)
    BY <1>1, <1>2, <1>3, <1>4 DEF Framed
  <2>2. AtSyncs(d, d.cyclesForBit + 1, n, ready, q)
          => AtSyncs(e, e.cyclesForBit + 2, n + 1, ready, q)
    BY <1>1, <1>2, <1>3, <1>4 DEF AtSyncs
  <2>3. Counted(e, ready, q) = Counted(d, ready, q)
    BY <1>1 DEF Counted
  <2>4. QED
    BY <1>1, <2>1, <2>2, <2>3 DEF Halfway, Frames
<1>9. QED
  BY <1>5, <1>6, <1>7, <1>8 DEF Halfway, Decodes

\* Before a pulse that comes after q of them.
LEMMA PulseComes ==
  ASSUME NEW d, Shaped(d), d.UE7 + 1 = UE7Count, ~d.writing, NEW n \in 0 .. UE7Count - 1,
         NEW bits, NEW count, NEW ready,
         NEW z \in Zs, NEW q \in 0 .. 3, Halfway(d, n, bits, count, ready, z, q)
  PROVE  LET e == Clocked4(d)
             u == (d.UF4 + 1) % 16
         IN  /\ Shaped(e) /\ Pulses(d, e) /\ u = ((4 * z) + q + 1) % 16 /\ u % 4 = (q + 1) % 4
             /\ d.cyclesForBit = Quarters(d, q) + Period(d) - 1
             /\ Beats(e, e.cyclesForBit + 1, z, q + 1)
             /\ q = 1 => d.UE3 < ByteBits /\ Shifting(d, e)
             /\ q \in {0, 3} /\ d.UE3 = ByteBits => Latching(d, e)
             /\ q = 2 \/ (q \in {0, 3} /\ d.UE3 # ByteBits) => Counting(d, e)
<1> DEFINE e == Clocked4(d)
           u == (d.UF4 + 1) % 16
<1>1. /\ Shaped(e) /\ Pulses(d, e)
      /\ u % 4 = 2 => d.UE3 < ByteBits /\ Shifting(d, e)
      /\ u % 4 < 2 /\ d.UE3 = ByteBits => Latching(d, e)
      /\ u % 4 # 2 /\ ~(u % 4 < 2 /\ d.UE3 = ByteBits) => Counting(d, e)
  BY PulseIs
<1> HIDE DEF e
<1>2. /\ Period(d) \in Nat /\ d.CLOCK_SEL_AB \in Nat /\ d.UE7 \in Nat /\ d.cyclesForBit \in Nat
      /\ UE7Count \in Nat /\ Period(d) = UE7Count - d.CLOCK_SEL_AB
  BY Rates
<1>3. d.UF4 = ((4 * z) + q) % 16
  BY DEF Halfway, Beats
<1>4. u = ((4 * z) + q + 1) % 16 /\ u % 4 = (q + 1) % 4
  <2>1. z = 0 \/ z = 1 \/ z = 2 \/ z = 3
    BY DEF Zs
  <2>2. q = 0 \/ q = 1 \/ q = 2 \/ q = 3
    OBVIOUS
  <2>3. QED
    BY <1>3, <2>1, <2>2
<1> HIDE DEF u
<1>5. /\ e.UE7 = d.CLOCK_SEL_AB /\ e.UF4 = u /\ e.CLOCK_SEL_AB = d.CLOCK_SEL_AB
      /\ e.noise = d.noise /\ e.cyclesForBit = d.cyclesForBit
  BY <1>1 DEF Pulses, Mounted, u
<1>6. d.cyclesForBit = Quarters(d, q) + Period(d) - 1
  BY <1>2 DEF Halfway, Beats, Quarters
<1>7. Period(e) = Period(d) /\ Cells(e, z) = Cells(d, z)
      /\ Quarters(e, q + 1) = Quarters(d, q) + Period(d)
  BY <1>2, <1>5 DEF Period, Cells, Quarters
<1>8. (4 * z) + (q + 1) = (4 * z) + q + 1
  BY DEF Zs
<1>9. Beats(e, e.cyclesForBit + 1, z, q + 1)
  <2>1. e.cyclesForBit + 1 = Quarters(e, q + 1) + e.UE7 - e.CLOCK_SEL_AB
    <3>1. Quarters(d, q) \in Int
      BY <1>2 DEF Quarters
    <3>2. QED
      BY <1>2, <1>5, <1>6, <1>7, <3>1
  <2>2. e.noise + Cells(e, z) + e.cyclesForBit + 1 > 16 * UE7Count
    BY <1>5, <1>7 DEF Halfway, Beats
  <2>3. QED
    BY <1>2, <1>4, <1>5, <1>8, <2>1, <2>2 DEF Beats
<1>10. /\ q = 1 => u % 4 = 2
       /\ q \in {0, 3} => u % 4 < 2 /\ u % 4 # 2
       /\ q = 2 => u % 4 = 3
  BY <1>4
<1>11. /\ q = 1 => d.UE3 < ByteBits /\ Shifting(d, e)
       /\ q \in {0, 3} /\ d.UE3 = ByteBits => Latching(d, e)
       /\ q = 2 \/ (q \in {0, 3} /\ d.UE3 # ByteBits) => Counting(d, e)
  BY <1>1, <1>10
<1>12. QED
  BY <1>1, <1>4, <1>6, <1>9, <1>11 DEF e, u

\* The byte that is ready, among those counted.
LEMMA ByteMore ==
  ASSUME NEW ready \in Nat
  PROVE  /\ ByteBits * (ready + 1) = ByteBits + ByteBits * (ready + 0)
         /\ ByteBits * (ready + 0) \in Nat
BY Sizes

LEMMA PulseDecodes ==
  ASSUME NEW d, Shaped(d), d.UE7 + 1 = UE7Count, ~d.writing, NEW n \in 0 .. UE7Count - 1,
         NEW bits, NEW count, Sensible(bits, count), NEW ready \in Nat,
         NEW z \in Zs, NEW q \in 0 .. 3, Halfway(d, n, bits, count, ready, z, q)
  PROVE  Decodes(Clocked4(d), n + 1, bits, count, ready, z, q + 1)
<1> DEFINE e == Clocked4(d)
           P == Period(d)
           c == d.cyclesForBit
           N == Len(bits)
<1> SUFFICES Decodes(e, n + 1, bits, count, ready, z, q + 1)
  OBVIOUS
<1>1. /\ Shaped(e) /\ Pulses(d, e) /\ (d.UF4 + 1) % 16 = ((4 * z) + q + 1) % 16
      /\ c = Quarters(d, q) + P - 1
      /\ Beats(e, e.cyclesForBit + 1, z, q + 1)
      /\ q = 1 => d.UE3 < ByteBits /\ Shifting(d, e)
      /\ q \in {0, 3} /\ d.UE3 = ByteBits => Latching(d, e)
      /\ q = 2 \/ (q \in {0, 3} /\ d.UE3 # ByteBits) => Counting(d, e)
  BY PulseComes
<1>2. /\ UE7Count \in Nat /\ P \in Nat /\ P >= 1 /\ UE7Count <= 2 * P /\ ByteBits \in Nat
      /\ ByteBits > 2 /\ c \in Nat /\ d.UE3 \in 0 .. ByteBits
      /\ SyncBits \in Nat
  BY Rates, Sizes
<1> HIDE DEF e
<1>3. /\ e.soe = d.soe /\ e.cyclesForBit = c /\ e.CLOCK_SEL_AB = d.CLOCK_SEL_AB
      /\ Period(e) = P /\ Period(d) = P
  BY <1>1 DEF Pulses, Mounted, Period
<1>4. c + 1 = Quarters(d, q + 1) /\ Quarters(d, q + 1) \in Nat
  BY <1>1, <1>2 DEF Quarters
<1>5. e.readShift = d.readShift => InRead(e) = InRead(d)
  BY DEF InRead
<1>6. /\ Heads(d, bits, count, q) /\ Synced(d, q) /\ Readies(d, c + 1, n, q)
      /\ Frames(d, c + 1, n, bits, count, ready, q) /\ Since(bits, z)
  BY DEF Halfway
<1>7. /\ q = 0 => c + 1 = P
      /\ q = 1 => c + 1 = 2 * P
      /\ q = 2 => c + 1 = 3 * P
      /\ q = 3 => c + 1 = 4 * P
  BY <1>1, <1>2 DEF Quarters, P
<1>8. n + 1 # 0 /\ n \in Nat /\ n < UE7Count /\ n + 1 \in Nat
  BY <1>2
<1>9. SUFFICES /\ Heads(e, bits, count, q + 1) /\ Synced(e, q + 1)
               /\ Readies(e, c + 2, n + 1, q + 1)
               /\ Frames(e, c + 2, n + 1, bits, count, ready, q + 1)
  BY <1>1, <1>3, <1>6 DEF Decodes
<1>10. q + 1 \in 1 .. 4 /\ c + 2 \in Nat /\ c + 1 \in Nat
  BY <1>2
<1> HIDE DEF P, c, N
<1>11. CASE q = 0
  <2>1. /\ e.readShift = d.readShift /\ e.PB7 = d.PB7 /\ InRead(e) = InRead(d)
        /\ d.UE3 = ByteBits => e.UE3 = 0 /\ e.SO = d.soe
        /\ d.UE3 # ByteBits => e.UE3 = d.UE3 /\ e.SO = d.SO /\ e.PA = d.PA
    BY <1>1, <1>5, <1>11 DEF Latching, Counting
  <2>2. Heads(e, bits, count, q + 1) /\ Synced(e, q + 1)
    BY <1>6, <1>11, <2>1 DEF Heads, Synced
  <2>3. Readies(e, c + 2, n + 1, q + 1)
    BY <1>2, <1>3, <1>7, <1>8, <1>11 DEF Readies
  <2>4. ASSUME Known(bits, count, N - 1)
        PROVE  d.UE3 # ByteBits /\ Framed(e, c + 2, n + 1, q + 1)
    <3>1. Framed(d, c + 1, n, q)
      BY <1>6, <2>4 DEF Frames, N
    <3>2. d.UE3 # ByteBits
      BY <1>11, <3>1 DEF Framed
    <3>3. QED
      BY <1>2, <1>8, <1>10, <1>11, <2>1, <3>1, <3>2 DEF Framed
  <2>5. count >= 0 => d.UE3 # ByteBits
    BY <2>4 DEF Known
  <2>6. count = 0 => AtSyncs(e, c + 2, n + 1, ready, q + 1)
    <3>1. count = 0 => AtSyncs(d, c + 1, n, ready, q)
      BY <1>6 DEF Frames
    <3>2. QED
      BY <1>2, <1>3, <1>8, <1>10, <1>11, <3>1 DEF AtSyncs
  <2>7. count >= 1 /\ e.soe => Counted(e, ready, q + 1) = count
    <3>1. count >= 1 /\ d.soe => Counted(d, ready, q) = count
      BY <1>6 DEF Frames
    <3>2. count >= 1 => e.UE3 = d.UE3 /\ e.SO = d.SO
      BY <2>1, <2>5 DEF Sensible
    <3>3. q < 2 /\ q + 1 < 2
      BY <1>11
    <3>4. QED
      BY <1>3, <3>1, <3>2, <3>3 DEF Counted
  <2>8. QED
    BY <2>2, <2>3, <2>4, <2>6, <2>7 DEF Frames, N
<1>12. CASE q = 1
  <2>1. /\ e.SO = d.SO /\ e.PA = d.PA /\ e.readShift = ReadIn(d)
        /\ e.UE3 = IF ReadIn(d) = Ones THEN 0 ELSE d.UE3 + 1
        /\ e.PB7 = (ReadIn(d) # Ones) /\ d.UE3 < ByteBits
    BY <1>1, <1>12 DEF Shifting, AtSync
  <2>2. /\ ReadIn(d)[SyncBits] = (IF z = 0 THEN 1 ELSE 0)
        /\ \A i \in 1 .. SyncBits - 1 : ReadIn(d)[i] = d.readShift[i + 1]
        /\ ReadIn(d) \in Seq(Bit) /\ Len(ReadIn(d)) = SyncBits
    <3>1. (d.UF4 + 1) % 16 = 2 <=> z = 0
      <4>1. z = 0 \/ z = 1 \/ z = 2 \/ z = 3
        BY DEF Zs
      <4>2. QED
        BY <1>1, <1>12, <4>1
    <3>2. d.readShift \in Seq(Bit) /\ Len(d.readShift) = SyncBits /\ d.readShift # <<>>
      BY RegisterIs, Sizes
    <3>3. (IF (d.UF4 + 1) % 16 = 2 THEN 1 ELSE 0) \in Bit
      BY DEF Bit
    <3>4. /\ ReadIn(d)[SyncBits] = (IF (d.UF4 + 1) % 16 = 2 THEN 1 ELSE 0)
          /\ \A i \in 1 .. SyncBits - 1 : ReadIn(d)[i] = d.readShift[i + 1]
          /\ ReadIn(d) \in Seq(Bit) /\ Len(ReadIn(d)) = SyncBits
      BY <3>2, <3>3, ShiftedIs DEF ReadIn
    <3>5. QED
      BY <3>1, <3>4
  <2>3. N \in Nat /\ N <= SyncBits /\ N >= 1 /\ bits[N] = (IF z = 0 THEN 1 ELSE 0)
    <3>1. bits \in BitSeqs /\ N <= SyncBits /\ N \in Nat
      BY DEF Sensible, BitSeqs, N
    <3>2. z \in Nat /\ z < N /\ bits[N - z] = 1 /\ \A j \in N - z + 1 .. N : bits[j] = 0
      BY <1>6 DEF Since, N, Zs
    <3>3. z # 0 => N \in N - z + 1 .. N
      BY <3>1, <3>2
    <3>4. QED
      BY <3>1, <3>2, <3>3
  <2>4. Heads(e, bits, count, q + 1)
    <3>1. SUFFICES ASSUME NEW i \in 1 .. N, Known(bits, count, i)
                   PROVE  ReadIn(d)[SyncBits - N + i] = bits[i]
      BY <1>12, <2>1 DEF Heads, N
    <3>2. CASE i = N
      <4>1. SyncBits - N + i = SyncBits
        BY <1>2, <2>3, <3>2
      <4>2. QED
        BY <2>2, <2>3, <3>2, <4>1
    <3>3. CASE i < N
      <4>1. d.readShift[SyncBits - N + i + 1] = bits[i]
        BY <1>6, <1>12, <3>1, <3>3 DEF Heads, N
      <4>2. SyncBits - N + i \in 1 .. SyncBits - 1
        BY <1>2, <2>3, <3>3
      <4>3. QED
        BY <2>2, <4>1, <4>2
    <3>4. QED
      BY <2>3, <3>2, <3>3
  <2>5. Synced(e, q + 1)
    BY <2>1 DEF Synced
  <2>6. Readies(e, c + 2, n + 1, q + 1)
    BY <1>2, <1>3, <1>6, <1>7, <1>8, <1>12, <2>1 DEF Readies
  <2>7. ASSUME Known(bits, count, N - 1)
        PROVE  d.SO = FALSE /\ Framed(e, c + 2, n + 1, q + 1)
    <3>1. Framed(d, c + 1, n, q)
      BY <1>6, <2>7 DEF Frames, N
    <3>2. ~d.SO
      BY <1>2, <1>7, <1>8, <1>12, <3>1 DEF Framed
    <3>3. q + 1 = 2
      BY <1>12
    <3>4. d.SO \in BOOLEAN
      BY DEF Shaped, Whole, DriveRecords
    <3>5. QED
      BY <2>1, <3>2, <3>3, <3>4 DEF Framed
  <2>8. count >= 0 => ~d.SO /\ N = SyncBits /\ ReadIn(d) = bits
    <3>1. SUFFICES ASSUME count >= 0 PROVE ~d.SO /\ N = SyncBits /\ ReadIn(d) = bits
      OBVIOUS
    <3>2. ~d.SO /\ N = SyncBits
      BY <2>7, <3>1 DEF Known, Sensible, N
    <3>3. \A i \in 1 .. SyncBits : ReadIn(d)[SyncBits - N + i] = bits[i]
      BY <1>12, <2>1, <2>4, <3>1, <3>2 DEF Heads, Known, N
    <3>4. \A i \in 1 .. SyncBits : ReadIn(d)[i] = bits[i]
      BY <1>2, <3>2, <3>3
    <3>5. bits \in Seq(Bit) /\ Len(bits) = SyncBits
      BY <3>2 DEF N, Sensible, BitSeqs
    <3>6. QED
      BY <2>2, <3>2, <3>4, <3>5, SeqEqual
  <2>9. count = 0 => AtSyncs(e, c + 2, n + 1, ready, q + 1)
    <3>1. count = 0 => AtSyncs(d, c + 1, n, ready, q) /\ bits = Ones
      BY <1>6 DEF Frames, Sensible
    <3>2. count = 0 => e.UE3 = 0 /\ ~e.SO
      BY <2>1, <2>8, <3>1
    <3>3. QED
      BY <1>2, <1>3, <1>8, <1>10, <3>1, <3>2 DEF AtSyncs
  <2>10. count >= 1 /\ e.soe => Counted(e, ready, q + 1) = count
    <3>1. count >= 1 /\ d.soe => Counted(d, ready, q) = count
      BY <1>6 DEF Frames
    <3>2. count >= 1 => e.UE3 = d.UE3 + 1 /\ ~d.SO /\ ~e.SO
      <4>1. count >= 1 => bits # Ones /\ count >= 0
        BY DEF Sensible
      <4>2. QED
        BY <2>1, <2>8, <4>1
    <3>3. q < 2 /\ ~(q + 1 < 2)
      BY <1>12
    <3>4. ByteBits * (ready + 0) \in Nat
      BY ByteMore
    <3>5. count >= 1 => /\ Counted(d, ready, q) = d.UE3 + (ByteBits * (ready + 0)) + 1
                        /\ Counted(e, ready, q + 1) = d.UE3 + 1 + (ByteBits * (ready + 0)) + 0
      BY <3>2, <3>3 DEF Counted
    <3>6. QED
      BY <1>2, <1>3, <3>1, <3>4, <3>5
  <2>11. QED
    BY <2>4, <2>5, <2>6, <2>7, <2>9, <2>10 DEF Frames, N
<1>13. CASE q = 2
  <2>1. /\ e.readShift = d.readShift /\ e.PB7 = d.PB7 /\ InRead(e) = InRead(d)
        /\ e.UE3 = d.UE3 /\ e.SO = d.SO /\ e.PA = d.PA
    BY <1>1, <1>5, <1>13 DEF Counting
  <2>2. Heads(e, bits, count, q + 1) /\ Synced(e, q + 1)
    BY <1>6, <1>13, <2>1 DEF Heads, Synced
  <2>3. Readies(e, c + 2, n + 1, q + 1)
    BY <1>2, <1>3, <1>6, <1>7, <1>8, <1>13, <2>1 DEF Readies
  <2>4. Framed(d, c + 1, n, q) => Framed(e, c + 2, n + 1, q + 1)
    BY <1>2, <1>8, <1>10, <1>13, <2>1 DEF Framed
  <2>5. AtSyncs(d, c + 1, n, ready, q) => AtSyncs(e, c + 2, n + 1, ready, q + 1)
    BY <1>2, <1>3, <1>8, <1>10, <1>13, <2>1 DEF AtSyncs
  <2>6. Counted(e, ready, q + 1) = Counted(d, ready, q)
    BY <1>13, <2>1 DEF Counted
  <2>7. QED
    BY <1>3, <1>6, <2>2, <2>3, <2>4, <2>5, <2>6 DEF Frames
<1>14. CASE q = 3
  <2>1. /\ e.readShift = d.readShift /\ e.PB7 = d.PB7 /\ InRead(e) = InRead(d)
        /\ d.UE3 = ByteBits => e.UE3 = 0 /\ e.SO = d.soe /\ e.PA = InRead(d)
        /\ d.UE3 # ByteBits => e.UE3 = d.UE3 /\ e.SO = d.SO /\ e.PA = d.PA
    BY <1>1, <1>5, <1>14 DEF Latching, Counting
  <2>2. Heads(e, bits, count, q + 1) /\ Synced(e, q + 1)
    BY <1>6, <1>14, <2>1 DEF Heads, Synced
  <2>3. ~d.SO
    BY <1>2, <1>3, <1>6, <1>7, <1>8, <1>14 DEF Readies
  <2>4. q + 1 = 4 /\ e.UE3 # ByteBits /\ (e.SO => e.UE3 = 0 /\ e.PA = InRead(e))
    BY <1>2, <1>14, <2>1, <2>3
  <2>5. Readies(e, c + 2, n + 1, q + 1)
    BY <1>8, <2>4 DEF Readies
  <2>6. Framed(e, c + 2, n + 1, q + 1)
    BY <2>4 DEF Framed
  <2>7. count = 0 => AtSyncs(e, c + 2, n + 1, ready, q + 1)
    <3>1. count = 0 => AtSyncs(d, c + 1, n, ready, q)
      BY <1>6 DEF Frames
    <3>2. count = 0 => e.UE3 = 0 /\ ~e.SO
      BY <1>2, <1>14, <2>1, <2>3, <3>1 DEF AtSyncs
    <3>3. QED
      BY <1>2, <1>3, <1>8, <1>10, <3>1, <3>2 DEF AtSyncs
  <2>8. count >= 1 /\ e.soe => Counted(e, ready, q + 1) = count
    <3>1. count >= 1 /\ d.soe => Counted(d, ready, q) = count
      BY <1>6 DEF Frames
    <3>2. ~(q < 2) /\ ~(q + 1 < 2)
      BY <1>14
    <3>3. Counted(d, ready, q) = d.UE3 + (ByteBits * (ready + 0)) + 0
      BY <2>3, <3>2 DEF Counted
    <3>4. CASE d.UE3 = ByteBits
      <4>1. d.soe => Counted(e, ready, q + 1) = 0 + (ByteBits * (ready + 1)) + 0
        BY <2>1, <3>2, <3>4 DEF Counted
      <4>2. QED
        BY <1>2, <1>3, <3>1, <3>3, <3>4, <4>1, ByteMore
    <3>5. CASE d.UE3 # ByteBits
      <4>1. Counted(e, ready, q + 1) = Counted(d, ready, q)
        BY <2>1, <3>2, <3>5 DEF Counted
      <4>2. QED
        BY <1>3, <3>1, <4>1
    <3>6. QED
      BY <3>4, <3>5
  <2>9. QED
    BY <2>2, <2>5, <2>6, <2>7, <2>8 DEF Frames
<1>15. QED
  BY <1>9, <1>11, <1>12, <1>13, <1>14

-----------------------------------------------------------------------------
(* The disk turns: within a bit, or to the next one *)

\* What is the same of the drive whatever the amplifier hears.
LEMMA AmplifiedWithin ==
  ASSUME NEW d, Shaped(d), NEW first \in Noises, NEW later \in Noises, Within(d)
  PROVE  LET r == Amplified(d, first, later)
         IN  /\ Shaped(r) /\ Turns(d, r) /\ r.headBitOffset = d.headBitOffset
             /\ r.cyclesForBit = d.cyclesForBit + 1 /\ r.cached = d.cached
             /\ d.noise > 1 => r.UE7 = d.UE7 /\ r.UF4 = d.UF4 /\ r.noise = d.noise - 1
<1> DEFINE t == Turned(d, first)
           r == Amplified(d, first, later)
<1>1. /\ Shaped(t) /\ Turns(d, t) /\ t.headBitOffset = d.headBitOffset
      /\ t.cyclesForBit = d.cyclesForBit + 1 /\ t.cached = d.cached
      /\ t.UE7 = d.UE7 /\ t.UF4 = d.UF4 /\ t.noise = d.noise
  BY TurnedQuietly
<1> HIDE DEF t
<1>2. /\ Shaped(Heard(t, later)) /\ Turns(t, Heard(t, later))
      /\ Heard(t, later).headBitOffset = t.headBitOffset
      /\ Heard(t, later).cyclesForBit = t.cyclesForBit /\ Heard(t, later).cached = t.cached
      /\ t.noise > 1 => /\ Heard(t, later).UE7 = t.UE7 /\ Heard(t, later).UF4 = t.UF4
                        /\ Heard(t, later).noise = t.noise - 1
  BY <1>1, HeardIs
<1>3. r = Heard(t, later)
  BY DEF Amplified, t
<1>4. Turns(d, r)
  BY <1>1, <1>2, <1>3 DEF Turns, Mounted
<1>5. QED
  BY <1>1, <1>2, <1>3, <1>4

LEMMA AmplifiedOn ==
  ASSUME NEW d, Shaped(d), NEW first \in Noises, NEW later \in Noises, ~Within(d), first > 1
  PROVE  LET r == Amplified(d, first, later)
             flux == BitRead(Fetched(d)) = 1
         IN  /\ Shaped(r) /\ Turns(d, r) /\ r.headBitOffset = Advanced(d)
             /\ r.cyclesForBit = d.cyclesForBit + 1 - CyclesPerBit(d)
             /\ r.cached = Fetched(d).cached
             /\ flux => r.UE7 = d.CLOCK_SEL_AB /\ r.UF4 = 0 /\ r.noise = first - 1
             /\ ~flux /\ d.noise > 1
                  => r.UE7 = d.UE7 /\ r.UF4 = d.UF4 /\ r.noise = d.noise - 1
<1> DEFINE t == Turned(d, first)
           r == Amplified(d, first, later)
           flux == BitRead(Fetched(d)) = 1
<1>1. /\ Shaped(t) /\ Turns(d, t) /\ t.headBitOffset = Advanced(d)
      /\ t.cyclesForBit = d.cyclesForBit + 1 - CyclesPerBit(d)
      /\ t.cached = Fetched(d).cached
      /\ t.UE7 = IF flux THEN d.CLOCK_SEL_AB ELSE d.UE7
      /\ t.UF4 = IF flux THEN 0 ELSE d.UF4
      /\ t.noise = IF flux THEN first ELSE d.noise
  BY TurnedOn
<1> HIDE DEF t, flux
<1>2. /\ Shaped(Heard(t, later)) /\ Turns(t, Heard(t, later))
      /\ Heard(t, later).headBitOffset = t.headBitOffset
      /\ Heard(t, later).cyclesForBit = t.cyclesForBit /\ Heard(t, later).cached = t.cached
      /\ t.noise > 1 => /\ Heard(t, later).UE7 = t.UE7 /\ Heard(t, later).UF4 = t.UF4
                        /\ Heard(t, later).noise = t.noise - 1
  BY <1>1, HeardIs
<1>3. r = Heard(t, later)
  BY DEF Amplified, t
<1>4. Turns(d, r)
  BY <1>1, <1>2, <1>3 DEF Turns, Mounted
<1> HIDE DEF r
<1>5. /\ flux => r.UE7 = d.CLOCK_SEL_AB /\ r.UF4 = 0 /\ r.noise = first - 1
      /\ ~flux /\ d.noise > 1 => r.UE7 = d.UE7 /\ r.UF4 = d.UF4 /\ r.noise = d.noise - 1
  BY <1>1, <1>2, <1>3
<1>6. /\ Shaped(r) /\ Turns(d, r) /\ r.headBitOffset = Advanced(d)
      /\ r.cyclesForBit = d.cyclesForBit + 1 - CyclesPerBit(d)
      /\ r.cached = Fetched(d).cached
  BY <1>1, <1>2, <1>3, <1>4
<1>7. QED
  BY <1>5, <1>6 DEF r, flux

\* A turn leaves the rate and the registers of the bits.
LEMMA TurnKeeps ==
  ASSUME NEW d, NEW r, Turns(d, r)
  PROVE  /\ Period(r) = Period(d) /\ InRead(r) = InRead(d) /\ r.CLOCK_SEL_AB = d.CLOCK_SEL_AB
         /\ \A q : Quarters(r, q) = Quarters(d, q) /\ Cells(r, q) = Cells(d, q)
         /\ r.SO = d.SO /\ r.UE3 = d.UE3 /\ r.PA = d.PA /\ r.soe = d.soe
         /\ r.readShift = d.readShift /\ r.PB7 = d.PB7
BY DEF Turns, Mounted, Period, InRead, Quarters, Cells

LEMMA NoiseWaits ==
  ASSUME NEW d, Shaped(d), NEW c, NEW z \in Zs, NEW q, Beats(d, c, z, q),
         d.cyclesForBit < 4 * Period(d), z < 3 \/ d.cyclesForBit + 1 < 4 * Period(d)
  PROVE  d.noise > 1
<1>1. /\ UE7Count \in Nat /\ Period(d) \in Nat /\ Period(d) >= 1 /\ Period(d) <= UE7Count
      /\ d.noise \in Nat /\ d.cyclesForBit \in Nat
  BY Rates
<1>2. z = 0 \/ z = 1 \/ z = 2 \/ z = 3
  BY DEF Zs
<1>3. Cells(d, z) \in Nat /\ Cells(d, z) <= 12 * Period(d) /\ (z < 3 => Cells(d, z) <= 8 * Period(d))
  BY <1>1, <1>2 DEF Cells
<1>4. d.noise + Cells(d, z) + d.cyclesForBit + 1 > 16 * UE7Count
  BY DEF Beats
<1>5. QED
  BY <1>1, <1>3, <1>4

LEMMA WithinDecodes ==
  ASSUME NEW d, Shaped(d), InZone(d), NEW first \in Noises, NEW later \in Noises, Within(d),
         NEW n \in Nat, NEW bits, NEW count, NEW ready,
         NEW z \in Zs, NEW q \in Qs, Decodes(d, n, bits, count, ready, z, q)
  PROVE  Halfway(Amplified(d, first, later), n, bits, count, ready, z, q) /\ q \in 0 .. 3
<1> DEFINE r == Amplified(d, first, later)
<1>1. /\ UE7Count \in Nat /\ Period(d) \in Nat /\ Period(d) >= 1 /\ d.cyclesForBit \in Nat
      /\ d.CLOCK_SEL_AB \in Nat /\ d.UE7 \in Nat /\ CyclesPerBit(d) = 4 * Period(d)
      /\ d.noise \in Nat
  BY Rates
<1>2. d.cyclesForBit + 1 < 4 * Period(d) /\ d.cyclesForBit + 1 \in Nat
  BY <1>1 DEF Within
<1>3. Beats(d, d.cyclesForBit + 1, z, q)
  BY DEF Decodes
<1>4. q \in 0 .. 3
  <2>1. q = 4 => d.cyclesForBit + 1 >= 4 * Period(d)
    BY <1>1, <1>3 DEF Beats, Quarters
  <2>2. QED
    BY <1>1, <1>2, <2>1 DEF Qs
<1>5. d.noise > 1
  BY <1>1, <1>2, <1>3, NoiseWaits
<1>6. /\ Shaped(r) /\ Turns(d, r) /\ r.cyclesForBit = d.cyclesForBit + 1
      /\ r.UE7 = d.UE7 /\ r.UF4 = d.UF4 /\ r.noise = d.noise - 1
  BY <1>5, AmplifiedWithin
<1> HIDE DEF r
<1>7. /\ Period(r) = Period(d) /\ InRead(r) = InRead(d) /\ r.CLOCK_SEL_AB = d.CLOCK_SEL_AB
      /\ Quarters(r, q) = Quarters(d, q) /\ Cells(r, z) = Cells(d, z)
      /\ r.SO = d.SO /\ r.UE3 = d.UE3 /\ r.PA = d.PA /\ r.soe = d.soe
      /\ r.readShift = d.readShift /\ r.PB7 = d.PB7
  BY <1>6, TurnKeeps
<1>8. Beats(r, r.cyclesForBit, z, q)
  <2>1. z = 0 \/ z = 1 \/ z = 2 \/ z = 3
    BY DEF Zs
  <2>2. Cells(d, z) \in Nat
    BY <1>1, <2>1 DEF Cells
  <2>3. QED
    BY <1>1, <1>3, <1>6, <1>7, <2>2 DEF Beats
<1>9. r.cyclesForBit + 1 = d.cyclesForBit + 2
  BY <1>1, <1>6
<1>10. /\ Heads(r, bits, count, q) <=> Heads(d, bits, count, q)
       /\ Synced(r, q) <=> Synced(d, q)
  BY <1>7 DEF Heads, Synced
<1>11. Readies(r, r.cyclesForBit + 1, n, q) <=> Readies(d, d.cyclesForBit + 2, n, q)
  BY <1>7, <1>9 DEF Readies
<1>12. Frames(r, r.cyclesForBit + 1, n, bits, count, ready, q)
         <=> Frames(d, d.cyclesForBit + 2, n, bits, count, ready, q)
  BY <1>7, <1>9 DEF Frames, Framed, AtSyncs, Counted
<1>13. Halfway(r, n, bits, count, ready, z, q)
  BY <1>8, <1>10, <1>11, <1>12 DEF Decodes, Halfway
<1>14. QED
  BY <1>4, <1>13 DEF r

-----------------------------------------------------------------------------
(* A bit more in the history *)

More(bits, b) == Append(IF Len(bits) = SyncBits THEN Tail(bits) ELSE bits, b)
Weak(bits) ==
  Len(bits) > 3 /\ SubSeq(bits, Len(bits) - 3, Len(bits)) = Zeros(4)
MoreCount(bits, count) ==
  IF bits = Ones THEN 0 ELSE IF count < 0 THEN -1 ELSE count + 1

\* The first bit goes when there are as many as make a SYNC.
Dropped(bits) == IF Len(bits) = SyncBits THEN 1 ELSE 0

LEMMA MoreIs ==
  ASSUME NEW bits \in BitSeqs, Len(bits) <= SyncBits, NEW b \in Bit
  PROVE  /\ More(bits, b) \in BitSeqs /\ Len(More(bits, b)) \in 1 .. SyncBits
         /\ Len(bits) \in Nat /\ Dropped(bits) \in 0 .. 1
         /\ Len(More(bits, b)) = Len(bits) + 1 - Dropped(bits)
         /\ More(bits, b)[Len(More(bits, b))] = b
         /\ \A i \in 1 .. Len(More(bits, b)) - 1 : More(bits, b)[i] = bits[i + Dropped(bits)]
         /\ \A i \in 1 .. Len(bits) : i + Dropped(bits) \in 1 .. Len(bits) + 1
<1>1. bits \in Seq(Bit) /\ SyncBits \in Nat /\ SyncBits > 1
  BY Sizes DEF BitSeqs
<1>2. CASE Len(bits) = SyncBits
  <2>1. Tail(bits) \in Seq(Bit) /\ Len(Tail(bits)) = SyncBits - 1
        /\ \A i \in 1 .. SyncBits - 1 : Tail(bits)[i] = bits[i + 1]
    BY <1>1, <1>2
  <2>2. More(bits, b) = Append(Tail(bits), b) /\ Dropped(bits) = 1
    BY <1>2 DEF More, Dropped
  <2>3. QED
    BY <1>1, <1>2, <2>1, <2>2 DEF BitSeqs
<1>3. CASE Len(bits) # SyncBits
  <2>1. More(bits, b) = Append(bits, b) /\ Dropped(bits) = 0
    BY <1>3 DEF More, Dropped
  <2>2. QED
    BY <1>1, <1>3, <2>1 DEF BitSeqs
<1>4. QED
  BY <1>2, <1>3

LEMMA OnesAre ==
  /\ Len(Ones) = SyncBits /\ Ones \in BitSeqs /\ \A i \in 1 .. SyncBits : Ones[i] = 1
BY Sizes DEF Ones, BitSeqs, Bit

\* Four zeros at the end are noise.
LEMMA FourZeros ==
  ASSUME NEW bits \in BitSeqs, Len(bits) > 3,
         \A i \in Len(bits) - 3 .. Len(bits) : bits[i] = 0
  PROVE  Weak(bits)
<1>1. bits \in Seq(Bit) /\ Len(bits) \in Nat
  BY DEF BitSeqs
<1>2. DEFINE s == SubSeq(bits, Len(bits) - 3, Len(bits))
<1>3. s \in Seq(Bit) /\ Len(s) = 4 /\ \A i \in 1 .. 4 : s[i] = bits[Len(bits) - 4 + i]
  BY <1>1
<1> HIDE DEF s
<1>4. \A i \in 1 .. 4 : Len(bits) - 4 + i \in Len(bits) - 3 .. Len(bits)
  BY <1>1
<1>5. \A i \in 1 .. 4 : s[i] = 0
  BY <1>3, <1>4
<1>6. Zeros(4) \in Seq(Bit) /\ Len(Zeros(4)) = 4 /\ \A i \in 1 .. 4 : Zeros(4)[i] = 0
  BY DEF Zeros, Bit
<1>7. s = Zeros(4)
  BY <1>3, <1>5, <1>6, SeqEqual
<1>8. QED
  BY <1>7 DEF Weak, s

\* The last 1 of the longer history.
LEMMA MoreSince ==
  ASSUME NEW bits \in BitSeqs, Len(bits) <= SyncBits, NEW b \in Bit,
         HasOne(More(bits, b)), ~Weak(More(bits, b))
  PROVE  /\ b = 1 => Since(More(bits, b), 0)
         /\ b = 0 => HasOne(bits)
         /\ \A z \in Zs : b = 0 /\ Since(bits, z)
               => z + 1 \in Zs /\ Since(More(bits, b), z + 1)
<1> DEFINE m == More(bits, b)
           M == Len(m)
           N == Len(bits)
           k == Dropped(bits)
<1>1. /\ m \in BitSeqs /\ M \in 1 .. SyncBits /\ N \in Nat /\ k \in 0 .. 1 /\ M = N + 1 - k
      /\ m[M] = b /\ \A i \in 1 .. M - 1 : m[i] = bits[i + k]
  BY MoreIs
<1>2. SyncBits \in Nat /\ SyncBits > 3 /\ (k = 1 => N = SyncBits) /\ (k = 0 => N # SyncBits)
  BY Sizes DEF Dropped
<1>3. HasOne(m) /\ ~Weak(m)
  OBVIOUS
<1> HIDE DEF m, N, k
<1>4. b = 1 => Since(m, 0)
  BY <1>1 DEF Since
<1>5. b = 0 => HasOne(bits)
  <2>1. SUFFICES ASSUME b = 0 PROVE HasOne(bits)
    OBVIOUS
  <2>2. PICK i \in 1 .. M : m[i] = 1
    BY <1>3 DEF HasOne
  <2>3. i \in 1 .. M - 1
    BY <1>1, <2>1, <2>2
  <2>4. bits[i + k] = 1 /\ i + k \in 1 .. N
    BY <1>1, <2>2, <2>3
  <2>5. QED
    BY <2>4 DEF HasOne, N
<1>6. ASSUME NEW z \in Zs, b = 0, Since(bits, z)
      PROVE  z + 1 \in Zs /\ Since(m, z + 1)
  <2>1. z \in 0 .. 3 /\ z < N /\ bits[N - z] = 1 /\ \A j \in N - z + 1 .. N : bits[j] = 0
    BY <1>6 DEF Since, N, Zs
  <2>2. \A j \in M - z .. M : j >= 1 => m[j] = 0
    <3>1. SUFFICES ASSUME NEW j \in M - z .. M, j >= 1 PROVE m[j] = 0
      OBVIOUS
    <3>2. CASE j = M
      BY <1>1, <1>6, <3>2
    <3>3. CASE j # M
      <4>1. j \in 1 .. M - 1 /\ j + k \in N - z + 1 .. N
        BY <1>1, <2>1, <3>1, <3>3
      <4>2. QED
        BY <1>1, <2>1, <4>1
    <3>4. QED
      BY <3>2, <3>3
  <2>3. z + 1 < M
    <3>1. PICK i \in 1 .. M : m[i] = 1
      BY <1>3 DEF HasOne
    <3>2. ~(i \in M - z .. M)
      BY <2>2, <3>1
    <3>3. QED
      BY <1>1, <2>1, <3>1, <3>2
  <2>4. m[M - (z + 1)] = 1
    <3>1. M - (z + 1) \in 1 .. M - 1 /\ M - (z + 1) + k = N - z
      BY <1>1, <2>1, <2>3
    <3>2. QED
      BY <1>1, <2>1, <3>1
  <2>5. z + 1 \in Zs
    <3>1. CASE z = 3
      <4>1. M > 3 /\ \A i \in M - 3 .. M : m[i] = 0
        BY <1>1, <2>2, <2>3, <3>1
      <4>2. QED
        BY <1>1, <1>3, <4>1, FourZeros
    <3>2. QED
      BY <2>1, <3>1 DEF Zs
  <2>6. \A j \in M - (z + 1) + 1 .. M : m[j] = 0
    <3>1. \A j \in M - (z + 1) + 1 .. M : j \in M - z .. M /\ j >= 1
      BY <1>1, <2>1, <2>3
    <3>2. QED
      BY <2>2, <3>1
  <2>7. QED
    BY <2>3, <2>4, <2>5, <2>6 DEF Since
<1>7. QED
  BY <1>4, <1>5, <1>6 DEF m

LEMMA MoreSensible ==
  ASSUME NEW bits, NEW count, Sensible(bits, count), NEW b \in Bit, ~Weak(More(bits, b))
  PROVE  Sensible(More(bits, b), MoreCount(More(bits, b), count))
<1> DEFINE m == More(bits, b)
           x == MoreCount(m, count)
<1>1. /\ bits \in BitSeqs /\ Len(bits) <= SyncBits /\ count \in Int /\ count >= -1
      /\ count >= 0 => Len(bits) = SyncBits /\ HasOne(bits)
  BY DEF Sensible
<1>2. /\ m \in BitSeqs /\ Len(m) \in 1 .. SyncBits
      /\ Len(m) = Len(bits) + 1 - Dropped(bits) /\ SyncBits \in Nat /\ SyncBits > 3
  BY <1>1, MoreIs, Sizes
<1>3. ~Weak(m)
  OBVIOUS
<1> HIDE DEF m
<1>4. x \in Int /\ x >= -1 /\ (x = 0 <=> m = Ones)
  BY <1>1 DEF MoreCount
<1>5. x >= 0 => Len(m) = SyncBits
  <2>1. m = Ones => Len(m) = SyncBits
    BY OnesAre
  <2>2. count >= 0 => Len(m) = SyncBits
    BY <1>1, <1>2 DEF Dropped
  <2>3. QED
    BY <1>1, <2>1, <2>2 DEF MoreCount
<1>6. Len(m) = SyncBits => HasOne(m)
  <2>1. SUFFICES ASSUME Len(m) = SyncBits, ~HasOne(m) PROVE FALSE
    OBVIOUS
  <2>2. \A i \in 1 .. Len(m) : m[i] \in Bit /\ m[i] # 1
    BY <1>2, <2>1 DEF HasOne, BitSeqs
  <2>3. \A i \in 1 .. Len(m) : m[i] = 0
    BY <2>2 DEF Bit
  <2>4. \A i \in Len(m) - 3 .. Len(m) : i \in 1 .. Len(m)
    BY <1>2, <2>1
  <2>5. QED
    BY <1>2, <1>3, <2>1, <2>3, <2>4, FourZeros
<1>7. Len(m) <= SyncBits
  BY <1>2
<1>8. QED
  BY <1>2, <1>4, <1>5, <1>6, <1>7 DEF Sensible, m

\* What is known of the longer history was known.
LEMMA MoreKnown ==
  ASSUME NEW bits, NEW count, Sensible(bits, count), NEW b \in Bit,
         NEW i \in 0 .. Len(More(bits, b)) - 1, i >= 1 \/ i = Len(More(bits, b)) - 1,
         Known(More(bits, b), MoreCount(More(bits, b), count), i)
  PROVE  i >= 1 /\ Known(bits, count, i + Dropped(bits))
<1> DEFINE m == More(bits, b)
           k == Dropped(bits)
<1>1. /\ bits \in BitSeqs /\ Len(bits) <= SyncBits /\ count \in Int /\ count >= -1
      /\ count >= 0 => Len(bits) = SyncBits
  BY DEF Sensible
<1>2. /\ Len(m) \in 1 .. SyncBits /\ Len(bits) \in Nat /\ k \in 0 .. 1
      /\ Len(m) = Len(bits) + 1 - k
      /\ \A j \in 1 .. Len(m) - 1 : m[j] = bits[j + k]
  BY <1>1, MoreIs
<1>3. SyncBits \in Nat /\ SyncBits > 3 /\ (Len(bits) = SyncBits => k = 1)
  BY Sizes DEF Dropped
<1>4. Known(m, MoreCount(m, count), i) /\ (i >= 1 \/ i = Len(m) - 1)
      /\ i \in 0 .. Len(m) - 1
  OBVIOUS
<1> HIDE DEF m, k
<1>5. CASE count >= 0
  <2>1. Known(bits, count, i + k)
    BY <1>5 DEF Known
  <2>2. i >= 1
    BY <1>1, <1>2, <1>3, <1>4, <1>5
  <2>3. QED
    BY <2>1, <2>2 DEF k
<1>6. CASE m = Ones
  <2>0. i >= 1
    BY <1>2, <1>3, <1>4, <1>6, OnesAre
  <2>1. 1 \in 1 .. Len(m) - 1 /\ Ones[1] = 1
    BY <1>3, <1>6, OnesAre
  <2>2. bits[1 + k] = 1 /\ 1 + k \in 1 .. i + k
    BY <1>2, <1>6, <2>0, <2>1
  <2>3. QED
    BY <1>6, <2>0, <2>2 DEF Known, k
<1>7. CASE \E j \in 1 .. i : m[j] = 1
  <2>1. PICK j \in 1 .. i : m[j] = 1
    BY <1>7
  <2>2. j \in 1 .. Len(m) - 1 /\ j + k \in 1 .. i + k /\ i >= 1
    BY <1>2, <1>4, <2>1
  <2>3. bits[j + k] = 1
    BY <1>2, <2>1, <2>2
  <2>4. QED
    BY <2>2, <2>3 DEF Known, k
<1>8. QED
  BY <1>1, <1>4, <1>5, <1>6, <1>7 DEF Known, MoreCount

-----------------------------------------------------------------------------
(* The next bit comes under the head *)

\* What the counters make of the bits, if they have seen a 1.
Tracked(d, n, bits, count, ready) ==
  HasOne(bits) => \E z \in Zs, q \in Qs : Decodes(d, n, bits, count, ready, z, q)

LEMMA FirstNoises == \A x \in FirstNoise : x > 16 * UE7Count /\ x > 1 /\ x \in Noises
BY Sizes, DriveAssumption, NoiseType DEF Noises

\* After a whole bit there were four pulses.
LEMMA FourPulses ==
  ASSUME NEW d, Shaped(d), InZone(d), ~Within(d), d.cyclesForBit < CyclesPerBit(d),
         NEW n, NEW bits, NEW count, NEW ready,
         NEW z \in Zs, NEW q \in Qs, Decodes(d, n, bits, count, ready, z, q)
  PROVE  q = 4 /\ d.UE7 = d.CLOCK_SEL_AB /\ d.cyclesForBit + 1 = 4 * Period(d)
<1>1. /\ UE7Count \in Nat /\ Period(d) \in Nat /\ Period(d) >= 1 /\ d.cyclesForBit \in Nat
      /\ d.CLOCK_SEL_AB \in Nat /\ d.UE7 \in Nat /\ CyclesPerBit(d) = 4 * Period(d)
      /\ d.UE7 < UE7Count /\ Period(d) = UE7Count - d.CLOCK_SEL_AB
  BY Rates
<1>2. d.cyclesForBit + 1 = 4 * Period(d)
  BY <1>1 DEF Within
<1>3. Beats(d, d.cyclesForBit + 1, z, q)
  BY DEF Decodes
<1>4. q \in 0 .. 3 => d.cyclesForBit + 1 < 4 * Period(d)
  <2>1. q \in 0 .. 3 => Quarters(d, q) \in Int /\ Quarters(d, q) <= 3 * Period(d)
    BY <1>1 DEF Quarters
  <2>2. QED
    BY <1>1, <1>3, <2>1 DEF Beats
<1>5. QED
  BY <1>1, <1>2, <1>3, <1>4 DEF Beats, Qs

\* The registers, when a bit begins.
LEMMA BitRegisters ==
  ASSUME NEW d, Shaped(d), InZone(d), ~Within(d), d.cyclesForBit < CyclesPerBit(d),
         NEW n \in 0 .. UE7Count - 1, n = 0 => ~d.SO,
         NEW bits, NEW count, Sensible(bits, count), NEW ready \in Nat,
         Tracked(d, n, bits, count, ready), NEW b \in Bit,
         NEW r, Turns(d, r), ~Weak(More(bits, b))
  PROVE  LET m == More(bits, b)
             x == MoreCount(m, count)
         IN  Heads(r, m, x, 0) /\ Synced(r, 0) /\ Readies(r, 1, n, 0)
             /\ Frames(r, 1, n, m, x, ready, 0)
<1> DEFINE m == More(bits, b)
           x == MoreCount(m, count)
           k == Dropped(bits)
           N == Len(bits)
           P == Period(d)
<1>1. /\ UE7Count \in Nat /\ P \in Nat /\ P >= 1 /\ UE7Count <= 2 * P
      /\ ByteBits \in Nat /\ ByteBits > 2 /\ SyncBits \in Nat /\ d.UE3 \in 0 .. ByteBits
  BY Rates, Sizes
<1>2. /\ bits \in BitSeqs /\ N <= SyncBits /\ count \in Int /\ count >= -1
      /\ (count = 0 <=> bits = Ones) /\ (count >= 0 => HasOne(bits))
  BY DEF Sensible
<1>3. /\ Len(m) \in 1 .. SyncBits /\ N \in Nat /\ k \in 0 .. 1
      /\ Len(m) = N + 1 - k
      /\ \A i \in 1 .. Len(m) - 1 : m[i] = bits[i + k]
  BY <1>2, MoreIs
<1>4. /\ Period(r) = P /\ InRead(r) = InRead(d) /\ r.SO = d.SO /\ r.UE3 = d.UE3
      /\ r.PA = d.PA /\ r.soe = d.soe /\ r.readShift = d.readShift
  BY TurnKeeps
<1>5. ASSUME NEW i \in 0 .. Len(m) - 1, i >= 1 \/ i = Len(m) - 1, Known(m, x, i)
      PROVE  i >= 1 /\ Known(bits, count, i + k)
  BY <1>5, MoreKnown
<1>6. ASSUME HasOne(bits)
      PROVE  /\ Heads(d, bits, count, 4) /\ Readies(d, (4 * P) + 1, n, 4)
             /\ Frames(d, (4 * P) + 1, n, bits, count, ready, 4)
  <2>1. PICK z \in Zs, q \in Qs : Decodes(d, n, bits, count, ready, z, q)
    BY <1>6 DEF Tracked
  <2>2. q = 4 /\ d.cyclesForBit + 1 = 4 * P
    BY <2>1, FourPulses
  <2>3. d.cyclesForBit + 2 = (4 * P) + 1
    BY <1>1, <2>2, Rates
  <2>4. QED
    BY <2>1, <2>2, <2>3 DEF Decodes
<1>7. ASSUME NEW i \in 1 .. N, Known(bits, count, i) PROVE HasOne(bits)
  BY <1>2, <1>7 DEF Known, HasOne
<1>8. SUFFICES Heads(r, m, x, 0) /\ Synced(r, 0) /\ Readies(r, 1, n, 0)
               /\ Frames(r, 1, n, m, x, ready, 0)
  OBVIOUS
<1> HIDE DEF m, k, N, P
<1>9. x = (IF m = Ones THEN 0 ELSE IF count < 0 THEN -1 ELSE count + 1)
  BY DEF MoreCount
<1> HIDE DEF x
<1>10. Heads(r, m, x, 0)
  <2>1. SUFFICES ASSUME NEW i \in 1 .. Len(m), Known(m, x, i), i < Len(m)
                 PROVE  r.readShift[SyncBits - Len(m) + i + 1] = m[i]
    BY DEF Heads
  <2>2. i \in 1 .. Len(m) - 1 /\ i + k \in 1 .. N
    BY <1>3, <2>1
  <2>3. Known(bits, count, i + k)
    BY <1>3, <1>5, <2>1, <2>2
  <2>4. HasOne(bits)
    BY <1>7, <2>2, <2>3
  <2>5. d.readShift[SyncBits - N + (i + k)] = bits[i + k]
    BY <1>6, <2>2, <2>3, <2>4 DEF Heads, N
  <2>6. SyncBits - N + (i + k) = SyncBits - Len(m) + i + 1
    BY <1>1, <1>3
  <2>7. QED
    BY <1>3, <1>4, <2>2, <2>5, <2>6
<1>11. Synced(r, 0)
  BY DEF Synced
<1>12. n \in Nat /\ n < UE7Count /\ 1 <= n + P
  BY <1>1
<1>13. Readies(r, 1, n, 0)
  BY <1>4, <1>12 DEF Readies
<1>14. ASSUME HasOne(bits)
       PROVE  /\ d.UE3 # ByteBits
              /\ d.SO => d.UE3 = 0 /\ d.PA = InRead(d) /\ 1 <= n
  <2>1. Readies(d, (4 * P) + 1, n, 4)
    BY <1>6, <1>14
  <2>2. ~((4 * P) + 1 <= n + P)
    BY <1>1, <1>12
  <2>3. Period(d) = P
    BY DEF P
  <2>4. n # 0 => 1 <= n
    BY <1>12
  <2>5. QED
    BY <2>1, <2>2, <2>3, <2>4 DEF Readies
<1>15. Known(m, x, Len(m) - 1) => Framed(r, 1, n, 0)
  <2>1. SUFFICES ASSUME Known(m, x, Len(m) - 1) PROVE Framed(r, 1, n, 0)
    OBVIOUS
  <2>2. Len(m) - 1 \in 0 .. Len(m) - 1 /\ Len(m) - 1 + k = N
    BY <1>3
  <2>3. Len(m) - 1 >= 1 /\ Known(bits, count, N)
    BY <1>5, <2>1, <2>2
  <2>4. N \in 1 .. N
    BY <1>3, <2>2, <2>3
  <2>5. HasOne(bits)
    BY <1>7, <2>3, <2>4
  <2>6. QED
    BY <1>4, <1>14, <2>5 DEF Framed
<1>16. x = 0 => AtSyncs(r, 1, n, ready, 0)
  BY <1>1, <1>4, <1>12 DEF AtSyncs
<1>17. x >= 1 /\ r.soe => Counted(r, ready, 0) = x
  <2>1. SUFFICES ASSUME x >= 1, d.soe PROVE Counted(r, ready, 0) = x
    BY <1>4
  <2>2. count >= 0 /\ x = count + 1 /\ HasOne(bits)
    BY <1>2, <1>9, <2>1
  <2>3. /\ count = 0 => AtSyncs(d, (4 * P) + 1, n, ready, 4)
        /\ count >= 1 => Counted(d, ready, 4) = count
    BY <1>6, <2>1, <2>2 DEF Frames
  <2>4. ByteBits * (ready + 0) \in Nat /\ ByteBits * (ready + 1) \in Nat
    BY <1>1
  <2>5. CASE count = 0
    <3>1. d.UE3 = 0 /\ ~d.SO /\ ready = 0
      <4>1. ~((4 * P) + 1 < (2 * P) + 1 + n)
        BY <1>1, <1>12
      <4>2. QED
        BY <2>3, <2>5, <4>1 DEF AtSyncs, P
    <3>2. Counted(r, ready, 0) = 0 + (ByteBits * (0 + 0)) + 1
      BY <1>4, <3>1 DEF Counted
    <3>3. QED
      BY <1>1, <2>2, <2>5, <3>2
  <2>6. CASE count >= 1
    <3>1. Counted(d, ready, 4) = d.UE3 + (ByteBits * (ready + (IF d.SO THEN 1 ELSE 0))) + 0
      BY DEF Counted
    <3>2. Counted(r, ready, 0) = d.UE3 + (ByteBits * (ready + (IF d.SO THEN 1 ELSE 0))) + 1
      BY <1>4 DEF Counted
    <3>3. ByteBits * (ready + (IF d.SO THEN 1 ELSE 0)) \in Nat
      BY <2>4
    <3>4. QED
      BY <1>1, <2>2, <2>3, <2>6, <3>1, <3>2, <3>3
  <2>7. QED
    BY <1>2, <2>2, <2>5, <2>6
<1>18. QED
  BY <1>10, <1>11, <1>13, <1>15, <1>16, <1>17 DEF Frames

LEMMA BitDecodes ==
  ASSUME NEW d, Shaped(d), InZone(d), ~Within(d), d.cyclesForBit < CyclesPerBit(d),
         NEW first \in FirstNoise, NEW later \in Noises,
         NEW n \in 0 .. UE7Count - 1, n = 0 => ~d.SO,
         NEW bits, NEW count, Sensible(bits, count), NEW ready \in Nat,
         Tracked(d, n, bits, count, ready), NEW b, b = BitRead(Fetched(d)),
         ~Weak(More(bits, b)), HasOne(More(bits, b))
  PROVE  \E z \in Zs : Halfway(Amplified(d, first, later), n, More(bits, b),
                               MoreCount(More(bits, b), count), ready, z, 0)
<1> DEFINE r == Amplified(d, first, later)
           m == More(bits, b)
           x == MoreCount(m, count)
           P == Period(d)
<1>1. /\ UE7Count \in Nat /\ P \in Nat /\ P >= 1 /\ P <= UE7Count
      /\ d.cyclesForBit \in Nat /\ d.CLOCK_SEL_AB \in Nat /\ CyclesPerBit(d) = 4 * P
      /\ d.noise \in Nat /\ P = UE7Count - d.CLOCK_SEL_AB
  BY Rates
<1>2. first \in Noises /\ first \in Nat /\ first > 16 * UE7Count /\ first > 1
  BY FirstNoises DEF Noises
<1>3. /\ Shaped(r) /\ Turns(d, r)
      /\ r.cyclesForBit = d.cyclesForBit + 1 - CyclesPerBit(d)
      /\ b = 1 => r.UE7 = d.CLOCK_SEL_AB /\ r.UF4 = 0 /\ r.noise = first - 1
      /\ b # 1 /\ d.noise > 1 => r.UE7 = d.UE7 /\ r.UF4 = d.UF4 /\ r.noise = d.noise - 1
  BY <1>2, AmplifiedOn
<1>4. b \in Bit
  BY FetchedIs
<1>5. d.cyclesForBit + 1 = 4 * P /\ r.cyclesForBit = 0
  BY <1>1, <1>3 DEF Within
<1>6. Heads(r, m, x, 0) /\ Synced(r, 0) /\ Readies(r, 1, n, 0) /\ Frames(r, 1, n, m, x, ready, 0)
  BY <1>3, <1>4, BitRegisters
<1>7. /\ Period(r) = P /\ r.CLOCK_SEL_AB = d.CLOCK_SEL_AB
      /\ \A z : Cells(r, z) = Cells(d, z)
  BY <1>3, TurnKeeps
<1>8. bits \in BitSeqs /\ Len(bits) <= SyncBits
  BY DEF Sensible
<1> HIDE DEF r, m, x, P
<1>9. \A z \in Zs : Since(m, z) /\ Beats(r, 0, z, 0) => Halfway(r, n, m, x, ready, z, 0)
  BY <1>5, <1>6 DEF Halfway
<1>10. Quarters(r, 0) = 0
  BY DEF Quarters
<1>11. CASE b = 1
  <2>1. Since(m, 0)
    BY <1>4, <1>8, <1>11, MoreSince DEF m
  <2>2. Beats(r, 0, 0, 0)
    BY <1>1, <1>2, <1>3, <1>5, <1>7, <1>10, <1>11 DEF Beats, Cells
  <2>3. 0 \in Zs
    BY DEF Zs
  <2>4. QED
    BY <1>9, <2>1, <2>2, <2>3 DEF r, m, x
<1>12. CASE b = 0
  <2>1. HasOne(bits)
    BY <1>4, <1>8, <1>12, MoreSince
  <2>2. PICK z \in Zs, q \in Qs : Decodes(d, n, bits, count, ready, z, q)
    BY <2>1 DEF Tracked
  <2>3. q = 4 /\ d.UE7 = d.CLOCK_SEL_AB
    BY <2>2, FourPulses
  <2>4. Since(bits, z) /\ Beats(d, d.cyclesForBit + 1, z, 4)
    BY <2>2, <2>3 DEF Decodes
  <2>5. z + 1 \in Zs /\ Since(m, z + 1)
    BY <1>4, <1>8, <1>12, <2>4, MoreSince DEF m
  <2>6. z = 0 \/ z = 1 \/ z = 2
    BY <2>5 DEF Zs
  <2>7. d.noise > 1
    BY <1>1, <1>5, <2>4, <2>6, NoiseWaits DEF P
  <2>8. r.UE7 = d.UE7 /\ r.UF4 = d.UF4 /\ r.noise = d.noise - 1
    BY <1>3, <1>12, <2>7
  <2>9. Cells(d, z + 1) = Cells(d, z) + 4 * P /\ Cells(d, z) \in Nat
    BY <1>1, <2>6 DEF Cells, P
  <2>10. d.UF4 = ((4 * z) + 4) % 16 /\ (4 * z) + 4 = (4 * (z + 1)) + 0
    BY <2>4, <2>6 DEF Beats
  <2>11. r.UF4 = ((4 * (z + 1)) + 0) % 16
    BY <2>8, <2>10
  <2>12. d.noise + Cells(d, z) + d.cyclesForBit + 1 > 16 * UE7Count
    BY <2>4 DEF Beats
  <2>13. r.noise + Cells(r, z + 1) + r.cyclesForBit + 1 > 16 * UE7Count
    BY <1>1, <1>5, <1>7, <2>8, <2>9, <2>12
  <2>14. Beats(r, 0, z + 1, 0)
    BY <1>1, <1>7, <1>10, <2>3, <2>8, <2>11, <2>13 DEF Beats
  <2>15. QED
    BY <1>9, <2>5, <2>14 DEF r, m, x
<1>13. QED
  BY <1>4, <1>11, <1>12 DEF Bit

-----------------------------------------------------------------------------
(* A whole cycle *)

LEMMA ClocksDecode ==
  ASSUME NEW r, Shaped(r), ~r.writing, NEW e, Clocks(r, e), NEW n \in 0 .. UE7Count - 1,
         NEW bits, NEW count, Sensible(bits, count), NEW ready \in Nat,
         NEW z \in Zs, NEW q \in 0 .. 3, Halfway(r, n, bits, count, ready, z, q)
  PROVE  Tracked(e, n + 1, bits, count, ready)
<1>1. q \in Qs /\ q + 1 \in Qs /\ n \in Nat
  BY Sizes DEF Qs
<1>2. CASE r.UE7 + 1 = UE7Count
  <2>1. Decodes(e, n + 1, bits, count, ready, z, q + 1)
    BY <1>2, PulseDecodes DEF Clocks
  <2>2. QED
    BY <1>1, <2>1 DEF Tracked
<1>3. CASE r.UE7 + 1 # UE7Count
  <2>1. Decodes(e, n + 1, bits, count, ready, z, q)
    BY <1>1, <1>3, TickDecodes DEF Clocks
  <2>2. QED
    BY <1>1, <2>1 DEF Tracked
<1>4. QED
  BY <1>2, <1>3

\* A byte that is ready was let out.
Let(d) == d.SO => d.soe

LEMMA CycleTurns ==
  ASSUME NEW d, Shaped(d), ~d.writing, NEW first \in FirstNoise, NEW later \in Noises
  PROVE  LET e == Cycle(d, first, later)
             r == Amplified(d, first, later)
         IN  /\ Shaped(r) /\ Turns(d, r) /\ ~r.writing /\ Clocks(r, e)
             /\ Shaped(e) /\ Mounted(d, e) /\ Stays(r, e)
             /\ e.cyclesForBit = r.cyclesForBit /\ e.cached = r.cached
             /\ Let(d) => Let(e)
<1> DEFINE e == Cycle(d, first, later)
           r == Amplified(d, first, later)
<1>1. first \in Noises
  BY FirstNoises
<1>2. Shaped(r) /\ Turns(d, r) /\ Shaped(e) /\ Mounted(d, e) /\ Clocks(r, e)
  BY <1>1, CycleIs
<1> HIDE DEF e, r
<1>3. ~r.writing /\ r.soe = d.soe /\ r.SO = d.SO
  BY <1>2 DEF Turns, Mounted
<1>4. CASE r.UE7 + 1 # UE7Count
  <2>1. Ticks(r, e)
    BY <1>2, <1>4 DEF Clocks
  <2>2. QED
    BY <1>2, <1>3, <2>1 DEF Ticks, Counting, Let, Mounted, e, r
<1>5. CASE r.UE7 + 1 = UE7Count
  <2>1. e = Clocked4(r)
    BY <1>2, <1>5 DEF Clocks
  <2>2. Pulses(r, e) /\ (Shifting(r, e) \/ Latching(r, e) \/ Counting(r, e))
    BY <1>2, <2>1, PulseIs
  <2>3. Stays(r, e) /\ (e.SO = r.SO \/ e.SO = r.soe)
    BY <1>3, <2>2 DEF Shifting, Latching, Counting
  <2>4. QED
    BY <1>2, <1>3, <2>2, <2>3 DEF Pulses, Let, Mounted, e, r
<1>6. QED
  BY <1>4, <1>5

\* Within a bit.
LEMMA CycleWithin ==
  ASSUME NEW d, Shaped(d), ~d.writing, InZone(d), Within(d),
         NEW first \in FirstNoise, NEW later \in Noises,
         NEW n \in 0 .. UE7Count - 1,
         NEW bits, NEW count, Sensible(bits, count), NEW ready \in Nat,
         Tracked(d, n, bits, count, ready)
  PROVE  LET e == Cycle(d, first, later)
         IN  /\ Spares(d, e) /\ e.headBitOffset = d.headBitOffset /\ e.cached = d.cached
             /\ e.cyclesForBit = d.cyclesForBit + 1
             /\ Tracked(e, n + 1, bits, count, ready)
<1> DEFINE e == Cycle(d, first, later)
           r == Amplified(d, first, later)
<1>1. first \in Noises /\ n \in Nat
  BY FirstNoises, Sizes
<1>2. /\ Shaped(r) /\ Turns(d, r) /\ ~r.writing /\ Clocks(r, e)
      /\ Shaped(e) /\ Mounted(d, e) /\ Stays(r, e)
      /\ e.cyclesForBit = r.cyclesForBit /\ e.cached = r.cached
  BY CycleTurns
<1>3. /\ r.headBitOffset = d.headBitOffset
      /\ r.cyclesForBit = d.cyclesForBit + 1 /\ r.cached = d.cached
  BY <1>1, AmplifiedWithin
<1>4. ASSUME HasOne(bits) PROVE Tracked(e, n + 1, bits, count, ready)
  <2>1. PICK z \in Zs, q \in Qs : Decodes(d, n, bits, count, ready, z, q)
    BY <1>4 DEF Tracked
  <2>2. Halfway(r, n, bits, count, ready, z, q) /\ q \in 0 .. 3
    BY <1>1, <2>1, WithinDecodes
  <2>3. QED
    BY <1>2, <2>2, ClocksDecode
<1>5. Tracked(e, n + 1, bits, count, ready)
  BY <1>4 DEF Tracked
<1> HIDE DEF e, r
<1>6. Spares(d, e) /\ e.headBitOffset = d.headBitOffset
  BY <1>2, <1>3 DEF Spares, Turns, Stays, Mounted
<1>7. QED
  BY <1>2, <1>3, <1>5, <1>6 DEF e

\* To the next bit.
LEMMA CycleOn ==
  ASSUME NEW d, Shaped(d), ~d.writing, InZone(d), ~Within(d),
         d.cyclesForBit < CyclesPerBit(d),
         NEW first \in FirstNoise, NEW later \in Noises,
         NEW n \in 0 .. UE7Count - 1, n = 0 => ~d.SO,
         NEW bits, NEW count, Sensible(bits, count), NEW ready \in Nat,
         Tracked(d, n, bits, count, ready), NEW b, b = BitRead(Fetched(d))
  PROVE  LET e == Cycle(d, first, later)
             m == More(bits, b)
         IN  /\ Spares(d, e) /\ e.headBitOffset = Advanced(d) /\ e.cached = Fetched(d).cached
             /\ e.cyclesForBit = 0
             /\ ~Weak(m) => Tracked(e, n + 1, m, MoreCount(m, count), ready)
<1> DEFINE e == Cycle(d, first, later)
           r == Amplified(d, first, later)
           m == More(bits, b)
<1>1. first \in Noises /\ first > 1
  BY FirstNoises
<1>2. /\ Shaped(r) /\ Turns(d, r) /\ ~r.writing /\ Clocks(r, e)
      /\ Shaped(e) /\ Mounted(d, e) /\ Stays(r, e)
      /\ e.cyclesForBit = r.cyclesForBit /\ e.cached = r.cached
  BY CycleTurns
<1>3. /\ r.headBitOffset = Advanced(d)
      /\ r.cyclesForBit = d.cyclesForBit + 1 - CyclesPerBit(d) /\ r.cached = Fetched(d).cached
  BY <1>1, AmplifiedOn
<1>4. r.cyclesForBit = 0
  BY <1>3, Rates DEF Within
<1>5. ASSUME ~Weak(m), HasOne(m)
      PROVE  Tracked(e, n + 1, m, MoreCount(m, count), ready)
  <2>1. PICK z \in Zs : Halfway(r, n, m, MoreCount(m, count), ready, z, 0)
    BY <1>5, BitDecodes
  <2>2. Sensible(m, MoreCount(m, count))
    <3>1. b \in Bit
      BY FetchedIs
    <3>2. QED
      BY <1>5, <3>1, MoreSensible
  <2>3. 0 \in 0 .. 3
    OBVIOUS
  <2>4. QED
    BY <1>2, <2>1, <2>2, <2>3, ClocksDecode
<1>6. ~Weak(m) => Tracked(e, n + 1, m, MoreCount(m, count), ready)
  BY <1>5 DEF Tracked
<1> HIDE DEF e, r
<1>7. Spares(d, e) /\ e.headBitOffset = Advanced(d)
  BY <1>2, <1>3 DEF Spares, Turns, Stays, Mounted
<1>8. QED
  BY <1>2, <1>3, <1>4, <1>6, <1>7 DEF e

-----------------------------------------------------------------------------
(* The cycles of an Update that reads *)

LEMMA SparesThen ==
  ASSUME NEW d, NEW e, NEW f, Spares(d, e), Spares(e, f)
  PROVE  Spares(d, f)
BY DEF Spares, Mounted

\* Before the head moves it fetches the same bit.
LEMMA FetchedSame ==
  ASSUME NEW d, Shaped(d), NEW e, Shaped(e), Spares(d, e),
         e.headBitOffset = d.headBitOffset, e.cached = d.cached
  PROVE  /\ Track(e) = Track(d) /\ Advanced(e) = Advanced(d)
         /\ Fetched(e).cached = Fetched(d).cached
         /\ BitRead(Fetched(e)) = BitRead(Fetched(d))
         /\ CyclesPerBit(e) = CyclesPerBit(d) /\ Period(e) = Period(d)
         /\ InZone(d) => InZone(e)
<1>1. Track(e) = Track(d) /\ e.headTrackPos = d.headTrackPos
  BY DEF Spares, Mounted, Track
<1>2. Length(e) = Length(d)
  BY <1>1 DEF Length
<1>3. Advanced(e) = Advanced(d) /\ CyclesPerBit(e) = CyclesPerBit(d)
  BY <1>2 DEF Advanced, CyclesPerBit
<1>4. e.CLOCK_SEL_AB = d.CLOCK_SEL_AB
  BY DEF Spares, Mounted
<1>5. Period(e) = Period(d) /\ (InZone(d) => InZone(e))
  BY <1>3, <1>4 DEF Period, InZone
<1> DEFINE n == Advanced(d) \div ByteBits
           b == IF IsCached(d, n) THEN d.cached.bits ELSE ByteAt(Track(d), n)
           c == [track |-> d.headTrackPos, byte |-> n, bits |-> b]
<1>6. Fetched(d) = [d EXCEPT !.headBitOffset = Advanced(d), !.cached = c]
  BY DEF Fetched
<1>7. Fetched(e) = [e EXCEPT !.headBitOffset = Advanced(d), !.cached = c]
  BY <1>1, <1>3 DEF Fetched, IsCached
<1> HIDE DEF n, b, c
<1>8. d \in DriveRecords /\ e \in DriveRecords
  BY DEF Shaped, Whole
<1>9. /\ Fetched(d).cached = c /\ Fetched(e).cached = c
      /\ Fetched(d).headBitOffset = Advanced(d) /\ Fetched(e).headBitOffset = Advanced(d)
  <2>1. ASSUME NEW g \in DriveRecords, NEW x, NEW y
        PROVE  /\ [g EXCEPT !.headBitOffset = x, !.cached = y].cached = y
               /\ [g EXCEPT !.headBitOffset = x, !.cached = y].headBitOffset = x
    BY DEF DriveRecords
  <2>2. QED
    BY <1>6, <1>7, <1>8, <2>1
<1>10. QED
  BY <1>1, <1>3, <1>5, <1>9 DEF BitRead

BeforeBit(d, n, e, bits, count, ready) ==
  /\ Spares(d, e) /\ e.headBitOffset = d.headBitOffset /\ e.cached = d.cached
  /\ e.cyclesForBit < CyclesPerBit(d) /\ Let(e) /\ (n = 0 => ~e.SO)
  /\ Tracked(e, n, bits, count, ready)
AfterBit(d, n, e, bits, count, ready) ==
  /\ Spares(d, e) /\ e.headBitOffset = Advanced(d) /\ e.cached = Fetched(d).cached
  /\ e.cyclesForBit < n /\ Let(e)
  /\ ~Weak(bits) => Tracked(e, n, bits, MoreCount(bits, count), ready)

LEMMA BeforeThen ==
  ASSUME NEW d, Shaped(d), ~d.writing, InZone(d),
         NEW first \in FirstNoise, NEW later \in LaterNoise,
         NEW bits, NEW count, Sensible(bits, count), NEW ready \in Nat,
         NEW b, b = BitRead(Fetched(d)), NEW n \in 0 .. UE7Count - 1,
         NEW e, Shaped(e), BeforeBit(d, n, e, bits, count, ready)
  PROVE  LET f == Cycle(e, first, later)
         IN  \/ BeforeBit(d, n + 1, f, bits, count, ready)
             \/ AfterBit(d, n + 1, f, More(bits, b), count, ready)
<1> DEFINE f == Cycle(e, first, later)
<1>1. /\ Spares(d, e) /\ e.headBitOffset = d.headBitOffset /\ e.cached = d.cached
      /\ e.cyclesForBit < CyclesPerBit(d) /\ Let(e) /\ (n = 0 => ~e.SO)
      /\ Tracked(e, n, bits, count, ready)
  BY DEF BeforeBit
<1>2. /\ Advanced(e) = Advanced(d) /\ Fetched(e).cached = Fetched(d).cached
      /\ b = BitRead(Fetched(e)) /\ CyclesPerBit(e) = CyclesPerBit(d) /\ InZone(e)
  BY <1>1, FetchedSame
<1>3. later \in Noises /\ ~e.writing /\ n \in Nat /\ n + 1 # 0 /\ n + 1 > 0
  BY <1>1, NoiseType, Sizes DEF Spares, Mounted
<1>4. Let(f)
  BY <1>1, <1>3, CycleTurns
<1>5. CASE Within(e)
  <2>1. /\ Spares(e, f) /\ f.headBitOffset = e.headBitOffset /\ f.cached = e.cached
        /\ f.cyclesForBit = e.cyclesForBit + 1
        /\ Tracked(f, n + 1, bits, count, ready)
    BY <1>1, <1>2, <1>3, <1>5, CycleWithin
  <2> HIDE DEF f
  <2>2. Spares(d, f)
    BY <1>1, <2>1, SparesThen
  <2>3. f.cyclesForBit < CyclesPerBit(d)
    BY <1>2, <1>5, <2>1 DEF Within
  <2>4. BeforeBit(d, n + 1, f, bits, count, ready)
    BY <1>1, <1>3, <1>4, <2>1, <2>2, <2>3 DEF BeforeBit
  <2>5. QED
    BY <2>4 DEF f
<1>6. CASE ~Within(e)
  <2>1. /\ Spares(e, f) /\ f.headBitOffset = Advanced(e) /\ f.cached = Fetched(e).cached
        /\ f.cyclesForBit = 0
        /\ ~Weak(More(bits, b))
             => Tracked(f, n + 1, More(bits, b), MoreCount(More(bits, b), count), ready)
    BY <1>1, <1>2, <1>3, <1>6, CycleOn
  <2> HIDE DEF f
  <2>2. Spares(d, f)
    BY <1>1, <2>1, SparesThen
  <2>3. AfterBit(d, n + 1, f, More(bits, b), count, ready)
    BY <1>2, <1>3, <1>4, <2>1, <2>2 DEF AfterBit
  <2>4. QED
    BY <2>3 DEF f
<1>7. QED
  BY <1>5, <1>6

LEMMA AfterThen ==
  ASSUME NEW d, Shaped(d), ~d.writing, InZone(d),
         NEW first \in FirstNoise, NEW later \in LaterNoise,
         NEW bits, NEW count, ~Weak(bits) => Sensible(bits, MoreCount(bits, count)),
         NEW ready \in Nat, NEW n \in 0 .. UE7Count - 1,
         NEW e, Shaped(e), AfterBit(d, n, e, bits, count, ready)
  PROVE  AfterBit(d, n + 1, Cycle(e, first, later), bits, count, ready)
<1> DEFINE f == Cycle(e, first, later)
<1>1. /\ Spares(d, e) /\ e.headBitOffset = Advanced(d) /\ e.cached = Fetched(d).cached
      /\ e.cyclesForBit < n /\ Let(e)
      /\ ~Weak(bits) => Tracked(e, n, bits, MoreCount(bits, count), ready)
  BY DEF AfterBit
<1>2. /\ later \in Noises /\ first \in Noises /\ ~e.writing /\ n \in Nat
  BY <1>1, NoiseType, FirstNoises, Sizes DEF Spares, Mounted
<1>3. InZone(e) /\ CyclesPerBit(e) = CyclesPerBit(d)
  BY <1>1 DEF Spares, Mounted, InZone, CyclesPerBit, Length, Track
<1>4. Within(e)
  <2>1. /\ UE7Count \in Nat /\ Period(e) \in Nat /\ UE7Count <= 2 * Period(e)
        /\ e.cyclesForBit \in Nat /\ CyclesPerBit(e) = 4 * Period(e)
    BY <1>3, Rates
  <2>2. QED
    BY <1>1, <1>2, <2>1 DEF Within
<1>5. Let(f)
  BY <1>1, <1>2, CycleTurns
<1>6. /\ Spares(e, f) /\ f.headBitOffset = e.headBitOffset /\ f.cached = e.cached
      /\ f.cyclesForBit = e.cyclesForBit + 1
  <2> DEFINE r == Amplified(e, first, later)
  <2>1. /\ Turns(e, r) /\ Mounted(e, f) /\ Stays(r, f)
        /\ f.cyclesForBit = r.cyclesForBit /\ f.cached = r.cached
    BY <1>2, CycleTurns
  <2>2. /\ r.headBitOffset = e.headBitOffset
        /\ r.cyclesForBit = e.cyclesForBit + 1 /\ r.cached = e.cached
    BY <1>2, <1>4, AmplifiedWithin
  <2> HIDE DEF f, r
  <2>3. QED
    BY <2>1, <2>2 DEF Spares, Turns, Stays, Mounted
<1>7. ~Weak(bits) => Tracked(f, n + 1, bits, MoreCount(bits, count), ready)
  BY <1>1, <1>2, <1>3, <1>4, CycleWithin
<1> HIDE DEF f
<1>8. Spares(d, f)
  BY <1>1, <1>6, SparesThen
<1>9. f.cyclesForBit < n + 1
  BY <1>1, <1>2, <1>6, Rates
<1>10. QED
  BY <1>1, <1>5, <1>6, <1>7, <1>8, <1>9 DEF AfterBit, f

LEMMA CyclesDecode ==
  ASSUME NEW d, Shaped(d), ~d.writing, InZone(d), ~d.SO, d.cyclesForBit < CyclesPerBit(d),
         NEW first \in FirstNoise, NEW later \in LaterNoise,
         NEW bits, NEW count, Sensible(bits, count), NEW ready \in Nat,
         NEW b, b = BitRead(Fetched(d)), Tracked(d, 0, bits, count, ready)
  PROVE  LET e == Cycles(d, first, later)
         IN  /\ Shaped(e)
             /\ \/ BeforeBit(d, UE7Count, e, bits, count, ready)
                \/ AfterBit(d, UE7Count, e, More(bits, b), count, ready)
<1> DEFINE At(n, e) == \/ BeforeBit(d, n, e, bits, count, ready)
                       \/ AfterBit(d, n, e, More(bits, b), count, ready)
           J == {p \in Nat \X DriveRecords : At(p[1], p[2])}
<1>1. \A e : Shaped(e) => e \in DriveRecords
  BY DEF Shaped, Whole
<1>2. first \in Noises /\ later \in Noises /\ b \in Bit
  BY FirstNoises, NoiseType, FetchedIs
<1>3. BeforeBit(d, 0, d, bits, count, ready)
  BY DEF BeforeBit, Spares, Mounted, Let
<1>4. ~Weak(More(bits, b)) => Sensible(More(bits, b), MoreCount(More(bits, b), count))
  BY <1>2, MoreSensible
<1>5. <<0, d>> \in J
  BY <1>1, <1>3
<1>6. ASSUME NEW n \in 0 .. UE7Count - 1, NEW e, Shaped(e), <<n, e>> \in J
      PROVE  <<n + 1, Cycle(e, first, later)>> \in J
  <2> DEFINE f == Cycle(e, first, later)
  <2>1. At(n, e) /\ n + 1 \in Nat
    BY <1>6, Sizes
  <2>2. Shaped(f)
    BY <1>2, <1>6, CycleIs
  <2>3. CASE BeforeBit(d, n, e, bits, count, ready)
    <3>1. \/ BeforeBit(d, n + 1, f, bits, count, ready)
          \/ AfterBit(d, n + 1, f, More(bits, b), count, ready)
      BY <1>6, <2>3, BeforeThen
    <3> HIDE DEF f
    <3>2. QED
      BY <1>1, <2>1, <2>2, <3>1 DEF f
  <2>4. CASE AfterBit(d, n, e, More(bits, b), count, ready)
    <3>1. AfterBit(d, n + 1, f, More(bits, b), count, ready)
      BY <1>4, <1>6, <2>4, AfterThen
    <3> HIDE DEF f
    <3>2. QED
      BY <1>1, <2>1, <2>2, <3>1 DEF f
  <2>5. QED
    BY <2>1, <2>3, <2>4
<1> HIDE DEF J
<1>7. Shaped(Cycles(d, first, later)) /\ <<UE7Count, Cycles(d, first, later)>> \in J
  BY <1>2, <1>5, <1>6, CyclesHave
<1>8. QED
  BY <1>7 DEF J

-----------------------------------------------------------------------------
(* The history is that of the disk *)

\* The byte under the head was fetched.
FetchedHere(d) ==
  d.cached.track = d.headTrackPos /\ d.cached.byte = d.headBitOffset \div ByteBits

LEMMA FetchedCache ==
  ASSUME NEW d, Shaped(d)
  PROVE  /\ Fetched(d).cached.track = d.headTrackPos
         /\ Fetched(d).cached.byte = Advanced(d) \div ByteBits
         /\ Fetched(d).cached.bits = IF IsCached(d, Advanced(d) \div ByteBits) THEN d.cached.bits
                                     ELSE ByteAt(Track(d), Advanced(d) \div ByteBits)
         /\ BitRead(Fetched(d)) = Fetched(d).cached.bits[(Advanced(d) % ByteBits) + 1]
<1> DEFINE n == Advanced(d) \div ByteBits
           b == IF IsCached(d, n) THEN d.cached.bits ELSE ByteAt(Track(d), n)
           c == [track |-> d.headTrackPos, byte |-> n, bits |-> b]
<1>1. Fetched(d) = [d EXCEPT !.headBitOffset = Advanced(d), !.cached = c]
  BY DEF Fetched
<1>2. c.track = d.headTrackPos /\ c.byte = n /\ c.bits = b
  OBVIOUS
<1>3. d \in DriveRecords
  BY DEF Shaped, Whole
<1> HIDE DEF c, b, n
<1>4. Fetched(d).cached = c /\ Fetched(d).headBitOffset = Advanced(d)
  BY <1>1, <1>3 DEF DriveRecords
<1>5. QED
  BY <1>2, <1>4 DEF n, b, BitRead

\* The next bit is of the byte that was fetched, or the first of the next byte.
LEMMA BitIs ==
  ASSUME NEW d, Shaped(d), FetchedHere(d),
         d.cached.bits = ByteAt(Track(d), d.cached.byte) \/ Advanced(d) % ByteBits = 0
  PROVE  /\ Fetched(d).cached.bits = ByteAt(Track(d), Fetched(d).cached.byte)
         /\ BitRead(Fetched(d)) = Track(d)[Advanced(d) + 1]
<1> DEFINE n == Advanced(d) \div ByteBits
           k == Advanced(d) % ByteBits
           h == d.headBitOffset
           m == h \div ByteBits
           j == h % ByteBits
<1>1. /\ Fetched(d).cached.byte = n
      /\ Fetched(d).cached.bits = IF IsCached(d, n) THEN d.cached.bits ELSE ByteAt(Track(d), n)
      /\ BitRead(Fetched(d)) = Fetched(d).cached.bits[k + 1]
  BY FetchedCache
<1>2. /\ Advanced(d) = IF h = Length(d) - 1 THEN 0 ELSE h + 1
      /\ n \in Nat /\ (n + 1) * ByteBits <= Length(d)
      /\ Advanced(d) = (n * ByteBits) + k /\ k \in 0 .. ByteBits - 1
  BY AdvancedIs
<1>3. /\ Length(d) \in Nat /\ Length(d) > ByteBits /\ h \in Nat
      /\ ByteBits \in Nat /\ ByteBits > 2 /\ Track(d) \in Seq(Bit)
      /\ Len(Track(d)) = Length(d)
  BY TrackType, Numbers, Sizes DEF Shaped, Whole, Length
<1>4. m \in Nat /\ j \in 0 .. ByteBits - 1 /\ h = (m * ByteBits) + j
  <2>1. ByteBits \in Nat /\ ByteBits > 0 /\ h \in Nat
    BY <1>3
  <2> HIDE DEF h
  <2>2. QED
    BY <2>1, Division
<1> HIDE DEF n, k, h, m, j
<1>5. k = 0 => ~IsCached(d, n)
  <2>0. IsCached(d, n) => n = m
    BY DEF IsCached, FetchedHere, m, h
  <2>1. SUFFICES ASSUME k = 0, n = m PROVE FALSE
    BY <2>0
  <2>2. n * ByteBits \in Nat /\ Advanced(d) = n * ByteBits /\ h = (n * ByteBits) + j
    BY <1>2, <1>3, <1>4, <2>1
  <2>3. CASE h = Length(d) - 1
    <3>1. n * ByteBits = 0
      BY <1>2, <2>2, <2>3
    <3>2. QED
      BY <1>3, <1>4, <2>2, <2>3, <3>1
  <2>4. CASE h # Length(d) - 1
    BY <1>2, <1>3, <1>4, <2>2, <2>4
  <2>5. QED
    BY <2>3, <2>4
<1>6. Fetched(d).cached.bits = ByteAt(Track(d), n)
  <2>1. CASE k = 0
    BY <1>1, <1>5, <2>1
  <2>2. CASE d.cached.bits = ByteAt(Track(d), d.cached.byte)
    BY <1>1, <2>2 DEF IsCached
  <2>3. QED
    BY <2>1, <2>2 DEF k
<1>7. ByteAt(Track(d), n)[k + 1] = Track(d)[(n * ByteBits) + (k + 1)]
  <2>1. k + 1 \in 1 .. ByteBits
    BY <1>2, <1>3
  <2>2. QED
    BY <1>2, <1>3, <2>1, ByteAtIs
<1>8. (n * ByteBits) + (k + 1) = Advanced(d) + 1
  <2>1. n * ByteBits \in Nat
    BY <1>2, <1>3
  <2>2. QED
    BY <1>2, <1>3, <2>1
<1>9. QED
  BY <1>1, <1>6, <1>7, <1>8

\* What a bit that went by makes of the history.
LEMMA RecordedIs ==
  ASSUME NEW p \in PassedRecords, NEW e, NEW ready \in 0 .. 1,
         NEW b, b = Track(e)[e.headBitOffset + 1]
  PROVE  LET q == Recorded(p, e, ready)
             m == More(p.bits, b)
             x == MoreCount(m, p.count)
         IN  /\ q.fresh = "yes"
             /\ Weak(m) => q.bits = <<>> /\ q.count = -1 /\ q.ready = 0
             /\ ~Weak(m) => /\ q.bits = m /\ q.count = x
                            /\ q.ready = IF x < 1 THEN 0 ELSE p.ready + ready
<1> DEFINE q == Recorded(p, e, ready)
           m == More(p.bits, b)
           x == MoreCount(m, p.count)
           y == IF x < 1 THEN 0 ELSE p.ready + ready
<1>1. q = IF Weak(m) THEN [Unknown EXCEPT !.fresh = "yes"]
          ELSE [p EXCEPT !.fresh = "yes", !.bits = m, !.count = x, !.ready = y]
  BY DEF Recorded, More, Weak, MoreCount
<1> HIDE DEF q, m, x, y
<1>2. p \in [fresh : Freshness, bits : BitSeqs, count : Int, ready : Nat,
             loaded : BOOLEAN, byte : Bytes, written : Gone]
  BY PassedFields
<1>3. CASE Weak(m)
  BY <1>1, <1>3 DEF Unknown, q, m
<1>4. CASE ~Weak(m)
  <2>1. q = [p EXCEPT !.fresh = "yes", !.bits = m, !.count = x, !.ready = y]
    BY <1>1, <1>4
  <2>2. q.fresh = "yes" /\ q.bits = m /\ q.count = x /\ q.ready = y
    BY <1>2, <2>1
  <2>3. QED
    BY <1>4, <2>2 DEF q, m, x, y
<1>5. QED
  BY <1>3, <1>4

History(p) ==
  /\ p.fresh # "yes" => p.bits = <<>> /\ p.count = -1
  /\ p.count < 1 => p.ready = 0
  /\ Sensible(p.bits, p.count)
Fetching(p, d) ==
  /\ p.fresh # "no" => /\ Reads(d) /\ InZone(d) /\ ~d.writing /\ Let(d) /\ FetchedHere(d)
                       /\ d.cyclesForBit < CyclesPerBit(d)
  /\ p.fresh = "yes" => d.cached.bits = ByteAt(Track(d), d.cached.byte)
HistoryFollows(p, d) == Tracked(d, UE7Count, p.bits, p.count, p.ready)
ReadOf(p, d) == History(p) /\ Fetching(p, d) /\ HistoryFollows(p, d)

\* Nothing is known of a history without bits.
LEMMA NothingYet ==
  /\ Sensible(<<>>, -1) /\ ~HasOne(<<>>)
  /\ \A d, n, count, ready : Tracked(d, n, <<>>, count, ready)
<1>1. <<>> \in BitSeqs /\ Len(<<>>) = 0
  BY DEF BitSeqs
<1>2. <<>> # Ones
  BY <1>1, OnesAre, Sizes
<1>3. ~HasOne(<<>>)
  BY <1>1 DEF HasOne
<1>4. QED
  BY <1>1, <1>2, <1>3, Sizes DEF Sensible, Tracked
LEMMA UnknownReads ==
  ASSUME NEW d
  PROVE  ReadOf(Unknown, d)
BY NothingYet DEF ReadOf, History, Fetching, HistoryFollows, Unknown

-----------------------------------------------------------------------------
(* An Update begins *)

LEMMA StartDecodes ==
  ASSUME NEW d, Shaped(d), NEW s, Spares(d, s), Stays(d, s), ~s.SO,
         s.UE3 = d.UE3, s.readShift = d.readShift, s.PB7 = d.PB7, s.PA = d.PA,
         s.cyclesForBit = d.cyclesForBit, s.noise = d.noise, s.UF4 = d.UF4, s.UE7 = d.UE7,
         NEW bits, NEW count, Sensible(bits, count), NEW ready \in Nat,
         count < 1 => ready = 0, Tracked(d, UE7Count, bits, count, ready)
  PROVE  Tracked(s, 0, bits, count, ready + (IF d.SO THEN 1 ELSE 0))
<1>1. /\ s.CLOCK_SEL_AB = d.CLOCK_SEL_AB /\ s.soe = d.soe /\ Period(s) = Period(d)
      /\ InRead(s) = InRead(d)
      /\ \A q : Quarters(s, q) = Quarters(d, q) /\ Cells(s, q) = Cells(d, q)
  BY DEF Spares, Mounted, Period, InRead, Quarters, Cells
<1>2. /\ UE7Count \in Nat /\ Period(d) \in Nat /\ Period(d) >= 1 /\ UE7Count <= 2 * Period(d)
      /\ d.cyclesForBit \in Nat /\ d.UE7 \in Nat /\ d.UE7 < UE7Count
      /\ Period(d) = UE7Count - d.CLOCK_SEL_AB /\ d.CLOCK_SEL_AB \in Nat
  BY Rates
<1> DEFINE R == ready + (IF d.SO THEN 1 ELSE 0)
<1>3. SUFFICES ASSUME NEW z \in Zs, NEW q \in Qs, Decodes(d, UE7Count, bits, count, ready, z, q)
               PROVE  Decodes(s, 0, bits, count, R, z, q)
  BY DEF Tracked
<1>4. R \in Nat /\ R + 0 = ready + (IF d.SO THEN 1 ELSE 0)
  OBVIOUS
<1> HIDE DEF R
<1> DEFINE c == d.cyclesForBit + 2
<1>5. Beats(d, d.cyclesForBit + 1, z, q) /\ Beats(s, s.cyclesForBit + 1, z, q)
  BY <1>1, <1>3 DEF Decodes, Beats
<1>6. Heads(s, bits, count, q) /\ Synced(s, q)
  BY <1>3 DEF Decodes, Heads, Synced
<1>7. Readies(d, c, UE7Count, q) /\ Frames(d, c, UE7Count, bits, count, ready, q)
      /\ Since(bits, z)
  BY <1>3 DEF Decodes
<1>8. s.cyclesForBit + 2 = c
  OBVIOUS
<1>9. q < 2 => c < (2 * Period(d)) + 1
  BY <1>2, <1>5 DEF Beats, Quarters, Qs
<1> HIDE DEF c
<1>10. Readies(s, c, 0, q)
  BY <1>7 DEF Readies
<1>11. Framed(d, c, UE7Count, q) => Framed(s, c, 0, q)
  BY DEF Framed
<1>12. count = 0 => AtSyncs(s, c, 0, R, q)
  <2>1. SUFFICES ASSUME count = 0 PROVE AtSyncs(s, c, 0, R, q)
    OBVIOUS
  <2>2. AtSyncs(d, c, UE7Count, ready, q) /\ ready = 0
    BY <1>7, <2>1 DEF Frames
  <2>3. CASE d.SO
    <3>1. q < 2
      BY <2>2, <2>3 DEF AtSyncs, Qs
    <3>2. c < (2 * Period(s)) + 1 + 0
      BY <1>1, <1>2, <1>9, <3>1
    <3>3. QED
      BY <3>1, <3>2 DEF AtSyncs, Qs
  <2>4. CASE ~d.SO
    BY <2>2, <2>4 DEF AtSyncs, R
  <2>5. QED
    BY <2>3, <2>4
<1>13. Counted(s, R, q) = Counted(d, ready, q)
  BY <1>4 DEF Counted
<1>14. Frames(s, c, 0, bits, count, R, q)
  BY <1>1, <1>7, <1>11, <1>12, <1>13 DEF Frames
<1>15. QED
  BY <1>5, <1>6, <1>7, <1>8, <1>10, <1>14 DEF Decodes

\* Before a byte is counted none that was ready is.
LEMMA Untold ==
  ASSUME NEW d, NEW n, NEW bits, NEW count \in Int, NEW ready, count < 1,
         Tracked(d, n, bits, count, ready)
  PROVE  Tracked(d, n, bits, count, 0)
<1>1. ASSUME NEW z \in Zs, NEW q \in Qs, Decodes(d, n, bits, count, ready, z, q)
      PROVE  Decodes(d, n, bits, count, 0, z, q)
  <2>1. ~(count >= 1)
    BY <1>1
  <2>2. QED
    BY <1>1, <2>1 DEF Decodes, Frames, AtSyncs
<1>2. QED
  BY <1>1 DEF Tracked

-----------------------------------------------------------------------------
(* An Update after the drive was disturbed: the density may have changed *)

\* The cycles of a bit are at most those of the slowest zone, less than twice those of
\* this one: the head may move twice, and then the bit is shorter than a whole one.
Settles(d, n, e) ==
  /\ Spares(d, e) /\ Let(e)
  /\ e.headBitOffset = d.headBitOffset \/ FetchedHere(e)
  /\ n >= 1 => e.cyclesForBit < CyclesPerBit(d)
               \/ e.cyclesForBit + CyclesPerBit(d) <= 4 * UE7Count
  /\ n >= 2 => e.cyclesForBit < CyclesPerBit(d)

LEMMA SettlesThen ==
  ASSUME NEW d, Shaped(d), ~d.writing, InZone(d),
         NEW first \in FirstNoise, NEW later \in LaterNoise,
         NEW n \in 0 .. UE7Count - 1, NEW e, Shaped(e), Settles(d, n, e)
  PROVE  Settles(d, n + 1, Cycle(e, first, later))
<1> DEFINE f == Cycle(e, first, later)
           r == Amplified(e, first, later)
           C == CyclesPerBit(d)
<1>1. /\ Spares(d, e) /\ Let(e)
      /\ e.headBitOffset = d.headBitOffset \/ FetchedHere(e)
      /\ n >= 1 => e.cyclesForBit < C \/ e.cyclesForBit + C <= 4 * UE7Count
      /\ n >= 2 => e.cyclesForBit < C
  BY DEF Settles
<1>2. /\ later \in Noises /\ first \in Noises /\ first > 1 /\ ~e.writing /\ n \in Nat
  BY <1>1, NoiseType, FirstNoises, Sizes DEF Spares, Mounted
<1>3. InZone(e) /\ CyclesPerBit(e) = C /\ Period(e) = Period(d)
  BY <1>1 DEF Spares, Mounted, InZone, CyclesPerBit, Length, Track, Period
<1>4. /\ UE7Count \in Nat /\ Period(e) \in Nat /\ Period(e) >= 1 /\ UE7Count <= 2 * Period(e)
      /\ e.cyclesForBit \in Nat /\ C = 4 * Period(e)
  BY <1>3, Rates
<1>5. e.cyclesForBit <= (4 * UE7Count) - 1
  BY <1>4, Numbers
<1>6. /\ Shaped(r) /\ Turns(e, r) /\ Mounted(e, f) /\ Stays(r, f)
      /\ f.cyclesForBit = r.cyclesForBit /\ f.cached = r.cached /\ Let(f)
  BY <1>1, <1>2, CycleTurns
<1>7. Within(e) => /\ r.headBitOffset = e.headBitOffset
                   /\ r.cyclesForBit = e.cyclesForBit + 1 /\ r.cached = e.cached
  BY <1>2, AmplifiedWithin
<1>8. ~Within(e) => /\ r.headBitOffset = Advanced(e)
                    /\ r.cyclesForBit = e.cyclesForBit + 1 - C /\ r.cached = Fetched(e).cached
  BY <1>2, <1>3, AmplifiedOn
<1> HIDE DEF f, r, C
<1>9. Spares(d, f)
  <2>1. Spares(e, f)
    BY <1>6 DEF Spares, Turns, Stays, Mounted
  <2>2. QED
    BY <1>1, <2>1, SparesThen
<1>10. f.headBitOffset = d.headBitOffset \/ FetchedHere(f)
  <2>1. f.headBitOffset = r.headBitOffset /\ f.headTrackPos = e.headTrackPos
    BY <1>6 DEF Stays, Mounted
  <2>2. CASE Within(e)
    BY <1>1, <1>6, <1>7, <2>1, <2>2 DEF FetchedHere
  <2>3. CASE ~Within(e)
    BY <1>6, <1>8, <2>1, <2>3, FetchedCache DEF FetchedHere
  <2>4. QED
    BY <2>2, <2>3
<1>11. /\ f.cyclesForBit < C \/ f.cyclesForBit + C <= 4 * UE7Count
       /\ n + 1 >= 2 => f.cyclesForBit < C
  <2>1. CASE Within(e)
    BY <1>3, <1>4, <1>6, <1>7, <2>1 DEF Within
  <2>2. CASE ~Within(e)
    <3>1. f.cyclesForBit = e.cyclesForBit + 1 - C
      BY <1>6, <1>8, <2>2
    <3>2. f.cyclesForBit + C <= 4 * UE7Count
      BY <1>4, <1>5, <3>1
    <3>3. n >= 1 => f.cyclesForBit < C
      BY <1>1, <1>4, <3>1
    <3>4. QED
      BY <1>2, <3>2, <3>3
  <2>3. QED
    BY <2>1, <2>2
<1>12. QED
  BY <1>6, <1>9, <1>10, <1>11 DEF Settles, f, C

LEMMA CyclesSettle ==
  ASSUME NEW d, Shaped(d), ~d.writing, InZone(d), ~d.SO,
         NEW first \in FirstNoise, NEW later \in LaterNoise
  PROVE  LET e == Cycles(d, first, later)
         IN  /\ Shaped(e) /\ Spares(d, e) /\ Let(e) /\ e.cyclesForBit < CyclesPerBit(d)
             /\ e.headBitOffset = d.headBitOffset \/ FetchedHere(e)
<1> DEFINE J == {p \in Nat \X DriveRecords : Settles(d, p[1], p[2])}
<1>1. \A e : Shaped(e) => e \in DriveRecords
  BY DEF Shaped, Whole
<1>2. first \in Noises /\ later \in Noises
  BY FirstNoises, NoiseType
<1>3. Settles(d, 0, d)
  BY DEF Settles, Spares, Mounted, Let
<1>4. <<0, d>> \in J
  BY <1>1, <1>3
<1>5. ASSUME NEW n \in 0 .. UE7Count - 1, NEW e, Shaped(e), <<n, e>> \in J
      PROVE  <<n + 1, Cycle(e, first, later)>> \in J
  <2> DEFINE f == Cycle(e, first, later)
  <2>1. Settles(d, n, e) /\ n + 1 \in Nat
    BY <1>5, Sizes
  <2>2. Shaped(f)
    BY <1>2, <1>5, CycleIs
  <2>3. Settles(d, n + 1, f)
    BY <1>5, <2>1, SettlesThen
  <2> HIDE DEF f
  <2>4. QED
    BY <1>1, <2>1, <2>2, <2>3 DEF f
<1> HIDE DEF J
<1>6. Shaped(Cycles(d, first, later)) /\ <<UE7Count, Cycles(d, first, later)>> \in J
  BY <1>2, <1>4, <1>5, CyclesHave
<1> DEFINE e == Cycles(d, first, later)
<1>7. Shaped(e) /\ Settles(d, UE7Count, e)
  BY <1>6 DEF J
<1> HIDE DEF e
<1>8. e.cyclesForBit < CyclesPerBit(d)
  <2>1. /\ UE7Count \in Nat /\ Period(d) \in Nat /\ Period(d) >= 1 /\ UE7Count <= 2 * Period(d)
        /\ Period(d) <= UE7Count /\ CyclesPerBit(d) = 4 * Period(d)
    BY Rates
  <2>2. e.cyclesForBit \in Nat
    BY <1>7, Rates
  <2>3. CASE UE7Count >= 2
    BY <1>7, <2>3 DEF Settles
  <2>4. CASE UE7Count = 1
    BY <1>7, <2>1, <2>2, <2>4 DEF Settles
  <2>5. QED
    BY <2>1, <2>3, <2>4
<1>9. QED
  BY <1>7, <1>8 DEF Settles, e

-----------------------------------------------------------------------------
(* An Update that reads *)

LEMMA Blank ==
  ASSUME NEW p, NEW d, p.fresh = "no", p.bits = <<>>, p.count = -1, p.ready = 0
  PROVE  ReadOf(p, d)
BY NothingYet DEF ReadOf, History, Fetching, HistoryFollows

\* What an Update leaves of the drive, when it reads.
LEMMA SparesRead ==
  ASSUME NEW d, NEW e, Spares(d, e)
  PROVE  /\ Reads(d) => Reads(e)
         /\ InZone(d) => InZone(e)
         /\ e.writing = d.writing /\ Track(e) = Track(d) /\ CyclesPerBit(e) = CyclesPerBit(d)
         /\ e.headTrackPos = d.headTrackPos
BY DEF Spares, Mounted, Reads, InZone, CyclesPerBit, Length, Track

LEMMA UpdateReads ==
  ASSUME NEW d, Shaped(d), Reads(d), InZone(d), ~d.writing, NEW p \in PassedRecords, ReadOf(p, d),
         NEW first \in FirstNoise, NEW later \in LaterNoise
  PROVE  ReadOf(Passed(p, d, Spun(d, first, later)), Spun(d, first, later))
<1> DEFINE s == [d EXCEPT !.SO = FALSE]
           e == Spun(d, first, later)
           moved == e.headBitOffset # d.headBitOffset
           ready == IF d.SO THEN 1 ELSE 0
           R == p.ready + ready
           told == [p EXCEPT !.ready = IF p.count < 1 THEN 0 ELSE @ + ready]
           q == Passed(p, d, e)
<1>1. /\ Shaped(s) /\ Mounted(d, s) /\ Stays(d, s) /\ s.SO = FALSE
      /\ s.UE3 = d.UE3 /\ s.readShift = d.readShift /\ s.PB7 = d.PB7 /\ s.PA = d.PA
      /\ s.cyclesForBit = d.cyclesForBit /\ s.noise = d.noise
      /\ s.cached = d.cached /\ s.UF4 = d.UF4 /\ s.UE7 = d.UE7
  BY SilentIs
<1>2. e = Cycles(s, first, later)
  BY DEF Spun
<1>3. DataReady(d) = d.SO
  <2>1. d.SO \in BOOLEAN
    BY DEF Shaped, Whole, DriveRecords
  <2>2. QED
    BY <2>1 DEF DataReady
<1>4. q = IF ~moved THEN told
          ELSE IF p.fresh = "no" THEN [p EXCEPT !.fresh = "one"]
          ELSE IF p.fresh = "one" /\ e.headBitOffset % ByteBits # 0 THEN p
          ELSE Recorded(p, e, ready)
  BY <1>3 DEF Passed
<1>5. ready \in 0 .. 1 /\ p.ready \in Nat /\ R \in Nat /\ p.count \in Int
  BY PassedFields
<1>6. /\ told.fresh = p.fresh /\ told.bits = p.bits /\ told.count = p.count
      /\ told.ready = IF p.count < 1 THEN 0 ELSE R
      /\ [p EXCEPT !.fresh = "one"].fresh = "one" /\ [p EXCEPT !.fresh = "one"].bits = p.bits
      /\ [p EXCEPT !.fresh = "one"].count = p.count /\ [p EXCEPT !.fresh = "one"].ready = p.ready
  BY PassedFields
<1> HIDE DEF s, told
<1> DEFINE once == [p EXCEPT !.fresh = "one"]
<1> HIDE DEF once
<1>7. History(p) /\ Fetching(p, d) /\ HistoryFollows(p, d)
  BY DEF ReadOf
<1>8. Spares(d, s) /\ s.headBitOffset = d.headBitOffset
  BY <1>1 DEF Spares, Stays
<1>9. Reads(s) /\ InZone(s) /\ ~s.writing /\ Track(s) = Track(d)
      /\ CyclesPerBit(s) = CyclesPerBit(d) /\ s.headTrackPos = d.headTrackPos
  BY <1>8, SparesRead
<1>10. p.fresh = "no" \/ p.fresh = "one" \/ p.fresh = "yes"
  BY PassedFields DEF Freshness
<1>11. p.fresh # "yes" => p.bits = <<>> /\ p.count = -1 /\ p.ready = 0
  BY <1>7 DEF History
<1>12. SUFFICES ReadOf(q, e)
  OBVIOUS
<1> HIDE DEF e, q, ready, R
<1>13. CASE p.fresh = "no"
  <2>1. /\ Shaped(e) /\ Spares(s, e) /\ Let(e) /\ e.cyclesForBit < CyclesPerBit(s)
        /\ ~moved \/ FetchedHere(e)
    BY <1>1, <1>2, <1>8, <1>9, CyclesSettle
  <2>2. CASE ~moved
    <3>1. q = told
      BY <1>4, <2>2
    <3>2. q.fresh = "no" /\ q.bits = <<>> /\ q.count = -1 /\ q.ready = 0
      BY <1>6, <1>11, <1>13, <3>1
    <3>3. QED
      BY <3>2, Blank
  <2>3. CASE moved
    <3>1. q = once
      BY <1>4, <1>13, <2>3 DEF once
    <3>2. q.fresh = "one" /\ q.bits = <<>> /\ q.count = -1 /\ q.ready = 0
      BY <1>6, <1>11, <1>13, <3>1 DEF once
    <3>3. Reads(e) /\ InZone(e) /\ ~e.writing /\ CyclesPerBit(e) = CyclesPerBit(s)
      BY <1>9, <2>1, SparesRead
    <3>4. Fetching(q, e)
      BY <2>1, <2>3, <3>2, <3>3 DEF Fetching
    <3>5. History(q) /\ HistoryFollows(q, e)
      BY <3>2, NothingYet DEF History, HistoryFollows
    <3>6. QED
      BY <3>4, <3>5 DEF ReadOf
  <2>4. QED
    BY <2>2, <2>3
<1>14. CASE p.fresh # "no"
  <2> DEFINE b == BitRead(Fetched(s))
             m == More(p.bits, b)
             x == MoreCount(m, p.count)
  <2>1. Let(d) /\ FetchedHere(d) /\ d.cyclesForBit < CyclesPerBit(d)
    BY <1>7, <1>14 DEF Fetching
  <2>2. FetchedHere(s) /\ s.cyclesForBit < CyclesPerBit(s)
    BY <1>1, <1>8, <1>9, <2>1 DEF FetchedHere
  <2>3. Sensible(p.bits, p.count) /\ (p.count < 1 => p.ready = 0)
        /\ Tracked(d, UE7Count, p.bits, p.count, p.ready)
    BY <1>7 DEF History, HistoryFollows
  <2>4. Tracked(s, 0, p.bits, p.count, R)
    BY <1>1, <1>5, <1>8, <2>3, StartDecodes DEF R, ready
  <2>5. /\ Shaped(e)
        /\ \/ BeforeBit(s, UE7Count, e, p.bits, p.count, R)
           \/ AfterBit(s, UE7Count, e, m, p.count, R)
    BY <1>1, <1>2, <1>5, <1>9, <2>2, <2>3, <2>4, CyclesDecode
  <2>6. ASSUME Spares(s, e)
        PROVE  /\ Reads(e) /\ InZone(e) /\ ~e.writing /\ Track(e) = Track(s)
               /\ CyclesPerBit(e) = CyclesPerBit(s) /\ e.headTrackPos = s.headTrackPos
    BY <1>9, <2>6, SparesRead
  <2> HIDE DEF b, m, x
  <2>7. CASE BeforeBit(s, UE7Count, e, p.bits, p.count, R)
    <3>1. /\ Spares(s, e) /\ e.headBitOffset = d.headBitOffset /\ e.cached = d.cached
          /\ e.cyclesForBit < CyclesPerBit(s) /\ Let(e)
          /\ Tracked(e, UE7Count, p.bits, p.count, R)
      BY <1>1, <1>8, <2>7 DEF BeforeBit
    <3>2. q = told
      BY <1>4, <3>1
    <3>3. Fetching(q, e)
      BY <1>6, <1>7, <1>8, <1>9, <2>1, <2>6, <3>1, <3>2 DEF Fetching, FetchedHere
    <3>4. History(q)
      BY <1>6, <1>7, <3>2 DEF History
    <3>5. HistoryFollows(q, e)
      <4>1. CASE p.count < 1
        BY <1>5, <1>6, <3>1, <3>2, <4>1, Untold DEF HistoryFollows
      <4>2. CASE ~(p.count < 1)
        BY <1>6, <3>1, <3>2, <4>2 DEF HistoryFollows
      <4>3. QED
        BY <4>1, <4>2
    <3>6. QED
      BY <3>3, <3>4, <3>5 DEF ReadOf
  <2>8. CASE AfterBit(s, UE7Count, e, m, p.count, R)
    <3>1. /\ Spares(s, e) /\ e.headBitOffset = Advanced(s) /\ e.cached = Fetched(s).cached
          /\ e.cyclesForBit < UE7Count /\ Let(e)
          /\ ~Weak(m) => Tracked(e, UE7Count, m, x, R)
      BY <2>8 DEF AfterBit, x
    <3>2. moved
      BY <1>1, <1>8, <3>1, AdvancedIs
    <3>3. /\ Reads(e) /\ InZone(e) /\ ~e.writing /\ Track(e) = Track(s)
          /\ CyclesPerBit(e) = CyclesPerBit(s) /\ e.headTrackPos = s.headTrackPos
      BY <2>6, <3>1
    <3>4. e.cyclesForBit < CyclesPerBit(e)
      <4>1. /\ UE7Count \in Nat /\ Period(e) \in Nat /\ UE7Count <= 2 * Period(e)
            /\ e.cyclesForBit \in Nat /\ CyclesPerBit(e) = 4 * Period(e)
        BY <2>5, <3>3, Rates
      <4>2. QED
        BY <3>1, <4>1
    <3>5. FetchedHere(e)
      BY <1>1, <3>1, <3>3, FetchedCache DEF FetchedHere
    <3>6. CASE p.fresh = "one" /\ e.headBitOffset % ByteBits # 0
      <4>1. q = p
        BY <1>4, <3>2, <3>6
      <4>2. Fetching(q, e)
        BY <3>1, <3>3, <3>4, <3>5, <3>6, <4>1 DEF Fetching
      <4>3. History(q) /\ HistoryFollows(q, e)
        BY <1>7, <1>11, <3>6, <4>1, NothingYet DEF HistoryFollows
      <4>4. QED
        BY <4>2, <4>3 DEF ReadOf
    <3>7. CASE ~(p.fresh = "one" /\ e.headBitOffset % ByteBits # 0)
      <4>1. q = Recorded(p, e, ready)
        BY <1>4, <1>14, <3>2, <3>7
      <4>2. s.cached.bits = ByteAt(Track(s), s.cached.byte) \/ Advanced(s) % ByteBits = 0
        BY <1>1, <1>7, <1>9, <1>10, <1>14, <3>1, <3>7 DEF Fetching
      <4>3. /\ Fetched(s).cached.bits = ByteAt(Track(s), Fetched(s).cached.byte)
            /\ b = Track(s)[Advanced(s) + 1]
        BY <1>1, <2>2, <4>2, BitIs DEF b
      <4>4. b = Track(e)[e.headBitOffset + 1] /\ b \in Bit
        BY <1>1, <3>1, <3>3, <4>3, FetchedIs DEF b
      <4>5. /\ q.fresh = "yes"
            /\ Weak(m) => q.bits = <<>> /\ q.count = -1 /\ q.ready = 0
            /\ ~Weak(m) => /\ q.bits = m /\ q.count = x
                           /\ q.ready = IF x < 1 THEN 0 ELSE R
        BY <1>5, <4>1, <4>4, RecordedIs DEF m, x, R
      <4>6. Fetching(q, e)
        BY <3>1, <3>3, <3>4, <3>5, <4>3, <4>5 DEF Fetching
      <4>7. CASE Weak(m)
        <5>1. History(q) /\ HistoryFollows(q, e)
          BY <4>5, <4>7, NothingYet DEF History, HistoryFollows
        <5>2. QED
          BY <4>6, <5>1 DEF ReadOf
      <4>8. CASE ~Weak(m)
        <5>1. Sensible(m, x)
          BY <2>3, <4>4, <4>8, MoreSensible DEF m, x
        <5>2. History(q)
          BY <4>5, <4>8, <5>1 DEF History
        <5>3. x \in Int
          BY <5>1 DEF Sensible
        <5>4. HistoryFollows(q, e)
          <6>1. CASE x < 1
            BY <3>1, <4>5, <4>8, <5>3, <6>1, Untold DEF HistoryFollows
          <6>2. CASE ~(x < 1)
            BY <3>1, <4>5, <4>8, <6>2 DEF HistoryFollows
          <6>3. QED
            BY <6>1, <6>2
        <5>5. QED
          BY <4>6, <5>2, <5>4 DEF ReadOf
      <4>9. QED
        BY <4>7, <4>8
    <3>8. QED
      BY <3>6, <3>7
  <2>9. QED
    BY <2>5, <2>7, <2>8
<1>15. QED
  BY <1>13, <1>14

-----------------------------------------------------------------------------
(* The bytes that were read are those of the track *)

ReadInv == ReadOf(passed, drive)

\* A byte on port A says nothing of what is read.
LEMMA DataReads ==
  ASSUME NEW d, Shaped(d), NEW byte \in Bytes, NEW p, ReadOf(p, d)
  PROVE  ReadOf(p, [d EXCEPT !.out = byte])
<1> DEFINE e == [d EXCEPT !.out = byte]
<1>1. /\ Counting(d, e) /\ e.headTrackPos = d.headTrackPos
      /\ e.CLOCK_SEL_AB = d.CLOCK_SEL_AB /\ e.motor = d.motor /\ e.image = d.image
      /\ e.swap = d.swap /\ e.writing = d.writing /\ e.soe = d.soe
      /\ e.cyclesForBit = d.cyclesForBit /\ e.noise = d.noise
      /\ e.cached = d.cached /\ e.UF4 = d.UF4 /\ e.UE7 = d.UE7
  BY OutIs
<1> SUFFICES ReadOf(p, e)
  OBVIOUS
<1> HIDE DEF e
<1>2. /\ Stays(d, e) /\ e.UE3 = d.UE3 /\ e.SO = d.SO /\ e.readShift = d.readShift
      /\ e.PB7 = d.PB7 /\ e.PA = d.PA
  BY <1>1 DEF Counting
<1>3. /\ Track(e) = Track(d) /\ Reads(e) = Reads(d) /\ InZone(e) = InZone(d)
      /\ CyclesPerBit(e) = CyclesPerBit(d) /\ e.headBitOffset = d.headBitOffset
  BY <1>1, <1>2 DEF Stays, Track, Length, Reads, InZone, CyclesPerBit
<1>4. /\ Period(e) = Period(d) /\ InRead(e) = InRead(d)
      /\ \A q : Quarters(e, q) = Quarters(d, q) /\ Cells(e, q) = Cells(d, q)
  BY <1>1, <1>2 DEF Period, InRead, Quarters, Cells
<1>5. Fetching(p, e)
  BY <1>1, <1>2, <1>3 DEF ReadOf, Fetching, FetchedHere, Let
<1>6. ASSUME NEW z \in Zs, NEW q \in Qs, NEW bits, NEW count, NEW ready,
             Decodes(d, UE7Count, bits, count, ready, z, q)
      PROVE  Decodes(e, UE7Count, bits, count, ready, z, q)
  <2>1. Since(bits, z) /\ Beats(e, e.cyclesForBit + 1, z, q)
    BY <1>1, <1>4, <1>6 DEF Decodes, Beats
  <2>2. Heads(e, bits, count, q) /\ Synced(e, q)
    BY <1>2, <1>6 DEF Decodes, Heads, Synced
  <2>3. Readies(e, e.cyclesForBit + 2, UE7Count, q)
    BY <1>1, <1>2, <1>4, <1>6 DEF Decodes, Readies
  <2>4. Frames(e, e.cyclesForBit + 2, UE7Count, bits, count, ready, q)
    BY <1>1, <1>2, <1>4, <1>6 DEF Decodes, Frames, Framed, AtSyncs, Counted
  <2>5. QED
    BY <2>1, <2>2, <2>3, <2>4 DEF Decodes
<1>7. HistoryFollows(p, e)
  BY <1>6 DEF ReadOf, HistoryFollows, Tracked
<1>8. QED
  BY <1>5, <1>7 DEF ReadOf

LEMMA ReadStep == ShapeInv /\ WriteInv /\ ReadInv /\ [Next]_vars => ReadInv'
<1> SUFFICES ASSUME ShapeInv, WriteInv, ReadInv, [Next]_vars PROVE ReadInv'
  OBVIOUS
<1>1. Shaped(drive) /\ passed \in PassedRecords /\ ReadOf(passed, drive)
  BY DEF ShapeInv, WriteInv, ReadInv
<1>2. passed' = Unknown => ReadInv'
  BY UnknownReads DEF ReadInv
<1>3. CASE StepStill
  BY <1>3 DEF StepStill, ReadInv
<1>4. CASE StepPort \/ StepMode \/ StepInsert
  BY <1>2, <1>4 DEF StepPort, StepMode, StepInsert
<1>5. CASE StepData
  <2>1. PICK byte \in Bytes : drive' = [drive EXCEPT !.out = byte]
    BY <1>5 DEF StepData
  <2>2. passed' = passed
    BY <1>5 DEF StepData
  <2>3. ReadOf(passed, [drive EXCEPT !.out = byte])
    BY <1>1, DataReads
  <2>4. QED
    BY <2>1, <2>2, <2>3 DEF ReadInv
<1>6. CASE StepUpdate
  <2>1. PICK first \in FirstNoise, later \in LaterNoise :
          drive' = Updated(drive, first, later)
    BY <1>6 DEF StepUpdate
  <2>2. passed' = Passed(passed, drive, drive')
    BY <1>6 DEF StepUpdate
  <2>3. CASE Reads(drive) /\ InZone(drive) /\ ~drive.writing
    <3>1. drive' = Spun(drive, first, later)
      BY <1>1, <2>1, <2>3, UpdatedIs
    <3>2. ReadOf(Passed(passed, drive, Spun(drive, first, later)), Spun(drive, first, later))
      BY <1>1, <2>3, UpdateReads
    <3>3. QED
      BY <2>2, <3>1, <3>2 DEF ReadInv
  <2>4. CASE ~(Reads(drive) /\ InZone(drive) /\ ~drive.writing)
    <3>1. passed.fresh = "no"
      BY <1>1, <2>4 DEF ReadOf, Fetching
    <3>2. passed.bits = <<>> /\ passed.count = -1 /\ passed.ready = 0
      BY <1>1, <3>1 DEF ReadOf, History
    <3>3. /\ passed'.fresh = passed.fresh /\ passed'.bits = passed.bits
          /\ passed'.count = passed.count /\ passed'.ready = passed.ready
      <4> DEFINE step == IF drive'.headBitOffset # drive.headBitOffset THEN 1 ELSE 0
                 takes == drive.UE3 = ByteBits /\ drive'.UE3 < ByteBits
      <4>1. passed' = IF ~Reads(drive) \/ ~InZone(drive) THEN passed
                      ELSE IF takes
                      THEN [passed EXCEPT !.loaded = TRUE, !.byte = drive.out, !.written = step]
                      ELSE IF passed.loaded THEN [passed EXCEPT !.written = @ + step]
                      ELSE passed
        BY <2>2, <2>4 DEF Passed
      <4> HIDE DEF step, takes
      <4>2. ASSUME NEW byte, NEW n
            PROVE  LET q == [passed EXCEPT !.loaded = TRUE, !.byte = byte, !.written = n]
                   IN  /\ q.fresh = passed.fresh /\ q.bits = passed.bits
                       /\ q.count = passed.count /\ q.ready = passed.ready
        BY <1>1, PassedFields
      <4>3. LET q == [passed EXCEPT !.written = @ + step]
            IN  /\ q.fresh = passed.fresh /\ q.bits = passed.bits
                /\ q.count = passed.count /\ q.ready = passed.ready
        BY <1>1, PassedFields
      <4>4. QED
        BY <4>1, <4>2, <4>3
    <3>4. QED
      BY <3>1, <3>2, <3>3, Blank DEF ReadInv
  <2>5. QED
    BY <2>3, <2>4
<1>7. QED
  BY <1>3, <1>4, <1>5, <1>6, DriveSteps

\* The last whole byte of the history, k bits after the SYNC.
LEMMA OnDiskIs ==
  ASSUME NEW bits \in Seq(Bit), Len(bits) = SyncBits, NEW j \in 0 .. 1
  PROVE  LET x == SubSeq(bits, SyncBits - j - ByteBits + 1, SyncBits - j)
         IN  /\ x \in Seq(Bit) /\ Len(x) = ByteBits
             /\ \A i \in 1 .. ByteBits : x[i] = bits[SyncBits - j - ByteBits + i]
<1>1. /\ SyncBits - j - ByteBits + 1 \in 1 .. SyncBits /\ SyncBits - j \in 1 .. SyncBits
      /\ SyncBits - j - ByteBits + 1 <= SyncBits - j
  BY Sizes
<1>2. QED
  BY <1>1, Sizes

LEMMA Remainders ==
  ASSUME NEW ready \in Nat, NEW j \in 0 .. 1
  PROVE  /\ ((ByteBits * ready) + j) % ByteBits = j
<1>1. ByteBits \in Nat /\ ByteBits > 2
  BY Sizes
<1>2. (ByteBits * ready) + j \in Nat
  BY <1>1
<1> DEFINE n == (ByteBits * ready) + j
           a == n \div ByteBits
           b == n % ByteBits
<1>3. a \in Nat /\ b \in 0 .. ByteBits - 1 /\ n = (a * ByteBits) + b
  BY <1>1, <1>2, Division
<1> HIDE DEF a, b
<1>4. a = ready
  <2>1. a * ByteBits \in Nat /\ ready * ByteBits \in Nat /\ ByteBits * ready = ready * ByteBits
    BY <1>1, <1>3
  <2>2. CASE a > ready
    <3>1. /\ a * ByteBits >= (ready + 1) * ByteBits
          /\ (ready + 1) * ByteBits = (ready * ByteBits) + ByteBits
      BY <1>1, <1>3, <2>2, Products
    <3>2. QED
      BY <1>1, <1>3, <2>1, <3>1
  <2>3. CASE a < ready
    <3>1. /\ ready * ByteBits >= (a + 1) * ByteBits
          /\ (a + 1) * ByteBits = (a * ByteBits) + ByteBits
      BY <1>1, <1>3, <2>3, Products
    <3>2. QED
      BY <1>1, <1>3, <2>1, <3>1
  <2>4. QED
    BY <1>3, <2>2, <2>3
<1>5. b = j
  <2>1. ByteBits * ready = ready * ByteBits /\ ready * ByteBits \in Nat
    BY <1>1
  <2>2. QED
    BY <1>1, <1>3, <1>4, <2>1
<1>6. QED
  BY <1>5 DEF b

\* What the drive shows when the history is known.
LEMMA ShownIs ==
  ASSUME NEW d, Shaped(d), NEW bits, NEW count, Sensible(bits, count), count >= 0,
         NEW ready \in Nat, count < 1 => ready = 0, Let(d),
         Tracked(d, UE7Count, bits, count, ready)
  PROVE  /\ d.UF4 % 4 >= 2 => (~d.PB7 <=> count = 0)
         /\ d.SO /\ count > 0 =>
              /\ count % ByteBits \in 0 .. 1
              /\ d.PA = SubSeq(bits, SyncBits - (count % ByteBits) - ByteBits + 1,
                               SyncBits - (count % ByteBits))
         /\ d.soe => ready * ByteBits <= count /\ count <= ((ready + 1) * ByteBits) + 2
<1>1. /\ ByteBits \in Nat /\ ByteBits > 2 /\ SyncBits \in Nat /\ SyncBits > ByteBits
      /\ d.UE3 \in 0 .. ByteBits /\ d.SO \in BOOLEAN /\ d \in DriveRecords
  BY Rates, Sizes DEF Shaped, Whole, DriveRecords
<1>2. /\ bits \in Seq(Bit) /\ Len(bits) = SyncBits /\ HasOne(bits) /\ count \in Int
      /\ (count = 0 <=> bits = Ones)
  BY DEF Sensible, BitSeqs
<1>3. PICK z \in Zs, q \in Qs : Decodes(d, UE7Count, bits, count, ready, z, q)
  BY <1>2 DEF Tracked
<1>4. /\ Beats(d, d.cyclesForBit + 1, z, q) /\ Heads(d, bits, count, q) /\ Synced(d, q)
      /\ Frames(d, d.cyclesForBit + 2, UE7Count, bits, count, ready, q)
  BY <1>3 DEF Decodes
<1>5. d.readShift \in Seq(Bit) /\ Len(d.readShift) = SyncBits
  BY RegisterIs
<1>6. \A i \in 1 .. SyncBits :
        IF q >= 2 THEN d.readShift[i] = bits[i]
        ELSE i < SyncBits => d.readShift[i + 1] = bits[i]
  <2>1. SUFFICES ASSUME NEW i \in 1 .. SyncBits
                 PROVE  IF q >= 2 THEN d.readShift[i] = bits[i]
                        ELSE i < SyncBits => d.readShift[i + 1] = bits[i]
    OBVIOUS
  <2>2. SyncBits - SyncBits + i = i /\ SyncBits - SyncBits + i + 1 = i + 1
    BY <1>1
  <2>3. IF q >= 2 THEN d.readShift[SyncBits - SyncBits + i] = bits[i]
        ELSE i < SyncBits => d.readShift[SyncBits - SyncBits + i + 1] = bits[i]
    BY <1>2, <1>4 DEF Heads, Known
  <2>4. QED
    BY <2>2, <2>3
<1>7. Framed(d, d.cyclesForBit + 2, UE7Count, q)
  BY <1>4 DEF Frames, Known
<1>8. d.UF4 % 4 >= 2 => (~d.PB7 <=> count = 0)
  <2>1. SUFFICES ASSUME d.UF4 % 4 >= 2 PROVE ~d.PB7 <=> count = 0
    OBVIOUS
  <2>2. q >= 2
    <3>1. d.UF4 = ((4 * z) + q) % 16
      BY <1>4 DEF Beats
    <3>2. z = 0 \/ z = 1 \/ z = 2 \/ z = 3
      BY DEF Zs
    <3>3. q = 0 \/ q = 1 \/ q >= 2
      BY DEF Qs
    <3>4. QED
      BY <2>1, <3>1, <3>2, <3>3
  <2>3. \A i \in 1 .. SyncBits : d.readShift[i] = bits[i]
    BY <1>6, <2>2
  <2>4. d.readShift = bits
    BY <1>2, <1>5, <2>3, SeqEqual
  <2>5. QED
    BY <1>2, <1>4, <2>2, <2>4 DEF Synced
<1>9. count >= 1 /\ d.soe =>
        /\ d.SO => count = (ByteBits * (ready + 1)) + (IF q < 2 THEN 1 ELSE 0)
        /\ ~d.SO => count = d.UE3 + (ByteBits * ready) + (IF q < 2 THEN 1 ELSE 0)
  <2>1. SUFFICES ASSUME count >= 1, d.soe
                 PROVE  /\ d.SO => count = (ByteBits * (ready + 1)) + (IF q < 2 THEN 1 ELSE 0)
                        /\ ~d.SO => count = d.UE3 + (ByteBits * ready) + (IF q < 2 THEN 1 ELSE 0)
    OBVIOUS
  <2>2. d.UE3 + (ByteBits * (ready + (IF d.SO THEN 1 ELSE 0))) + (IF q < 2 THEN 1 ELSE 0) = count
    BY <1>4, <2>1 DEF Frames, Counted
  <2>3. CASE d.SO
    <3>1. 0 + (ByteBits * (ready + 1)) + (IF q < 2 THEN 1 ELSE 0) = count
      BY <1>7, <2>2, <2>3 DEF Framed
    <3>2. ByteBits * (ready + 1) \in Nat
      BY <1>1
    <3>3. QED
      BY <2>3, <3>1, <3>2
  <2>4. CASE ~d.SO
    <3>1. ready + 0 = ready
      OBVIOUS
    <3>2. QED
      BY <2>2, <2>4, <3>1
  <2>5. QED
    BY <2>3, <2>4
<1>10. d.SO /\ count > 0 =>
         /\ count % ByteBits \in 0 .. 1
         /\ d.PA = SubSeq(bits, SyncBits - (count % ByteBits) - ByteBits + 1,
                          SyncBits - (count % ByteBits))
  <2>1. SUFFICES ASSUME d.SO, count > 0
                 PROVE  /\ count % ByteBits \in 0 .. 1
                        /\ d.PA = SubSeq(bits, SyncBits - (count % ByteBits) - ByteBits + 1,
                                         SyncBits - (count % ByteBits))
    OBVIOUS
  <2> DEFINE j == IF q < 2 THEN 1 ELSE 0
             x == SubSeq(bits, SyncBits - j - ByteBits + 1, SyncBits - j)
  <2>2. count >= 1 /\ d.soe
    BY <1>2, <2>1 DEF Let
  <2>3. count = (ByteBits * (ready + 1)) + j
    BY <1>9, <2>1, <2>2
  <2>4. j \in 0 .. 1 /\ ready + 1 \in Nat
    OBVIOUS
  <2>5. count % ByteBits = j
    <3> HIDE DEF j
    <3>1. QED
      BY <2>3, <2>4, Remainders
  <2>6. d.PA = InRead(d)
    BY <1>7, <2>1 DEF Framed
  <2>7. InRead(d) \in Seq(Bit) /\ Len(InRead(d)) = ByteBits
        /\ \A i \in 1 .. ByteBits : InRead(d)[i] = d.readShift[SyncBits - ByteBits + i]
    BY <1>1, InReadIs, BytesAre
  <2>8. x \in Seq(Bit) /\ Len(x) = ByteBits
        /\ \A i \in 1 .. ByteBits : x[i] = bits[SyncBits - j - ByteBits + i]
    <3>1. SubSeq(bits, SyncBits - j - ByteBits + 1, SyncBits - j) = x
      OBVIOUS
    <3> HIDE DEF j, x
    <3>2. QED
      BY <1>2, <2>4, <3>1, OnDiskIs
  <2>9. ASSUME NEW i \in 1 .. ByteBits PROVE InRead(d)[i] = x[i]
    <3>1. SyncBits - j - ByteBits + i \in 1 .. SyncBits - j
          /\ SyncBits - j - ByteBits + i + j = SyncBits - ByteBits + i
      BY <1>1, <2>4
    <3>2. d.readShift[SyncBits - j - ByteBits + i + j] = bits[SyncBits - j - ByteBits + i]
      <4>1. CASE q < 2
        <5>1. j = 1 /\ ~(q >= 2)
          BY <4>1 DEF Qs
        <5>2. SyncBits - j - ByteBits + i \in 1 .. SyncBits
              /\ SyncBits - j - ByteBits + i < SyncBits
          BY <1>1, <3>1, <5>1
        <5> HIDE DEF j
        <5>3. QED
          BY <1>6, <5>1, <5>2
      <4>2. CASE ~(q < 2)
        <5>1. j = 0 /\ q >= 2
          BY <4>2 DEF Qs
        <5>2. SyncBits - j - ByteBits + i \in 1 .. SyncBits
              /\ SyncBits - j - ByteBits + i + j = SyncBits - j - ByteBits + i
          BY <1>1, <3>1, <5>1
        <5> HIDE DEF j
        <5>3. QED
          BY <1>6, <5>1, <5>2
      <4>3. QED
        BY <4>1, <4>2
    <3>3. QED
      BY <2>7, <2>8, <3>1, <3>2
  <2> HIDE DEF x
  <2>10. InRead(d) = x
    BY <2>7, <2>8, <2>9, SeqEqual
  <2>11. QED
    BY <2>4, <2>5, <2>6, <2>10 DEF x
<1>11. d.soe => ready * ByteBits <= count /\ count <= ((ready + 1) * ByteBits) + 2
  <2>1. SUFFICES ASSUME d.soe
                 PROVE  ready * ByteBits <= count /\ count <= ((ready + 1) * ByteBits) + 2
    OBVIOUS
  <2>2. /\ ready * ByteBits \in Nat /\ ByteBits * ready = ready * ByteBits
        /\ (ready + 1) * ByteBits = (ready * ByteBits) + ByteBits
        /\ ByteBits * (ready + 1) = (ready * ByteBits) + ByteBits
    BY <1>1
  <2>3. CASE count = 0
    <3>1. ready = 0 /\ ready * ByteBits = 0
      BY <1>1, <2>3
    <3>2. QED
      BY <1>1, <2>2, <2>3, <3>1
  <2>4. CASE count >= 1
    BY <1>1, <1>9, <2>1, <2>2, <2>4
  <2>5. QED
    BY <1>2, <2>3, <2>4
<1>12. QED
  BY <1>8, <1>10, <1>11

\* While the drive reads at the density of the track every byte after a SYNC is ready once,
\* in its turn, and is the one on the disk, whatever was done to the drive before.
THEOREM ReadsTheTrack == Spec => []BytesOfTheTrack
<1>1. Init => ShapeInv /\ WriteInv /\ ReadInv
  <2>1. SUFFICES ASSUME Init PROVE WriteInv /\ ReadInv
    BY ResetShaped DEF Init, ShapeInv
  <2>2. passed = Unknown /\ drive.tracks = Content
    BY <2>1 DEF Init, DriveReset
  <2>3. QED
    BY <2>2, UnknownType, UnknownReads DEF WriteInv, Loaded, Marked, ReadInv
<1>2. (ShapeInv /\ WriteInv /\ ReadInv) /\ [Next]_vars => (ShapeInv /\ WriteInv /\ ReadInv)'
  BY ShapedStep, WriteStep, ReadStep
<1>3. ShapeInv /\ WriteInv /\ ReadInv => BytesOfTheTrack
  <2>1. SUFFICES ASSUME ShapeInv, WriteInv, ReadInv, Undisturbed
                 PROVE  /\ InSync(passed.count)
                        /\ drive.SO /\ passed.count > 0 =>
                             passed.count % ByteBits < 2 /\ drive.PA = OnDisk(passed.count)
                        /\ drive.soe => ReadyOnce(passed.count)
    BY DEF BytesOfTheTrack
  <2>2. /\ Shaped(drive) /\ passed.ready \in Nat /\ passed.count \in Int
        /\ passed.fresh \in Freshness
    BY <2>1, PassedFields DEF ShapeInv, WriteInv
  <2>3. /\ Sensible(passed.bits, passed.count) /\ passed.count >= 0
        /\ passed.count < 1 => passed.ready = 0
        /\ passed.fresh = "yes" /\ Let(drive)
        /\ Tracked(drive, UE7Count, passed.bits, passed.count, passed.ready)
    BY <2>1, <2>2 DEF ReadInv, ReadOf, History, Fetching, HistoryFollows, Undisturbed
  <2>4. /\ drive.UF4 % 4 >= 2 => (~drive.PB7 <=> passed.count = 0)
        /\ drive.SO /\ passed.count > 0 =>
             /\ passed.count % ByteBits \in 0 .. 1
             /\ drive.PA = SubSeq(passed.bits, SyncBits - (passed.count % ByteBits) - ByteBits + 1,
                                  SyncBits - (passed.count % ByteBits))
        /\ drive.soe => /\ passed.ready * ByteBits <= passed.count
                        /\ passed.count <= ((passed.ready + 1) * ByteBits) + 2
    BY <2>2, <2>3, ShownIs
  <2>5. passed.count % ByteBits \in 0 .. 1 => passed.count % ByteBits < 2
    OBVIOUS
  <2>6. QED
    BY <2>4, <2>5 DEF InSync, OnDisk, ReadyOnce
<1>4. QED
  BY <1>1, <1>2, <1>3, PTL DEF Spec
=============================================================================
