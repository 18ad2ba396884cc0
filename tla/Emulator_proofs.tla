------------------------- MODULE Emulator_proofs --------------------------
(* Proofs about Emulator: typing, the drive and the caddy, and the writes. *)
EXTENDS Emulator, FiniteSetTheorems, TLAPS

-----------------------------------------------------------------------------
(* The invariants *)

\* No name is there twice.
Once(names) == \A i, j \in DOMAIN names : names[i] = names[j] => i = j

\* Where core 1 has no image in the caddy, and where it has the one that was mounted
\* by itself, with nobody to disturb it before it runs.
Empties == {"begin", "setup", "resetting", "clear", "waitReset", "waitButtons"}
CaddyInPlace ==
  /\ at \in Empties => disks = <<>>
  /\ at = "browse" /\ disks # <<>> => AutoMount # NoFile /\ selectionsMade /\ ~reset
  /\ at = "setup" => AutoMount = NoFile \/ ~reset
  /\ at # "empty" => gone = 0
  /\ gone <= Len(disks)

\* The caddy holds the card's images of the current folder, each once, as the
\* computer wrote them; what is not on the card yet is dirty and will be saved.
Fresh(images, folder) ==
  \A i \in DOMAIN images :
    /\ images[i].dir = folder
    /\ \A j \in DOMAIN images : images[i].file = images[j].file => i = j
Unsaved(d, f) ==
  \E i \in DOMAIN disks : /\ i > gone /\ disks[i].dirty
                          /\ disks[i].dir = d /\ disks[i].file = f
Accounted ==
  /\ Fresh(disks, cwd)
  /\ \A i \in DOMAIN disks : disks[i].data = meant[disks[i].dir][disks[i].file]
  /\ \A d \in Folders, f \in Files : card[d][f] = meant[d][f] \/ Unsaved(d, f)

DriveInv == TypeOK /\ Once(selections) /\ CaddyInPlace /\ DriveMatchesCaddy
Inv == DriveInv /\ (~Uploads => Accounted)

-----------------------------------------------------------------------------
(* The file browser *)

Browsers == [selections : Seq(Files), made : BOOLEAN, disks : Seq(Images), cwd : Folders]

LEMMA Injective ==
  ASSUME NEW S, NEW T, NEW f \in [S -> T], IsInjective(f)
  PROVE  f \in Injection(S, T)
BY DEF Injection

\* The names before the n-th are n - 1: each n has its place, and no two have one.
LEMMA Places1 ==
  ASSUME NEW S, NEW m \in Nat, S \subseteq 1 .. m
  PROVE  /\ Cardinality(S) \in Nat
         /\ \A n \in 1 .. Cardinality(S) :
              \E i \in S : Cardinality({k \in S : k < i}) = n - 1
<1> DEFINE Under(i) == {k \in S : k < i}
           c == Cardinality(S)
           rank == [i \in S |-> Cardinality(Under(i))]
<1>1. IsFiniteSet(S) /\ c \in Nat
  <2>1. IsFiniteSet(1 .. m)
    BY FS_Interval
  <2>2. IsFiniteSet(S)
    BY <2>1, FS_Subset
  <2>3. QED
    BY <2>2, FS_CardinalityType
<1>0. \A i \in S : i \in Int
  OBVIOUS
<1>2. \A i \in S : /\ IsFiniteSet(Under(i)) /\ Cardinality(Under(i)) \in Nat
                   /\ Cardinality(Under(i)) < c
  <2> SUFFICES ASSUME NEW i \in S
               PROVE  /\ IsFiniteSet(Under(i)) /\ Cardinality(Under(i)) \in Nat
                      /\ Cardinality(Under(i)) < c
    OBVIOUS
  <2>1. Under(i) \subseteq S /\ i \notin Under(i)
    BY <1>0
  <2> HIDE DEF Under
  <2>2. QED
    BY <1>1, <2>1, FS_Subset, FS_CardinalityType
<1>3. \A i, j \in S : i < j => Cardinality(Under(i)) < Cardinality(Under(j))
  <2> SUFFICES ASSUME NEW i \in S, NEW j \in S, i < j
               PROVE  Cardinality(Under(i)) < Cardinality(Under(j))
    OBVIOUS
  <2>1. \A k \in S : k < i => k < j
    BY <1>0
  <2>2. Under(i) \subseteq Under(j) /\ i \in Under(j)
    BY <2>1
  <2>3. i \notin Under(i)
    BY <1>0
  <2> HIDE DEF Under
  <2>4. QED
    BY <1>2, <2>2, <2>3, FS_Subset
<1>4. rank \in [S -> 0 .. c - 1]
  <2> HIDE DEF Under, c
  <2>1. \A i \in S : Cardinality(Under(i)) \in 0 .. c - 1
    BY <1>1, <1>2
  <2>2. QED
    BY <2>1
<1>5. \A i, j \in S : rank[i] = rank[j] => i = j
  <2> SUFFICES ASSUME NEW i \in S, NEW j \in S, rank[i] = rank[j], i # j PROVE FALSE
    OBVIOUS
  <2>1. i < j \/ j < i
    OBVIOUS
  <2> HIDE DEF Under
  <2>2. QED
    BY <1>2, <1>3, <2>1
<1>6. rank \in Injection(S, 0 .. c - 1)
  <2> HIDE DEF rank, c
  <2>1. IsInjective(rank)
    BY <1>4, <1>5 DEF IsInjective
  <2>2. QED
    BY <1>4, <2>1, Injective
<1>7. IsFiniteSet(0 .. c - 1) /\ Cardinality(0 .. c - 1) = c
  <2> HIDE DEF c
  <2>1. c - 1 - 0 + 1 = c /\ (0 > c - 1 <=> c = 0)
    BY <1>1
  <2>2. QED
    BY <1>1, <2>1, FS_Interval
<1>8. rank \in Surjection(S, 0 .. c - 1)
  <2> HIDE DEF rank, c
  <2>1. Cardinality(S) = Cardinality(0 .. c - 1)
    BY <1>7 DEF c
  <2>2. QED
    BY <1>6, <1>7, <2>1, FS_Injection
<1>9. \A n \in 1 .. c : n - 1 \in 0 .. c - 1
  <2> HIDE DEF c
  <2>1. QED
    BY <1>1
<1>10. \A y \in 0 .. c - 1 : \E i \in S : rank[i] = y
  BY <1>8 DEF Surjection
<1>11. QED
  BY <1>1, <1>9, <1>10

LEMMA GoodNames ==
  ASSUME NEW b \in Browsers
  PROVE  /\ Good(b) \in Seq(Files)
         /\ Once(b.selections) => Once(Good(b))
         /\ b.selections = <<>> => Good(b) = <<>>
<1> DEFINE s == b.selections
           S == {i \in DOMAIN s : Readable(b, s[i])}
           Rank(i) == Cardinality({k \in S : k < i})
           nth(n) == CHOOSE i \in S : Rank(i) = n - 1
           c == Cardinality(S)
           g == [n \in 1 .. c |-> s[nth(n)]]
<1>1. s \in Seq(Files)
  BY DEF Browsers
<1>2. DOMAIN s = 1 .. Len(s) /\ Len(s) \in Nat /\ \A i \in DOMAIN s : s[i] \in Files
  BY <1>1
<1>3. S \subseteq 1 .. Len(s)
  BY <1>2
<1>4. Good(b) = g
  BY DEF Good
<1>5. c \in Nat /\ \A n \in 1 .. c : \E i \in S : Rank(i) = n - 1
  <2> HIDE DEF S
  <2>1. QED
    BY <1>2, <1>3, Places1
<1>6. \A n \in 1 .. c : nth(n) \in S /\ Rank(nth(n)) = n - 1
  <2> HIDE DEF S, Rank, c
  <2>1. QED
    BY <1>5
<1>7. \A n \in 1 .. c : nth(n) \in DOMAIN s
  <2> HIDE DEF nth, c
  <2>1. QED
    BY <1>6
<1>8. g \in Seq(Files)
  <2> HIDE DEF nth, c, s
  <2>1. QED
    BY <1>2, <1>5, <1>7
<1>9. Once(s) => Once(g)
  <2>0. \A n \in 1 .. c : g[n] = s[nth(n)]
    <3> HIDE DEF nth, c
    <3>1. QED
      OBVIOUS
  <2>00. DOMAIN g = 1 .. c
    OBVIOUS
  <2> SUFFICES ASSUME Once(s), NEW m \in 1 .. c, NEW n \in 1 .. c, s[nth(m)] = s[nth(n)]
               PROVE  m = n
    <3> HIDE DEF nth, c, g, s
    <3>1. QED
      BY <2>0, <2>00 DEF Once
  <2>1. nth(m) = nth(n)
    BY <1>7 DEF Once
  <2> HIDE DEF nth, Rank, c
  <2>2. m - 1 = n - 1
    BY <1>6, <2>1
  <2>3. QED
    BY <1>5, <2>2
<1>10. s = <<>> => g = <<>>
  <2> SUFFICES ASSUME s = <<>> PROVE g = <<>>
    OBVIOUS
  <2>1. S = {}
    BY <1>3
  <2>2. c = 0
    BY <2>1, FS_EmptySet
  <2>3. QED
    BY <1>8, <2>2
<1>11. QED
  BY <1>4, <1>8, <1>9, <1>10

\* What the caddy holds when it was filled from the folder.
Loaded(images, folder) ==
  /\ Fresh(images, folder)
  /\ \A i \in DOMAIN images : /\ images[i].data = card[folder][images[i].file]
                              /\ ~images[i].dirty

LEMMA LoadedNames ==
  ASSUME TypeOK, NEW b \in Browsers, b.disks = <<>>, NEW names \in Seq(Files), Once(names)
  PROVE  Load(b, names) \in Seq(Images) /\ Loaded(Load(b, names), b.cwd)
<1> DEFINE Image(i) == [file |-> names[i], dir |-> b.cwd,
                        data |-> card[b.cwd][names[i]], dirty |-> FALSE]
           images == [i \in DOMAIN names |-> Image(i)]
<1>1. b.cwd \in Folders /\ card \in [Folders -> [Files -> Nat]]
  BY DEF Browsers, TypeOK
<1>2. \A i \in DOMAIN names : names[i] \in Files
  OBVIOUS
<1>3. \A i \in DOMAIN names : Image(i) \in Images
  BY <1>1, <1>2 DEF Images
<1>4. images \in Seq(Images)
  <2> HIDE DEF Image
  <2>1. QED
    BY <1>3
<1>5. Load(b, names) = images
  <2>1. Load(b, names) = <<>> \o images
    BY DEF Load
  <2> HIDE DEF images
  <2>2. QED
    BY <1>4, <2>1
<1>6. Loaded(images, b.cwd)
  BY DEF Loaded, Fresh, Once
<1>7. QED
  BY <1>4, <1>5, <1>6

LEMMA Filled ==
  ASSUME TypeOK, NEW b \in Browsers, b.disks = <<>>, Once(b.selections)
  PROVE  /\ Fill(b) \in Browsers
         /\ Once(Fill(b).selections)
         /\ Fill(b).made = (b.selections # <<>>)
         /\ Fill(b).cwd = b.cwd
         /\ Loaded(Fill(b).disks, b.cwd)
         /\ b.selections = <<>> => Fill(b).disks = <<>>
<1> DEFINE g == Good(b)
           l == Load(b, g)
           m == b.selections # <<>>
<1>1. g \in Seq(Files) /\ Once(g) /\ (b.selections = <<>> => g = <<>>)
  BY GoodNames
<1>2. l \in Seq(Images) /\ Loaded(l, b.cwd)
  <2> HIDE DEF g
  <2>1. QED
    BY <1>1, LoadedNames
<1>3. g = <<>> => l = <<>>
  <2> HIDE DEF g
  <2>1. SUFFICES ASSUME g = <<>> PROVE l = <<>>
    OBVIOUS
  <2>2. [i \in DOMAIN g |-> [file |-> g[i], dir |-> b.cwd,
                        data |-> card[b.cwd][g[i]], dirty |-> FALSE]] = <<>>
    BY <2>1
  <2>3. QED
    BY <2>2 DEF Load
<1>4. Fill(b) = [b EXCEPT !.disks = l, !.selections = g, !.made = m]
  BY DEF Fill
<1>5. m \in BOOLEAN
  OBVIOUS
<1> HIDE DEF g, l, m
<1>6. Fill(b) \in Browsers
  BY <1>1, <1>2, <1>4, <1>5, Zenon DEF Browsers
<1>7. /\ Fill(b).selections = g /\ Fill(b).made = m /\ Fill(b).cwd = b.cwd
      /\ Fill(b).disks = l
  BY <1>4 DEF Browsers
<1>8. QED
  BY <1>1, <1>2, <1>3, <1>6, <1>7 DEF m

LEMMA SelectedOnce ==
  ASSUME NEW b \in Browsers, Once(b.selections), NEW f \in Files
  PROVE  /\ Select(b, f) \in Browsers
         /\ Once(Select(b, f).selections)
         /\ Select(b, f).made = b.made /\ Select(b, f).cwd = b.cwd
         /\ Select(b, f).disks = b.disks
<1> DEFINE s == b.selections
           t == Append(s, f)
<1>1. s \in Seq(Files)
  BY DEF Browsers
<1>2. CASE \E i \in DOMAIN s : s[i] = f
  BY <1>2 DEF Select
<1>3. CASE ~ \E i \in DOMAIN s : s[i] = f
  <2>1. t \in Seq(Files)
    BY <1>1
  <2>2. Once(t)
    <3>1. /\ DOMAIN t = 1 .. Len(s) + 1 /\ Len(s) \in Nat /\ DOMAIN s = 1 .. Len(s)
          /\ t[Len(s) + 1] = f /\ \A i \in 1 .. Len(s) : t[i] = s[i]
      BY <1>1
    <3> HIDE DEF t
    <3>2. SUFFICES ASSUME NEW i \in DOMAIN t, NEW j \in DOMAIN t, t[i] = t[j] PROVE i = j
      BY DEF Once
    <3>3. CASE i \in 1 .. Len(s) /\ j \in 1 .. Len(s)
      BY <3>1, <3>2, <3>3 DEF Once
    <3>4. CASE i = Len(s) + 1 \/ j = Len(s) + 1
      BY <1>3, <3>1, <3>2, <3>4
    <3>5. QED
      BY <3>1, <3>3, <3>4
  <2>3. Select(b, f) = [b EXCEPT !.selections = t]
    BY <1>3 DEF Select
  <2> HIDE DEF t
  <2>4. Select(b, f) \in Browsers
    BY <2>1, <2>3, Zenon DEF Browsers
  <2>5. /\ Select(b, f).selections = t /\ Select(b, f).made = b.made
        /\ Select(b, f).cwd = b.cwd /\ Select(b, f).disks = b.disks
    BY <2>3 DEF Browsers
  <2>6. QED
    BY <2>2, <2>4, <2>5
<1>4. QED
  BY <1>2, <1>3

LEMMA FolderShown ==
  ASSUME NEW b \in Browsers, NEW d \in Folders
  PROVE  /\ Folder(b, d) \in Browsers
         /\ Once(Folder(b, d).selections)
         /\ Folder(b, d).made = b.made /\ Folder(b, d).cwd = d
         /\ Folder(b, d).disks = b.disks
<1>1. Folder(b, d) \in Browsers
  <2> DEFINE none == <<>>
  <2>1. none \in Seq(Files)
    OBVIOUS
  <2>2. Folder(b, d) = [b EXCEPT !.cwd = d, !.selections = none]
    BY DEF Folder
  <2> HIDE DEF none
  <2>3. QED
    BY <2>1, <2>2, Zenon DEF Browsers
<1>2. /\ Folder(b, d).made = b.made /\ Folder(b, d).cwd = d
      /\ Folder(b, d).disks = b.disks /\ Folder(b, d).selections = <<>>
  BY DEF Folder, Browsers
<1>3. QED
  BY <1>1, <1>2 DEF Once

LEMMA Mounted ==
  ASSUME TypeOK, NEW b \in Browsers, b.disks = <<>>, Once(b.selections), NEW reason
  PROVE  LET x == AutoMounted(b, reason)
         IN  /\ x \in Browsers
             /\ Once(x.selections)
             /\ Loaded(x.disks, x.cwd)
             /\ x.disks # <<>> => AutoMount # NoFile /\ x.made
<1>1. CASE AutoMount = NoFile \/ reason \in {"EXIT_CD", "EXIT_KEYBOARD"}
  BY <1>1 DEF AutoMounted, Loaded, Fresh
<1>2. CASE ~(AutoMount = NoFile \/ reason \in {"EXIT_CD", "EXIT_KEYBOARD"})
  <2> DEFINE h == Folder(b, Home)
             y == [h EXCEPT !.selections = <<AutoMount>>]
  <2>1. h \in Browsers /\ h.disks = <<>>
    BY FolderShown DEF Folders
  <2> HIDE DEF h
  <2>2. AutoMount \in Files
    BY <1>2, EmulatorAssumption
  <2> DEFINE one == <<AutoMount>>
  <2>3. one \in Seq(Files) /\ Once(one) /\ one # <<>>
    BY <2>2 DEF Once
  <2> HIDE DEF one
  <2>4. y = [h EXCEPT !.selections = one]
    BY DEF one
  <2> HIDE DEF y
  <2>5. y \in Browsers
    BY <2>1, <2>3, <2>4, Zenon DEF Browsers
  <2>6. y.selections = one /\ y.disks = <<>>
    BY <2>1, <2>4 DEF Browsers
  <2>7. AutoMounted(b, reason) = Fill(y)
    BY <1>2, Zenon DEF AutoMounted, y, h
  <2>8. QED
    BY <1>2, <2>3, <2>5, <2>6, <2>7, Filled
<1>3. QED
  BY <1>1, <1>2

LEMMA BrowserTyped ==
  ASSUME TypeOK
  PROVE  /\ Browser \in Browsers
         /\ Browser.selections = selections /\ Browser.made = selectionsMade
         /\ Browser.disks = disks /\ Browser.cwd = cwd
<1>1. /\ selections \in Seq(Files) /\ selectionsMade \in BOOLEAN
      /\ disks \in Seq(Images) /\ cwd \in Folders
  BY DEF TypeOK
<1>2. Browser \in Browsers
  BY <1>1, Zenon DEF Browser, Browsers
<1>3. QED
  BY <1>2 DEF Browser

\* What a browser has become, if the caddy was empty.
Becomes(b) == /\ b \in Browsers /\ Once(b.selections) /\ Loaded(b.disks, b.cwd)
              /\ b.disks # <<>> => b.made

LEMMA HandledAsk ==
  ASSUME TypeOK, Once(selections), disks = <<>>, NEW ask \in Asks, NEW f \in Files,
         Handled(ask, f)
  PROVE  \E b : Browsed(b) /\ Becomes(b)
<1> DEFINE b0 == Browser
<1>1. /\ b0 \in Browsers /\ Once(b0.selections) /\ b0.disks = <<>> /\ b0.made = selectionsMade
      /\ b0.selections = selections /\ b0.cwd = cwd
  BY BrowserTyped
<1> HIDE DEF b0
<1>2. \A d : Loaded(<<>>, d)
  BY DEF Loaded, Fresh
<1>3. CASE ask = "select" /\ Browsed(Fill(Select(b0, f)))
  <2> DEFINE s == Select(b0, f)
  <2>1. s \in Browsers /\ Once(s.selections) /\ s.disks = <<>>
    BY <1>1, SelectedOnce
  <2> HIDE DEF s
  <2>2. Becomes(Fill(s))
    BY <2>1, Filled DEF Becomes
  <2>3. QED
    BY <1>3, <2>2 DEF s
<1>4. CASE ask = "insert" /\ Browsed(Select(b0, f))
  <2>1. Becomes(Select(b0, f))
    BY <1>1, <1>2, SelectedOnce DEF Becomes
  <2>2. QED
    BY <1>4, <2>1
<1>5. CASE ask = "done" /\ Browsed(Fill(b0))
  <2>1. Becomes(Fill(b0))
    BY <1>1, Filled DEF Becomes
  <2>2. QED
    BY <1>5, <2>1
<1>6. CASE ask = "exit" /\ Browsed([b0 EXCEPT !.made = FALSE, !.selections = <<>>])
  <2> DEFINE none == <<>>
             b == [b0 EXCEPT !.made = FALSE, !.selections = none]
  <2>1. none \in Seq(Files) /\ Once(none)
    BY DEF Once
  <2> HIDE DEF none
  <2>2. b \in Browsers
    BY <1>1, <2>1, Zenon DEF Browsers
  <2>3. b.disks = <<>> /\ b.selections = none
    BY <1>1 DEF Browsers
  <2>4. Becomes(b)
    BY <1>2, <2>1, <2>2, <2>3 DEF Becomes
  <2>5. QED
    BY <1>6, <2>4 DEF none
<1>7. CASE ask = "folder" /\ \E d \in Folders : Browsed(Folder(b0, d))
  <2>1. PICK d \in Folders : Browsed(Folder(b0, d))
    BY <1>7
  <2>2. Becomes(Folder(b0, d))
    BY <1>1, <1>2, FolderShown DEF Becomes
  <2>3. QED
    BY <2>1, <2>2
<1>8. CASE ask = "autoload" /\ Browsed(AutoMounted(b0, "EXIT_RESET"))
  <2>1. Becomes(AutoMounted(b0, "EXIT_RESET"))
    BY <1>1, Mounted DEF Becomes
  <2>2. QED
    BY <1>8, <2>1
<1>9. CASE ask = "none" /\ Browsed(b0)
  <2>1. Becomes(b0)
    BY <1>1, <1>2 DEF Becomes
  <2>2. QED
    BY <1>9, <2>1
<1>10. QED
  BY <1>3, <1>4, <1>5, <1>6, <1>7, <1>8, <1>9 DEF Handled, b0

-----------------------------------------------------------------------------
(* What keeps the invariants: the same images, a caddy that was just filled, *)
(* the start of emulation.                                                   *)

LEMMA SameImages ==
  ASSUME Accounted, UNCHANGED <<disks, cwd, card, meant, gone>>
  PROVE  Accounted'
BY DEF Accounted, Fresh, Unsaved

LEMMA JustFilled ==
  ASSUME TypeOK, Accounted, disks = <<>>, UNCHANGED <<card, meant, gone>>,
         disks' \in Seq(Images), cwd' \in Folders, Loaded(disks', cwd')
  PROVE  Accounted'
<1>1. \A d \in Folders, f \in Files : card[d][f] = meant[d][f]
  BY DEF Accounted, Unsaved
<1>2. \A i \in DOMAIN disks' : disks'[i].file \in Files
  <2>1. \A i \in DOMAIN disks' : disks'[i] \in Images
    OBVIOUS
  <2>2. QED
    BY <2>1 DEF Images
<1>3. Fresh(disks', cwd')
  BY DEF Loaded
<1>4. \A i \in DOMAIN disks' : disks'[i].data = meant[disks'[i].dir][disks'[i].file]
  BY <1>1, <1>2 DEF Loaded, Fresh
<1>5. QED
  BY <1>1, <1>3, <1>4 DEF Accounted

LEMMA Begun ==
  ASSUME TypeOK, DriveMatchesCaddy, NEW asked \in BOOLEAN, BeginEmulating(asked),
         disks = <<>> \/ disks' = disks, disks' \in Seq(Images)
  PROVE  /\ at' \in {"display", "clear", "browse"} /\ emulating' \in Modes
         /\ selectedIndex' \in Nat /\ drive' \in Nat
         /\ DriveMatchesCaddy'
         /\ at' = "clear" => disks' = <<>>
         /\ at' = "browse" => ~asked
<1>1. Len(disks') \in Nat /\ (disks' # <<>> => Len(disks') > 0)
  OBVIOUS
<1>2. CASE asked /\ disks' # <<>>
  BY <1>1, <1>2 DEF BeginEmulating, DriveMatchesCaddy, Modes
<1>3. CASE ~(asked /\ disks' # <<>>)
  <2>1. selectedIndex' \in Nat
    BY <1>1, <1>3 DEF BeginEmulating, TypeOK
  <2>2. at' \in {"clear", "browse"} /\ emulating' = emulating /\ drive' = drive
    BY <1>3 DEF BeginEmulating
  <2>3. QED
    BY <1>3, <2>1, <2>2 DEF BeginEmulating, TypeOK, DriveMatchesCaddy
<1>4. QED
  BY <1>2, <1>3

\* A pass of the browse loop: the browser has become b, and emulation begins.
LEMMA Passed ==
  ASSUME Inv, NEW b, Browsed(b), Becomes(b), NEW asked \in BOOLEAN, BeginEmulating(asked),
         disks = <<>>, asked = selectionsMade' \/ AutoMount # NoFile \/ b.disks = <<>>,
         ~reset \/ AutoMount = NoFile, oldCaddyIndex' \in Nat, exitReason' \in Reasons,
         {enterPrev', buttonSelect'} \subseteq BOOLEAN,
         lock' \in {"free", "core0", "core1"}, gone = 0,
         UNCHANGED <<gone, lineVars, swapRequest, resetCount, screenVars, card, meant>>
  PROVE  Inv'
<1>1. /\ selections' \in Seq(Files) /\ selectionsMade' \in BOOLEAN
      /\ disks' \in Seq(Images) /\ cwd' \in Folders
      /\ Once(selections') /\ Loaded(disks', cwd')
      /\ disks' # <<>> => selectionsMade'
  BY DEF Browsed, Becomes, Browsers
<1>2. TypeOK /\ DriveMatchesCaddy /\ CaddyInPlace
  BY DEF Inv, DriveInv
<1>3. /\ at' \in {"display", "clear", "browse"} /\ emulating' \in Modes
      /\ selectedIndex' \in Nat /\ drive' \in Nat
      /\ DriveMatchesCaddy'
      /\ at' = "clear" => disks' = <<>>
      /\ at' = "browse" => ~asked
  BY <1>1, <1>2, Begun
<1>4. TypeOK'
  BY <1>1, <1>2, <1>3 DEF TypeOK, Places, lineVars, screenVars
<1>5. CaddyInPlace'
  <2>1. at' = "browse" /\ disks' # <<>> => AutoMount # NoFile /\ selectionsMade' /\ ~reset'
    BY <1>1, <1>3 DEF lineVars, Browsed
  <2>2. Len(disks') \in Nat /\ gone' = 0
    BY <1>1
  <2>3. QED
    BY <1>3, <2>1, <2>2 DEF CaddyInPlace, Empties
<1>6. ~Uploads => Accounted'
  BY <1>1, <1>2, JustFilled DEF Inv
<1>7. QED
  BY <1>1, <1>3, <1>4, <1>5, <1>6 DEF Inv, DriveInv

\* The pass that runs the image which was mounted by itself.
LEMMA MountedRuns ==
  ASSUME Inv, at = "browse", disks # <<>>, Browsed(Browser), BeginEmulating(selectionsMade'),
         oldCaddyIndex' \in Nat, {enterPrev', buttonSelect'} \subseteq BOOLEAN,
         UNCHANGED <<exitReason, gone, lineVars, swapRequest, resetCount, lock, screenVars,
                     card, meant>>
  PROVE  Inv'
<1>1. TypeOK /\ DriveMatchesCaddy /\ CaddyInPlace /\ Once(selections)
  BY DEF Inv, DriveInv
<1>2. /\ selections' = selections /\ selectionsMade' = selectionsMade
      /\ disks' = disks /\ cwd' = cwd
  BY <1>1, BrowserTyped DEF Browsed
<1>3. selectionsMade /\ disks' \in Seq(Images) /\ disks \in Seq(Images)
  BY <1>1, <1>2 DEF CaddyInPlace, TypeOK
<1>4. /\ at' = "display" /\ emulating' = "EMULATING_1541"
      /\ selectedIndex' = 0 /\ drive' = 0
  BY <1>2, <1>3 DEF BeginEmulating
<1>5. TypeOK'
  BY <1>1, <1>2, <1>4 DEF TypeOK, Places, Modes, lineVars, screenVars
<1>6. CaddyInPlace'
  BY <1>1, <1>2, <1>4 DEF CaddyInPlace, Empties
<1>7. Len(disks) > 0
  BY <1>3
<1>8. DriveMatchesCaddy'
  BY <1>2, <1>4, <1>7 DEF DriveMatchesCaddy
<1>9. ~Uploads => Accounted'
  BY <1>2, SameImages DEF Inv
<1>10. QED
  BY <1>1, <1>2, <1>5, <1>6, <1>8, <1>9 DEF Inv, DriveInv

-----------------------------------------------------------------------------
(* Core 1 browses *)

LEMMA SetupKeeps == ASSUME Inv, Setup PROVE Inv'
<1> DEFINE b0 == [Browser EXCEPT !.selections = <<>>, !.made = FALSE]
           b == AutoMounted(b0, exitReason)
<1>1. TypeOK /\ CaddyInPlace
  BY DEF Inv, DriveInv
<1>2. disks = <<>> /\ gone = 0 /\ (~reset \/ AutoMount = NoFile)
  BY <1>1 DEF Setup, CaddyInPlace, Empties
<1>3. b0 \in Browsers /\ b0.disks = <<>> /\ Once(b0.selections)
  <2> DEFINE none == <<>>
             c == [Browser EXCEPT !.selections = none, !.made = FALSE]
  <2>1. none \in Seq(Files) /\ Once(none)
    BY DEF Once
  <2>2. b0 = c
    OBVIOUS
  <2> HIDE DEF none, b0
  <2>3. c \in Browsers
    BY <1>1, <2>1, BrowserTyped, Zenon DEF Browsers
  <2>4. c.disks = <<>> /\ c.selections = none
    BY <1>1, <1>2, BrowserTyped DEF Browsers
  <2>5. QED
    BY <2>1, <2>2, <2>3, <2>4
<1> HIDE DEF b0
<1>4. Becomes(b) /\ (b.disks = <<>> \/ AutoMount # NoFile)
  BY <1>1, <1>3, Mounted DEF Becomes
<1>5. Browsed(b)
  BY DEF Setup, b0
<1> HIDE DEF b
<1>6. BeginEmulating(FALSE) /\ exitReason' \in Reasons /\ lock' = "free"
  BY DEF Setup, Reasons
<1>7. /\ oldCaddyIndex' \in Nat /\ {enterPrev', buttonSelect'} \subseteq BOOLEAN
  BY <1>1 DEF Setup, TypeOK
<1>8. UNCHANGED <<gone, lineVars, swapRequest, resetCount, screenVars, card, meant>>
  BY DEF Setup
<1>9. QED
  BY <1>2, <1>4, <1>5, <1>6, <1>7, <1>8, Passed

LEMMA BrowseAgainKeeps == ASSUME Inv, BrowseAgain PROVE Inv'
<1> DEFINE b0 == IF ToRoot THEN Folder(Browser, Home) ELSE Browser
           b == AutoMounted(b0, "EXIT_UNKNOWN")
<1>1. TypeOK /\ CaddyInPlace /\ Once(selections)
  BY DEF Inv, DriveInv
<1>2. disks = <<>> /\ gone = 0 /\ ~reset
  BY <1>1 DEF BrowseAgain, CaddyInPlace, Empties
<1>3. b0 \in Browsers /\ b0.disks = <<>> /\ Once(b0.selections)
  BY <1>1, <1>2, BrowserTyped, FolderShown DEF Folders
<1> HIDE DEF b0
<1>4. Becomes(b) /\ (b.disks = <<>> \/ AutoMount # NoFile)
  BY <1>1, <1>3, Mounted DEF Becomes
<1>5. Browsed(b)
  BY DEF BrowseAgain, b0
<1> HIDE DEF b
<1>6. BeginEmulating(FALSE) /\ exitReason' \in Reasons
  BY <1>1 DEF BrowseAgain, TypeOK
<1>7. /\ oldCaddyIndex' \in Nat /\ {enterPrev', buttonSelect'} \subseteq BOOLEAN
      /\ lock' \in {"free", "core0", "core1"}
  BY <1>1 DEF BrowseAgain, TypeOK, inputVars
<1>8. UNCHANGED <<gone, lineVars, swapRequest, resetCount, screenVars, card, meant>>
  BY DEF BrowseAgain, inputVars
<1>9. QED
  BY <1>2, <1>4, <1>5, <1>6, <1>7, <1>8, Passed

\* The user asks something of the browser, and nothing while an image mounts by itself.
LEMMA AskedKeeps ==
  ASSUME Inv, at = "browse", ~reset, NEW f \in Files, NEW ask \in Asks, Handled(ask, f),
         BetweenMountAndRun => ask = "none",
         BeginEmulating(selectionsMade'), oldCaddyIndex' \in Nat,
         {enterPrev', buttonSelect'} \subseteq BOOLEAN,
         UNCHANGED <<exitReason, gone, lineVars, swapRequest, resetCount, lock, screenVars,
                     card, meant>>
  PROVE  Inv'
<1>1. TypeOK /\ CaddyInPlace /\ Once(selections)
  BY DEF Inv, DriveInv
<1>2. CASE disks = <<>>
  <2>1. PICK b : Browsed(b) /\ Becomes(b)
    BY <1>1, <1>2, HandledAsk
  <2>2. gone = 0 /\ exitReason' \in Reasons /\ lock' \in {"free", "core0", "core1"}
    BY <1>1 DEF CaddyInPlace, TypeOK
  <2>3. selectionsMade' \in BOOLEAN
    BY <2>1 DEF Browsed, Becomes, Browsers
  <2>4. QED
    BY <1>2, <2>1, <2>2, <2>3, Passed
<1>3. CASE disks # <<>>
  <2>1. BetweenMountAndRun
    BY <1>1, <1>3 DEF BetweenMountAndRun, CaddyInPlace
  <2>2. Browsed(Browser)
    BY <2>1 DEF Handled
  <2>3. QED
    BY <1>3, <2>2, MountedRuns
<1>4. QED
  BY <1>2, <1>3

LEMMA BrowseKeyKeeps ==
  ASSUME Inv, NEW f \in Files, NEW ask \in Asks, BrowseKey(ask, f)
  PROVE  Inv'
<1>1. TypeOK
  BY DEF Inv, DriveInv
<1>2. /\ oldCaddyIndex' \in Nat /\ {enterPrev', buttonSelect'} \subseteq BOOLEAN
  BY <1>1 DEF BrowseKey, TypeOK, inputVars
<1>3. UNCHANGED <<exitReason, gone, lineVars, swapRequest, resetCount, lock, screenVars,
                  card, meant>>
  BY DEF BrowseKey, inputVars
<1>4. QED
  BY <1>2, <1>3, AskedKeeps DEF BrowseKey

LEMMA BrowseButtonsKeeps ==
  ASSUME Inv, NEW f \in Files, BrowseButtons(f)
  PROVE  Inv'
<1>1. TypeOK
  BY DEF Inv, DriveInv
<1>2. enter \in BOOLEAN /\ enterPrev \in BOOLEAN
  BY <1>1 DEF TypeOK
<1>3. Released \in BOOLEAN
  BY <1>2 DEF Released
<1>4. /\ oldCaddyIndex' \in Nat /\ {enterPrev', buttonSelect'} \subseteq BOOLEAN
  BY <1>1, <1>2, <1>3 DEF BrowseButtons, TypeOK
<1> DEFINE ask == IF Released THEN "select" ELSE "none"
<1>5. ask \in Asks /\ (BetweenMountAndRun => ask = "none")
  BY DEF Asks, BrowseButtons
<1>6. Handled(ask, f)
  BY DEF BrowseButtons
<1> HIDE DEF ask
<1>7. QED
  BY <1>4, <1>5, <1>6, AskedKeeps DEF BrowseButtons

LEMMA BrowseImageKeeps ==
  ASSUME Inv, NEW f \in Files, BrowseImage(f)
  PROVE  Inv'
<1> DEFINE one == <<f>>
           ds == IF Readable(Browser, f) THEN Load(Browser, one) ELSE disks
           b == [Browser EXCEPT !.disks = ds]
           asked == Readable(Browser, f)
<1>1. TypeOK /\ CaddyInPlace /\ Once(selections)
  BY DEF Inv, DriveInv
<1>2. /\ Browser \in Browsers
      /\ Browser.selections = selections /\ Browser.made = selectionsMade
      /\ Browser.disks = disks /\ Browser.cwd = cwd
  BY <1>1, BrowserTyped
<1>3. disks = <<>> /\ gone = 0 /\ ~reset
  BY <1>1 DEF BrowseImage, CaddyInPlace, BetweenMountAndRun
<1>4. one \in Seq(Files) /\ Once(one)
  BY DEF Once
<1> HIDE DEF one
<1>5. ds \in Seq(Images) /\ Loaded(ds, cwd)
  <2>1. Loaded(<<>>, cwd) /\ disks \in Seq(Images)
    BY <1>1 DEF Loaded, Fresh, TypeOK
  <2>2. Load(Browser, one) \in Seq(Images) /\ Loaded(Load(Browser, one), cwd)
    BY <1>1, <1>2, <1>3, <1>4, LoadedNames
  <2>3. QED
    BY <1>3, <2>1, <2>2
<1>6. disks' = ds
  BY DEF BrowseImage, one
<1>7. BeginEmulating(asked) /\ asked \in BOOLEAN
  BY DEF BrowseImage, Readable
<1>8. ~asked => ds = <<>>
  BY <1>3
<1> HIDE DEF ds, asked
<1>9. DriveMatchesCaddy
  BY DEF Inv, DriveInv
<1>10. /\ at' \in {"display", "clear", "browse"} /\ emulating' \in Modes
       /\ selectedIndex' \in Nat /\ drive' \in Nat
       /\ DriveMatchesCaddy'
       /\ at' = "clear" => disks' = <<>>
       /\ at' = "browse" => ~asked
  BY <1>1, <1>3, <1>5, <1>6, <1>7, <1>9, Begun
<1>11. /\ UNCHANGED <<exitReason, gone, browserVars, lineVars, inputVars, lock, screenVars,
                 cwd, card, meant>>
       /\ oldCaddyIndex' = 0
  BY DEF BrowseImage
<1>12. TypeOK'
  BY <1>1, <1>5, <1>6, <1>10, <1>11 
     DEF TypeOK, Places, lineVars, screenVars, inputVars, browserVars
<1>13. CaddyInPlace'
  <2>1. Len(disks') \in Nat /\ gone' = 0 /\ (at' = "browse" => disks' = <<>>)
    BY <1>3, <1>5, <1>6, <1>8, <1>10, <1>11
  <2>2. QED
    BY <1>10, <2>1 DEF CaddyInPlace, Empties
<1>14. ~Uploads => Accounted'
  <2>1. cwd' \in Folders
    BY <1>12 DEF TypeOK
  <2>2. QED
    BY <1>1, <1>3, <1>5, <1>6, <1>11, <2>1, JustFilled DEF Inv
<1>15. Once(selections')
  BY <1>1, <1>11 DEF browserVars
<1>16. QED
  BY <1>10, <1>12, <1>13, <1>14, <1>15 DEF Inv, DriveInv

\* Steps that leave the images, the browser and the drive as they are.
LEMMA OtherSteps ==
  ASSUME Inv,
         \/ BeginBrowse \/ BrowseReset \/ ClearButtons \/ Display \/ EndDisplay
         \/ BeginCycles \/ BeginEmpty \/ BeginTrack \/ EndTrack \/ CheckCaddy
         \/ ShowOld \/ ShowNew \/ ResetLine \/ EnterButton
  PROVE  Inv'
<1>1. TypeOK /\ CaddyInPlace /\ DriveMatchesCaddy /\ Once(selections)
  BY DEF Inv, DriveInv
<1> USE DEF lineVars, caddyVars, browserVars, inputVars, screenVars, Core0Unchanged
<1>2. UNCHANGED <<disks, gone, drive, selections, selectionsMade, cwd, card, meant,
                  selectedIndex, emulating>>
  BY DEF BeginBrowse, BrowseReset, ClearButtons, Display, EndDisplay, BeginCycles,
         BeginEmpty, BeginTrack, EndTrack, CheckCaddy, ShowOld, ShowNew, ResetLine,
         EnterButton
<1>3. /\ {enter', enterPrev', buttonSelect', reset'} \subseteq BOOLEAN
      /\ swapRequest' \subseteq Nat /\ resetCount' \in 0 .. ResetLimit + 1
      /\ at' \in Places /\ exitReason' \in Reasons
  <2>1. {enter, enterPrev, buttonSelect, reset} \subseteq BOOLEAN
    BY <1>1 DEF TypeOK
  <2>2. {~enter, ~reset} \subseteq BOOLEAN
    OBVIOUS
  <2>3. {enter', enterPrev', buttonSelect', reset'} \subseteq BOOLEAN
    BY <2>1, <2>2 DEF BeginBrowse, BrowseReset, ClearButtons, Display, EndDisplay,
         BeginCycles, BeginEmpty, BeginTrack, EndTrack, CheckCaddy, ShowOld, ShowNew,
         ResetLine, EnterButton
  <2>4. swapRequest' \subseteq Nat /\ resetCount' \in 0 .. ResetLimit + 1
    <3>1. UNCHANGED <<swapRequest, resetCount>> \/ (swapRequest' = {} /\ resetCount' = 0)
      BY DEF BeginBrowse, BrowseReset, ClearButtons, Display,
         EndDisplay, BeginCycles, BeginEmpty, BeginTrack, EndTrack, CheckCaddy, ShowOld,
         ShowNew, ResetLine, EnterButton
    <3>2. swapRequest \subseteq Nat /\ resetCount \in 0 .. ResetLimit + 1 /\ ResetLimit \in Nat
      BY <1>1, EmulatorAssumption DEF TypeOK
    <3>3. 0 \in 0 .. ResetLimit + 1 /\ {} \subseteq Nat
      BY <3>2
    <3>4. CASE UNCHANGED <<swapRequest, resetCount>>
      BY <3>2, <3>4
    <3>5. CASE swapRequest' = {} /\ resetCount' = 0
      BY <3>3, <3>5
    <3>6. QED
      BY <3>1, <3>4, <3>5
  <2>5. at' \in Places /\ exitReason' \in Reasons
    BY <1>1 DEF BeginBrowse, BrowseReset, ClearButtons, Display, EndDisplay, BeginCycles,
         BeginEmpty, BeginTrack, EndTrack, CheckCaddy, ShowOld, ShowNew, ResetLine,
         EnterButton, TypeOK, Places, Reasons
  <2>6. QED
    BY <2>3, <2>4, <2>5
<1>4. /\ lock' \in {"free", "core0", "core1"} /\ caddyIndex' \in Nat
      /\ screen' \in {"status", "drawing", "check", "old", "new", "net"}
      /\ oldCaddyIndex' \in Nat
  BY <1>1 DEF BeginBrowse, BrowseReset, ClearButtons, Display, EndDisplay, BeginCycles,
         BeginEmpty, BeginTrack, EndTrack, CheckCaddy, ShowOld, ShowNew, ResetLine,
         EnterButton, TypeOK, Acquire, Release, Shown
<1>5. TypeOK'
  BY <1>1, <1>2, <1>3, <1>4 DEF TypeOK
<1>6. /\ at' \in Empties => at \in Empties \/ (at = "browse" /\ reset)
      /\ at' = "browse" => at \in {"browse", "clear"}
      /\ at' = "setup" => at = "setup" \/ ~reset'
      /\ at = "empty" => at' = "empty"
      /\ at' \in {"display", "shown", "start", "run", "exited"} =>
           at \in {"display", "shown", "start", "run", "exited"}
  BY DEF BeginBrowse, BrowseReset, ClearButtons, Display, EndDisplay, BeginCycles,
         BeginEmpty, BeginTrack, EndTrack, CheckCaddy, ShowOld, ShowNew, ResetLine,
         EnterButton, Empties
<1>7. /\ at = "setup" /\ at' = "setup" /\ AutoMount # NoFile => (reset' => reset)
      /\ at = "browse" /\ at' = "browse" /\ AutoMount # NoFile /\ selectionsMade
           /\ disks # <<>> => (reset' => reset)
  <2>1. ResetLine => (BetweenMountAndRun => reset)
    BY DEF ResetLine
  <2>2. ~ResetLine => (reset' = reset)
    BY DEF BeginBrowse, BrowseReset, ClearButtons, Display, EndDisplay, BeginCycles,
         BeginEmpty, BeginTrack, EndTrack, CheckCaddy, ShowOld, ShowNew, EnterButton
  <2>3. QED
    BY <2>1, <2>2 DEF BetweenMountAndRun
<1>8. CaddyInPlace'
  BY <1>1, <1>2, <1>6, <1>7 DEF CaddyInPlace, Empties
<1>9. DriveMatchesCaddy'
  BY <1>1, <1>2, <1>6 DEF DriveMatchesCaddy
<1>10. ~Uploads => Accounted'
  BY <1>2, SameImages DEF Inv
<1>11. QED
  BY <1>1, <1>2, <1>5, <1>8, <1>9, <1>10 DEF Inv, DriveInv

\* An upload moves the current folder.  (Nothing else of core 0 does.)
LEMMA NetUpdateKeeps == ASSUME Inv, NetUpdate PROVE Inv'
<1>1. TypeOK /\ CaddyInPlace /\ DriveMatchesCaddy /\ Once(selections)
  BY DEF Inv, DriveInv
<1> USE DEF lineVars, browserVars, inputVars, Core0Unchanged, NetUpdate
<1>2. TypeOK'
  BY <1>1 DEF TypeOK
<1>3. CaddyInPlace' /\ DriveMatchesCaddy'
  BY <1>1 DEF CaddyInPlace, DriveMatchesCaddy
<1>4. ~Uploads => Accounted'
  BY SameImages DEF Inv
<1>5. QED
  BY <1>1, <1>2, <1>3, <1>4 DEF Inv, DriveInv

-----------------------------------------------------------------------------
(* Core 1 emulates *)

LEMMA WriteKeeps == ASSUME Inv, Write PROVE Inv'
<1> DEFINE i == drive + 1
           image == disks[i]
           written == [image EXCEPT !.data = @ + 1, !.dirty = TRUE]
           ds == [disks EXCEPT ![i] = written]
<1>1. TypeOK /\ CaddyInPlace /\ DriveMatchesCaddy /\ Once(selections)
  BY DEF Inv, DriveInv
<1>2. /\ disks \in Seq(Images) /\ drive \in Nat /\ drive < Len(disks)
      /\ meant \in [Folders -> [Files -> Nat]]
  BY <1>1 DEF Write, TypeOK
<1>3. i \in DOMAIN disks /\ image \in Images
  BY <1>2
<1>4. /\ written \in Images
      /\ written.dir = image.dir /\ written.file = image.file
      /\ written.data = image.data + 1 /\ written.dirty
  <2>1. image.data \in Nat
    BY <1>3 DEF Images
  <2> DEFINE more == image.data + 1
             w == [image EXCEPT !.data = more, !.dirty = TRUE]
  <2>2. more \in Nat
    BY <2>1
  <2>3. written = w
    OBVIOUS
  <2> HIDE DEF image
  <2>4. w.dir = image.dir /\ w.file = image.file /\ w.data = more /\ w.dirty
    BY <1>3 DEF Images
  <2> HIDE DEF more
  <2>5. w \in Images
    BY <1>3, <2>2, Zenon DEF Images
  <2> HIDE DEF w, written
  <2>6. QED
    BY <2>3, <2>4, <2>5 DEF more
<1>5. disks' = ds
  <2>1. disks' = [disks EXCEPT ![i].data = @ + 1, ![i].dirty = TRUE]
    BY DEF Write
  <2>2. QED
    BY <1>2, <1>3, <2>1
<1>6. meant' = [meant EXCEPT ![image.dir][image.file] = @ + 1]
  BY DEF Write
<1>7. /\ UNCHANGED <<at, emulating, exitReason, selectedIndex, oldCaddyIndex, gone, drive,
                 browserVars, lineVars, inputVars, lock, screenVars, cwd, card>>
      /\ at = "run"
  BY DEF Write
<1>8. image.dir \in Folders /\ image.file \in Files
  BY <1>3 DEF Images
<1> HIDE DEF written, image
<1>9. /\ disks' \in Seq(Images) /\ Len(disks') = Len(disks) /\ DOMAIN disks' = DOMAIN disks
      /\ disks'[i] = written /\ \A j \in DOMAIN disks : j # i => disks'[j] = disks[j]
  BY <1>2, <1>3, <1>4, <1>5
<1>10. meant' \in [Folders -> [Files -> Nat]]
  BY <1>2, <1>6, <1>8
<1>11. TypeOK'
  BY <1>1, <1>7, <1>9, <1>10 
     DEF TypeOK, browserVars, lineVars, inputVars, screenVars
<1>12. CaddyInPlace'
  BY <1>1, <1>7, <1>9 DEF CaddyInPlace, Empties
<1>13. DriveMatchesCaddy'
  BY <1>1, <1>7, <1>9 DEF DriveMatchesCaddy
<1>14. ~Uploads => Accounted'
  <2> SUFFICES ASSUME Accounted PROVE Accounted'
    BY DEF Inv
  <2>1. /\ \A j \in DOMAIN disks : /\ disks'[j].dir = disks[j].dir
                                   /\ disks'[j].file = disks[j].file
                                   /\ disks[j].dir \in Folders /\ disks[j].file \in Files
                                   /\ disks[j].dirty => disks'[j].dirty
    <3>1. \A j \in DOMAIN disks : disks[j] \in Images
      BY <1>2
    <3>2. QED
      BY <1>4, <1>9, <3>1 DEF Images, image
  <2>2. Fresh(disks', cwd')
    BY <1>7, <1>9, <2>1 DEF Accounted, Fresh
  <2>3. \A d \in Folders, f \in Files :
          meant'[d][f] = IF d = image.dir /\ f = image.file THEN meant[d][f] + 1
                         ELSE meant[d][f]
    BY <1>2, <1>6, <1>8
  <2>4. \A j \in DOMAIN disks' : disks'[j].data = meant'[disks'[j].dir][disks'[j].file]
    <3> SUFFICES ASSUME NEW j \in DOMAIN disks
                 PROVE  disks'[j].data = meant'[disks[j].dir][disks[j].file]
      BY <1>9, <2>1
    <3>0. disks[j].data = meant[disks[j].dir][disks[j].file]
      BY DEF Accounted
    <3>1. CASE j = i
      BY <1>4, <1>9, <2>1, <2>3, <3>0, <3>1 DEF image
    <3>2. CASE j # i
      <4>1. disks[j].file # image.file
        BY <1>3, <3>2 DEF Accounted, Fresh, image
      <4>2. QED
        BY <1>9, <2>1, <2>3, <3>0, <3>2, <4>1
    <3>3. QED
      BY <3>1, <3>2
  <2>5. gone = 0
    BY <1>1, <1>7 DEF CaddyInPlace
  <2>6. ASSUME NEW d \in Folders, NEW f \in Files
        PROVE  card'[d][f] = meant'[d][f] \/ Unsaved(d, f)'
    <3>1. CASE d = image.dir /\ f = image.file
      <4>1. i > gone' /\ disks'[i].dirty /\ disks'[i].dir = d /\ disks'[i].file = f
        BY <1>2, <1>4, <1>7, <1>9, <2>5, <3>1
      <4>2. QED
        BY <1>3, <1>9, <4>1 DEF Unsaved
    <3>2. CASE ~(d = image.dir /\ f = image.file)
      <4>1. card'[d][f] = card[d][f] /\ meant'[d][f] = meant[d][f]
        BY <1>7, <2>3, <3>2
      <4>2. Unsaved(d, f) => Unsaved(d, f)'
        BY <1>7, <1>9, <2>1 DEF Unsaved
      <4>3. QED
        BY <4>1, <4>2 DEF Accounted
    <3>3. QED
      BY <3>1, <3>2
  <2>7. QED
    BY <2>2, <2>4, <2>6 DEF Accounted
<1>15. Once(selections')
  BY <1>1, <1>7 DEF browserVars
<1>16. QED
  BY <1>11, <1>12, <1>13, <1>14, <1>15 DEF Inv, DriveInv

\* A set of numbers has a least one.
LEMMA Least ==
  ASSUME NEW S, S \subseteq Nat, S # {}
  PROVE  \E i \in S : \A k \in S : i <= k
<1>1. \E x \in S : \A y \in S : ~(<<y, x>> \in OpToRel(<, Nat))
  BY NatLessThanWellFounded, WFMin
<1>2. \A x, y \in S : ~(<<y, x>> \in OpToRel(<, Nat)) => x <= y
  BY DEF OpToRel
<1>3. QED
  BY <1>1, <1>2

\* The swaps of a cycle choose an image the caddy has, for the caddy and the drive.
LEMMA SwappedInCaddy ==
  ASSUME TypeOK, drive = selectedIndex, drive < Len(disks), NEW next, NEW prev,
         NEW wanted \in SUBSET Nat, NEW last, Swapped(next, prev, wanted, last)
  PROVE  /\ drive' = selectedIndex' /\ drive' < Len(disks) /\ drive' \in Nat
         /\ swapRequest' \subseteq Nat
<1> DEFINE n == Len(disks)
           pick == {i \in wanted : i < n /\ i # selectedIndex}
           left == IF last THEN {} ELSE wanted
           low == CHOOSE i \in pick : \A k \in pick : i <= k
<1>1. n \in Nat /\ selectedIndex \in Nat /\ drive \in Nat
  BY DEF TypeOK
<1>2. pick # {} => low \in pick
  <2> HIDE DEF n
  <2>1. pick \subseteq Nat
    OBVIOUS
  <2> HIDE DEF pick
  <2>2. QED
    BY <2>1, Least
<1>3. pick # {} => low \in Nat /\ low < n
  <2> HIDE DEF low, n
  <2>1. QED
    BY <1>2
<1>4. left \subseteq Nat
  OBVIOUS
<1>5. Swapped(next, prev, wanted, last) =
        IF n <= 1 THEN UNCHANGED <<selectedIndex, drive>> /\ swapRequest' = left
        ELSE IF next THEN Inserted(PrevDisk(n)) /\ swapRequest' = left
        ELSE IF prev THEN Inserted(NextDisk(n)) /\ swapRequest' = left
        ELSE Picked(pick, low) /\ swapRequest' = {}
  BY Zenon DEF Swapped
<1> HIDE DEF pick, low, left
<1>6. CASE n <= 1
  BY <1>1, <1>4, <1>5, <1>6
<1>7. CASE ~(n <= 1) /\ next
  <2>1. PrevDisk(n) \in Nat /\ PrevDisk(n) < n
    BY <1>1, <1>7 DEF PrevDisk
  <2>2. QED
    BY <1>4, <1>5, <1>7, <2>1 DEF Inserted
<1>8. CASE ~(n <= 1) /\ ~next /\ prev
  <2>1. NextDisk(n) \in Nat /\ NextDisk(n) < n
    BY <1>1, <1>8 DEF NextDisk
  <2>2. QED
    BY <1>4, <1>5, <1>8, <2>1 DEF Inserted
<1>9. CASE ~(n <= 1) /\ ~next /\ ~prev
  <2>1. Picked(pick, low) /\ swapRequest' = {}
    BY <1>5, <1>9
  <2>2. QED
    BY <1>1, <1>3, <2>1 DEF Picked, Inserted
<1>10. QED
  BY <1>6, <1>7, <1>8, <1>9

LEMMA CycleKeeps ==
  ASSUME Inv, NEW key \in Keys, NEW button \in {"none", "up", "down"}, NEW cd \in BOOLEAN,
         NEW digits \in SUBSET (0 .. Len(disks) - 1), Cycle(key, button, digits, cd)
  PROVE  Inv'
<1>1. TypeOK /\ CaddyInPlace /\ DriveMatchesCaddy /\ Once(selections)
  BY DEF Inv, DriveInv
<1>2. /\ at = "run" /\ drive = selectedIndex /\ drive < Len(disks)
      /\ at' \in {"run", "exited"}
      /\ swapRequest \subseteq Nat /\ resetCount \in Nat /\ ResetLimit \in Nat
  BY <1>1, EmulatorAssumption DEF Cycle, DriveMatchesCaddy, TypeOK
<1>3. PICK next, prev, last : Swapped(next, prev, swapRequest \union digits, last)
  BY DEF Cycle
<1>4. swapRequest \union digits \in SUBSET Nat
  BY <1>2
<1>5. /\ drive' = selectedIndex' /\ drive' < Len(disks) /\ drive' \in Nat
      /\ swapRequest' \subseteq Nat
  BY <1>1, <1>2, <1>3, <1>4, SwappedInCaddy
<1>6. UNCHANGED <<disks, oldCaddyIndex, gone, browserVars, lineVars, lock, screenVars,
                  cwd, card, meant>>
  BY DEF Cycle
<1>7. exitReason' \in Reasons /\ emulating' \in Modes
  BY <1>1 DEF Cycle, Reasons, Modes, TypeOK
<1>8. resetCount' \in 0 .. ResetLimit + 1
  <2> DEFINE least == Min({resetCount, ResetLimit})
             count == IF reset THEN least + 1 ELSE 0
  <2> DEFINE both == {resetCount, ResetLimit}
  <2>0. both \subseteq Nat /\ both # {}
    BY <1>2
  <2>1. least \in 0 .. ResetLimit
    <3>1. least = CHOOSE x \in both : \A y \in both : x <= y
      BY DEF Min
    <3>2. \E x \in both : \A y \in both : x <= y
      <4> HIDE DEF both
      <4>1. QED
        BY <2>0, Least
    <3> HIDE DEF least
    <3>3. least \in both /\ \A y \in both : least <= y
      <4> HIDE DEF both
      <4>1. QED
        BY <3>1, <3>2
    <3>4. QED
      BY <1>2, <3>3
  <2>2. resetCount' = IF at' = "run" THEN count ELSE 0
    BY DEF Cycle
  <2> HIDE DEF least
  <2>3. QED
    BY <1>2, <2>1, <2>2
<1>9. enterPrev' \in BOOLEAN /\ buttonSelect' \in BOOLEAN
  BY <1>1 DEF Cycle, TypeOK
<1>10. TypeOK'
  BY <1>1, <1>2, <1>5, <1>6, <1>7, <1>8, <1>9
     DEF TypeOK, Places, browserVars, lineVars, screenVars
<1>11. CaddyInPlace'
  BY <1>1, <1>2, <1>6 DEF CaddyInPlace, Empties
<1>12. DriveMatchesCaddy'
  BY <1>5, <1>6 DEF DriveMatchesCaddy
<1>13. ~Uploads => Accounted'
  BY <1>6, SameImages DEF Inv
<1>14. Once(selections')
  BY <1>1, <1>6 DEF browserVars
<1>15. QED
  BY <1>10, <1>11, <1>12, <1>13, <1>14 DEF Inv, DriveInv

-----------------------------------------------------------------------------
(* Core 1 empties the caddy *)

LEMMA CloseImageKeeps == ASSUME Inv, CloseImage PROVE Inv'
<1> DEFINE image == disks[gone + 1]
<1>1. TypeOK /\ CaddyInPlace /\ DriveMatchesCaddy /\ Once(selections)
  BY DEF Inv, DriveInv
<1>2. /\ at = "empty" /\ gone < Len(disks) /\ gone' = gone + 1 /\ card' = Saved(image)
      /\ UNCHANGED <<at, emulating, exitReason, disks, selectedIndex, oldCaddyIndex, drive,
                 browserVars, lineVars, inputVars, lock, screenVars, cwd, meant>>
  BY DEF CloseImage
<1>3. /\ disks \in Seq(Images) /\ gone \in Nat /\ Len(disks) \in Nat
      /\ card \in [Folders -> [Files -> Nat]] /\ cwd \in Folders
  BY <1>1 DEF TypeOK
<1>4. image \in Images /\ gone + 1 \in DOMAIN disks
  BY <1>2, <1>3
<1>5. image.file \in Files /\ image.data \in Nat
  BY <1>4 DEF Images
<1> DEFINE file == image.file
           data == image.data
<1>6. card' = IF image.dirty THEN [card EXCEPT ![cwd][file] = data] ELSE card
  BY <1>2 DEF Saved
<1>7. card' \in [Folders -> [Files -> Nat]]
  BY <1>3, <1>5, <1>6
<1>8. TypeOK'
  BY <1>1, <1>2, <1>3, <1>7 DEF TypeOK, browserVars, lineVars, inputVars, screenVars
<1>9. CaddyInPlace' /\ DriveMatchesCaddy'
  BY <1>1, <1>2, <1>3 DEF CaddyInPlace, Empties, DriveMatchesCaddy
<1>10. ~Uploads => Accounted'
  <2> SUFFICES ASSUME Accounted PROVE Accounted'
    BY DEF Inv
  <2>1. image.dir = cwd /\ data = meant[cwd][file]
    BY <1>4 DEF Accounted, Fresh
  <2>2. Fresh(disks', cwd') /\
        \A i \in DOMAIN disks' : disks'[i].data = meant'[disks'[i].dir][disks'[i].file]
    BY <1>2 DEF Accounted, Fresh
  <2>3. ASSUME NEW d \in Folders, NEW f \in Files
        PROVE  card'[d][f] = meant'[d][f] \/ Unsaved(d, f)'
    <3> HIDE DEF image
    <3>1. CASE image.dirty /\ d = cwd /\ f = file
      BY <1>2, <1>3, <1>5, <1>6, <2>1, <3>1
    <3>2. CASE ~(image.dirty /\ d = cwd /\ f = file)
      <4>1. card'[d][f] = card[d][f] /\ meant'[d][f] = meant[d][f]
        BY <1>2, <1>3, <1>5, <1>6, <3>2
      <4>2. CASE card[d][f] = meant[d][f]
        BY <4>1, <4>2
      <4>3. CASE Unsaved(d, f)
        <5>1. PICK i \in DOMAIN disks : /\ i > gone /\ disks[i].dirty
                                        /\ disks[i].dir = d /\ disks[i].file = f
          BY <4>3 DEF Unsaved
        <5>2. i # gone + 1
          BY <2>1, <3>2, <5>1 DEF image
        <5>3. i > gone'
          BY <1>2, <1>3, <5>1, <5>2
        <5>4. QED
          BY <1>2, <5>1, <5>3 DEF Unsaved
      <4>4. QED
        BY <4>2, <4>3 DEF Accounted
    <3>3. QED
      BY <3>1, <3>2
  <2>4. QED
    BY <2>2, <2>3 DEF Accounted
<1>11. Once(selections')
  BY <1>1, <1>2 DEF browserVars
<1>12. QED
  BY <1>8, <1>9, <1>10, <1>11 DEF Inv, DriveInv

LEMMA EndEmptyKeeps == ASSUME Inv, EndEmpty PROVE Inv'
<1>1. TypeOK /\ CaddyInPlace /\ DriveMatchesCaddy /\ Once(selections)
  BY DEF Inv, DriveInv
<1> USE DEF EndEmpty
<1>2. TypeOK'
  BY <1>1 DEF TypeOK, Places, browserVars, lineVars, inputVars, screenVars
<1>3. CaddyInPlace' /\ DriveMatchesCaddy'
  <2>1. at' = "waitReset" /\ disks' = <<>> /\ gone' = 0 /\ Len(disks') = 0
    OBVIOUS
  <2>2. QED
    BY <2>1 DEF CaddyInPlace, DriveMatchesCaddy
<1>4. ~Uploads => Accounted'
  <2> SUFFICES ASSUME Accounted PROVE Accounted'
    BY DEF Inv
  <2>1. \A d \in Folders, f \in Files : ~Unsaved(d, f)
    <3>1. \A i \in DOMAIN disks : ~(i > gone)
      BY <1>1 DEF TypeOK
    <3>2. QED
      BY <3>1 DEF Unsaved
  <2>2. QED
    BY <2>1 DEF Accounted, Fresh
<1>5. Once(selections')
  BY <1>1 DEF browserVars
<1>6. QED
  BY <1>2, <1>3, <1>4, <1>5 DEF Inv, DriveInv

LEMMA LeaveEmulationKeeps == ASSUME Inv, LeaveEmulation PROVE Inv'
<1> DEFINE b == IF exitReason = "EXIT_RESET" /\ ToRoot THEN Folder(Browser, Home) ELSE Browser
<1>1. TypeOK /\ CaddyInPlace /\ DriveMatchesCaddy /\ Once(selections)
  BY DEF Inv, DriveInv
<1>2. disks = <<>> /\ at' = "waitButtons" /\ gone = 0
  BY <1>1 DEF LeaveEmulation, CaddyInPlace, Empties
<1>3. b \in Browsers /\ Once(b.selections) /\ b.disks = disks
  BY <1>1, BrowserTyped, FolderShown DEF Folders
<1>4. Browsed(b)
  BY DEF LeaveEmulation
<1> HIDE DEF b
<1>5. /\ selections' \in Seq(Files) /\ Once(selections') /\ disks' = <<>>
      /\ selectionsMade' \in BOOLEAN /\ cwd' \in Folders
  BY <1>2, <1>3, <1>4 DEF Browsed, Browsers
<1>6. /\ emulating' = "IEC_COMMANDS" /\ buttonSelect' = FALSE
      /\ UNCHANGED <<exitReason, selectedIndex, oldCaddyIndex, gone, drive, lineVars,
                 enterPrev, swapRequest, resetCount, lock, screenVars, card, meant>>
  BY DEF LeaveEmulation
<1>7. TypeOK'
  BY <1>1, <1>2, <1>5, <1>6 DEF TypeOK, Places, Modes, lineVars, screenVars
<1>8. CaddyInPlace' /\ DriveMatchesCaddy'
  <2>1. at' = "waitButtons" /\ disks' = <<>> /\ gone' = 0 /\ Len(disks') = 0
    BY <1>2, <1>5, <1>6
  <2>2. QED
    BY <2>1 DEF CaddyInPlace, DriveMatchesCaddy
<1>9. ~Uploads => Accounted'
  <2> SUFFICES ASSUME Accounted PROVE Accounted'
    BY DEF Inv
  <2>1. \A d \in Folders, f \in Files : card'[d][f] = meant'[d][f]
    BY <1>2, <1>6 DEF Accounted, Unsaved
  <2>2. DOMAIN disks' = {}
    BY <1>5
  <2>3. QED
    BY <2>1, <2>2 DEF Accounted, Fresh
<1>10. QED
  BY <1>5, <1>7, <1>8, <1>9 DEF Inv, DriveInv

-----------------------------------------------------------------------------
(* The theorems *)

LEMMA InitInv == Init => Inv
<1> SUFFICES ASSUME Init PROVE Inv
  OBVIOUS
<1> USE DEF Init
<1>1. TypeOK
  <2>1. card = [d \in Folders |-> [f \in Files |-> 0]] /\ meant = card
    OBVIOUS
  <2>2. card \in [Folders -> [Files -> Nat]] /\ meant \in [Folders -> [Files -> Nat]]
    BY <2>1
  <2>3. /\ at \in Places /\ emulating \in Modes /\ exitReason \in Reasons /\ cwd \in Folders
        /\ lock \in {"free", "core0", "core1"}
        /\ screen \in {"status", "drawing", "check", "old", "new", "net"}
    BY DEF Places, Modes, Reasons, Folders
  <2>4. /\ disks \in Seq(Images) /\ selections \in Seq(Files)
        /\ {selectionsMade, enter, enterPrev, buttonSelect, reset} \subseteq BOOLEAN
    <3>1. /\ disks = <<>> /\ selections = <<>> /\ selectionsMade = FALSE /\ enter = FALSE
          /\ enterPrev = FALSE /\ buttonSelect = FALSE /\ reset = FALSE
      BY Zenon
    <3> HIDE DEF Init
    <3>2. {selectionsMade, enter, enterPrev, buttonSelect, reset} = {FALSE}
      BY <3>1
    <3>3. <<>> \in Seq(Images) /\ <<>> \in Seq(Files)
      OBVIOUS
    <3>4. QED
      BY <3>1, <3>2, <3>3, Zenon
  <2>5. /\ selectedIndex \in Nat /\ oldCaddyIndex \in Nat /\ gone \in Nat /\ drive \in Nat
        /\ swapRequest \subseteq Nat /\ caddyIndex \in Nat
        /\ resetCount \in 0 .. ResetLimit + 1
    BY EmulatorAssumption
  <2>6. QED
    BY <2>2, <2>3, <2>4, <2>5, Zenon DEF TypeOK
<1>2. CaddyInPlace /\ DriveMatchesCaddy /\ Once(selections)
  BY DEF CaddyInPlace, DriveMatchesCaddy, Once
<1>3. Accounted
  BY DEF Accounted, Fresh, Unsaved
<1>4. QED
  BY <1>1, <1>2, <1>3 DEF Inv, DriveInv

LEMMA NextInv == Inv /\ [Next]_vars => Inv'
<1> SUFFICES ASSUME Inv, [Next]_vars PROVE Inv'
  OBVIOUS
<1>1. CASE Browse
  BY <1>1, OtherSteps, SetupKeeps, BrowseAgainKeeps, BrowseButtonsKeeps, BrowseImageKeeps,
     BrowseKeyKeeps DEF Browse
<1>2. CASE Emulate
  BY <1>2, OtherSteps, WriteKeeps, CycleKeeps DEF Emulate
<1>3. CASE Empty
  BY <1>3, OtherSteps, CloseImageKeeps, EndEmptyKeeps, LeaveEmulationKeeps DEF Empty
<1>4. CASE Core0
  BY <1>4, OtherSteps, NetUpdateKeeps DEF Core0
<1>5. CASE ResetLine \/ EnterButton
  BY <1>5, OtherSteps
<1>6. CASE UNCHANGED vars
  <2>1. UNCHANGED <<at, emulating, exitReason, caddyVars, browserVars, lineVars, inputVars,
          lock, screenVars, cwd, card, meant>>
    BY <1>6 DEF vars
  <2>2. DriveInv'
    BY <2>1 DEF Inv, DriveInv, TypeOK, CaddyInPlace, DriveMatchesCaddy, Once, Empties,
                caddyVars, browserVars, lineVars, inputVars, screenVars
  <2>3. ~Uploads => Accounted'
    BY <2>1, SameImages DEF Inv, caddyVars
  <2>4. QED
    BY <2>2, <2>3 DEF Inv
<1>7. QED
  BY <1>1, <1>2, <1>3, <1>4, <1>5, <1>6 DEF Next

\* The invariant holds in every state of emulator() and UpdateScreen().
LEMMA Invariant == Spec => []Inv
<1>1. QED
  BY InitInv, NextInv, PTL DEF Spec

\* Every variable has its type in every state of emulator() and UpdateScreen():
\* DiskCaddy::PrevDisk, ::Empty and the index of an added image never leave the
\* naturals, and the reset counter stays below its limit.
THEOREM TypeCorrect == Spec => []TypeOK
<1>1. Inv => TypeOK
  BY DEF Inv, DriveInv
<1>2. QED
  BY <1>1, Invariant, PTL

\* While the 1541 runs, the disk in the drive is the one the caddy has selected
\* (DiskCaddy::NextDisk, PrevDisk, SelectImage and Emulate1541's swaps), for any
\* number of images and requests, uploads or not.
THEOREM DriveFollowsCaddy == Spec => []DriveMatchesCaddy
<1>1. Inv => DriveMatchesCaddy
  BY DEF Inv, DriveInv
<1>2. QED
  BY <1>1, Invariant, PTL

\* Nobody uploads: with uploads, an image is saved where the last one went.
NoUploads == ~Uploads

\* What the computer wrote on any image of the caddy is on the card once the caddy
\* is empty again (DiskCaddy::Empty), for any files, options and numbers of writes.
THEOREM WritesAreSaved == ASSUME NoUploads PROVE Spec => []WritesReachCard
<1>1. Inv => WritesReachCard
  <2> SUFFICES ASSUME Inv, disks = <<>> PROVE card = meant
    BY DEF WritesReachCard
  <2>1. \A d \in Folders, f \in Files : card[d][f] = meant[d][f]
    BY DEF Inv, Accounted, Unsaved, NoUploads
  <2>2. card \in [Folders -> [Files -> Nat]] /\ meant \in [Folders -> [Files -> Nat]]
    BY DEF Inv, DriveInv, TypeOK
  <2>3. QED
    BY <2>1, <2>2
<1>2. QED
  BY <1>1, Invariant, PTL
=============================================================================
