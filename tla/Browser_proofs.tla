--------------------------- MODULE Browser_proofs ---------------------------
(***************************************************************************)
(* Proofs about the file browser: its types, what the screens show, the    *)
(* numbers of the selected images, and the folder of the caddy.            *)
(***************************************************************************)
EXTENDS Browser, Induction, SequenceTheorems

-----------------------------------------------------------------------------
(* Ranks *)

Lower(S, R, e) == {f \in S : <<f, e>> \in R}

\* A finite set with a strict order has an element of each rank.
LEMMA Ranks ==
  ASSUME NEW S, IsFiniteSet(S), NEW R,
         \A e \in S : <<e, e>> \notin R,
         \A e, f, g \in S : <<e, f>> \in R /\ <<f, g>> \in R => <<e, g>> \in R,
         \A e, f \in S : e # f => <<e, f>> \in R \/ <<f, e>> \in R,
         NEW n \in 1 .. Cardinality(S)
  PROVE  \E e \in S : Cardinality(Lower(S, R, e)) = n - 1
<1> DEFINE Below(e) == {f \in S : <<f, e>> \in R}
           rank == [e \in S |-> Cardinality(Below(e)) + 1]
           N == 1 .. Cardinality(S)
<1>1. Cardinality(S) \in Nat
  BY FS_CardinalityType
<1>2. ASSUME NEW e \in S
      PROVE  IsFiniteSet(Below(e)) /\ Cardinality(Below(e)) \in Nat /\ Cardinality(Below(e)) < Cardinality(S)
  <2>1. Below(e) \in SUBSET S /\ e \notin Below(e)
    OBVIOUS
  <2> HIDE DEF Below
  <2>2. IsFiniteSet(Below(e)) /\ Cardinality(Below(e)) <= Cardinality(S) /\ Cardinality(Below(e)) # Cardinality(S)
    BY <2>1, FS_Subset
  <2>3. Cardinality(Below(e)) \in Nat
    BY <2>2, FS_CardinalityType
  <2>4. QED
    BY <1>1, <2>2, <2>3
<1>3. ASSUME NEW e \in S, NEW f \in S, <<e, f>> \in R
      PROVE  Cardinality(Below(e)) < Cardinality(Below(f))
  <2>1. Below(e) \in SUBSET Below(f) /\ e \in Below(f) /\ e \notin Below(e)
    BY <1>3
  <2> HIDE DEF Below
  <2>2. IsFiniteSet(Below(f))
    BY <1>2
  <2>3. Cardinality(Below(e)) <= Cardinality(Below(f)) /\ Cardinality(Below(e)) # Cardinality(Below(f))
    BY <2>1, <2>2, FS_Subset
  <2>4. QED
    BY <1>2, <2>3
<1> HIDE DEF Below
<1>4. rank \in [S -> N]
  BY <1>1, <1>2
<1>5. ASSUME NEW e \in S, NEW f \in S, rank[e] = rank[f] PROVE e = f
  <2>1. Cardinality(Below(e)) = Cardinality(Below(f))
    BY <1>2, <1>5
  <2>2. ~(Cardinality(Below(e)) < Cardinality(Below(f))) /\ ~(Cardinality(Below(f)) < Cardinality(Below(e)))
    BY <1>2, <2>1
  <2>3. QED
    BY <1>3, <2>2
<1> HIDE DEF rank
<1>6. rank \in Injection(S, N)
  BY <1>4, <1>5 DEF Injection, IsInjective
<1>7. IsFiniteSet(N) /\ Cardinality(N) = Cardinality(S)
  BY <1>1, FS_Interval
<1> HIDE DEF N
<1>8. rank \in Surjection(S, N)
  BY <1>6, <1>7, FS_Injection
<1>9. PICK e \in S : rank[e] = n
  BY <1>8 DEF Surjection, N
<1>10. Cardinality(Below(e)) = n - 1
  BY <1>2, <1>9 DEF rank
<1>11. QED
  BY <1>10 DEF Below, Lower
\* A set of entries in an order is a sequence that has each of them once.
InOrder(es) ==
  /\ \A e \in es : ~Before(e, e)
  /\ \A e, f, g \in es : Before(e, f) /\ Before(f, g) => Before(e, g)
  /\ \A e, f \in es : e # f => Before(e, f) \/ Before(f, e)

LEMMA SortedIs ==
  ASSUME NEW es, IsFiniteSet(es), InOrder(es)
  PROVE  /\ Sorted(es) \in Seq(es) /\ Len(Sorted(es)) = Cardinality(es)
         /\ \A i, j \in DOMAIN Sorted(es) : Sorted(es)[i] = Sorted(es)[j] => i = j
<1> DEFINE R == {p \in es \X es : Before(p[1], p[2])}
           n == Cardinality(es)
           Rank(e) == Cardinality({f \in es : Before(f, e)})
           nth == [i \in 1 .. n |-> CHOOSE e \in es : Rank(e) = i - 1]
<1>1. n \in Nat
  BY FS_CardinalityType
<1>2. ASSUME NEW i \in 1 .. n PROVE nth[i] \in es /\ Rank(nth[i]) = i - 1
  <2>1. \A e, f \in es : <<e, f>> \in R <=> Before(e, f)
    OBVIOUS
  <2> HIDE DEF R
  <2>2. \E e \in es : Cardinality(Lower(es, R, e)) = i - 1
    <3>1. /\ \A e \in es : <<e, e>> \notin R
          /\ \A e, f, g \in es : <<e, f>> \in R /\ <<f, g>> \in R => <<e, g>> \in R
          /\ \A e, f \in es : e # f => <<e, f>> \in R \/ <<f, e>> \in R
      BY <2>1, Zenon DEF InOrder
    <3>2. QED
      BY <3>1, Ranks
  <2>3. \A e \in es : Lower(es, R, e) = {f \in es : Before(f, e)}
    BY <2>1 DEF Lower
  <2>4. \E e \in es : Rank(e) = i - 1
    BY <2>2, <2>3
  <2> HIDE DEF Rank
  <2>5. QED
    BY <2>4
<1>3. Sorted(es) = nth
  BY DEF Sorted
<1> HIDE DEF Rank
<1>4. nth \in [1 .. n -> es]
  BY <1>2
<1>5. \A i, j \in 1 .. n : nth[i] = nth[j] => i = j
  <2>1. ASSUME NEW i \in 1 .. n, NEW j \in 1 .. n, nth[i] = nth[j] PROVE i = j
    <3>1. Rank(nth[i]) = i - 1 /\ Rank(nth[j]) = j - 1
      BY <1>2
    <3> HIDE DEF nth
    <3>2. i - 1 = j - 1
      BY <2>1, <3>1
    <3>3. QED
      BY <1>1, <3>2
  <2>2. QED
    BY <2>1
<1> HIDE DEF nth
<1>6. nth \in Seq(es) /\ Len(nth) = n /\ DOMAIN nth = 1 .. n
  BY <1>1, <1>4
<1>7. QED
  BY <1>3, <1>5, <1>6

LEMMA NumberRanks ==
  ASSUME NEW P \in SUBSET Int, IsFiniteSet(P), NEW n \in 1 .. Cardinality(P)
  PROVE  \E e \in P : Cardinality({f \in P : f < e}) = n - 1
<1> DEFINE R == {p \in P \X P : p[1] < p[2]}
<1>1. \A e, f \in P : <<e, f>> \in R <=> e < f
  OBVIOUS
<1> HIDE DEF R
<1>2. \A e \in P : <<e, e>> \notin R
  BY <1>1
<1>3. \A e, f, g \in P : <<e, f>> \in R /\ <<f, g>> \in R => <<e, g>> \in R
  BY <1>1
<1>4. \A e, f \in P : e # f => <<e, f>> \in R \/ <<f, e>> \in R
  BY <1>1
<1>5. \E e \in P : Cardinality(Lower(P, R, e)) = n - 1
  BY <1>2, <1>3, <1>4, Ranks
<1>6. \A e \in P : Lower(P, R, e) = {f \in P : f < e}
  BY <1>1 DEF Lower
<1>7. QED
  BY <1>5, <1>6

\* What is kept of a sequence comes from it, each place once.
LEMMA KeptIs ==
  ASSUME NEW T, NEW s \in Seq(T), NEW S
  PROVE  /\ Kept(s, S) \in Seq(T)
         /\ \A i \in DOMAIN Kept(s, S) : Kept(s, S)[i] \in S /\ \E j \in DOMAIN s : Kept(s, S)[i] = s[j]
         /\ (\A i, j \in DOMAIN s : s[i] = s[j] => i = j)
              => \A i, j \in DOMAIN Kept(s, S) : Kept(s, S)[i] = Kept(s, S)[j] => i = j
<1> DEFINE P == {i \in DOMAIN s : s[i] \in S}
           n == Cardinality(P)
           Rank(i) == Cardinality({k \in P : k < i})
           nth == [m \in 1 .. n |-> CHOOSE i \in P : Rank(i) = m - 1]
           Nth(m) == nth[m]
           k == [m \in 1 .. n |-> s[Nth(m)]]
<1>1. IsFiniteSet(P) /\ n \in Nat /\ P \in SUBSET Int /\ P \in SUBSET (DOMAIN s)
  <2>1. IsFiniteSet(1 .. Len(s)) /\ P \in SUBSET (1 .. Len(s)) /\ DOMAIN s = 1 .. Len(s)
    BY FS_Interval
  <2>2. IsFiniteSet(P)
    BY <2>1, FS_Subset
  <2>3. n \in Nat
    BY <2>2, FS_CardinalityType
  <2> HIDE DEF P
  <2>4. P \in SUBSET Int
    BY <2>1
  <2>5. QED
    BY <2>1, <2>2, <2>3, <2>4
<1>2. \A i \in P : s[i] \in S
  OBVIOUS
<1>3. Kept(s, S) = k
  BY DEF Kept
<1> HIDE DEF P
<1>4. ASSUME NEW m \in 1 .. n PROVE Nth(m) \in P /\ Rank(Nth(m)) = m - 1
  <2>1. \E i \in P : Rank(i) = m - 1
    BY <1>1, NumberRanks
  <2> HIDE DEF Rank
  <2>2. QED
    BY <2>1
<1> HIDE DEF Rank, Nth
<1>5. \A m \in 1 .. n : Nth(m) \in DOMAIN s /\ s[Nth(m)] \in S /\ s[Nth(m)] \in T
  <2>1. ASSUME NEW i \in DOMAIN s PROVE s[i] \in T
    OBVIOUS
  <2>2. ASSUME NEW m \in 1 .. n PROVE Nth(m) \in DOMAIN s /\ s[Nth(m)] \in S /\ s[Nth(m)] \in T
    BY <1>1, <1>2, <1>4, <2>1
  <2>3. QED
    BY <2>2
<1>6. k \in Seq(T) /\ DOMAIN k = 1 .. n
  <2>1. k \in [1 .. n -> T]
    BY <1>5
  <2> HIDE DEF k
  <2>2. QED
    BY <1>1, <2>1
<1>7. \A i \in 1 .. n : k[i] \in S /\ \E j \in DOMAIN s : k[i] = s[j]
  BY <1>5
<1>8. ASSUME \A i, j \in DOMAIN s : s[i] = s[j] => i = j
      PROVE  \A i, j \in 1 .. n : k[i] = k[j] => i = j
  <2>1. ASSUME NEW i \in 1 .. n, NEW j \in 1 .. n, k[i] = k[j] PROVE i = j
    <3>1. Nth(i) = Nth(j)
      BY <1>5, <1>8, <2>1
    <3>2. i - 1 = j - 1
      BY <1>4, <3>1
    <3>3. QED
      BY <1>1, <3>2
  <2>2. QED
    BY <2>1
<1> HIDE DEF k
<1>9. QED
  BY <1>3, <1>6, <1>7, <1>8

-----------------------------------------------------------------------------
(* What the browser keeps *)

Volumes   == Range(Devices)
Cwds      == {c \in [Volumes -> Folders] : \A d \in Volumes : c[d][1] = d}
Stores    == {s \in [Folders -> SUBSET Files] : \A d \in Folders : Stored(s[d])}
Entries   == [name : Nat, kind : Kinds, rdo : BOOLEAN, caddy : Int]
Offsets   == [Views -> Int]
ListRecords == [entries : Seq(Entries), folder : Folders, at : Int, cur : Int, offset : Offsets]
Pictures  == [entries : Seq(Entries), at : Int, offset : Offsets, selections : Seq(Nat),
              prefix : Seq(Typing)]
Places    == [folder : Folders, name : Nat]
Browsers  == [drive : Volumes, cwd : Cwds, files : Stores, devices : BOOLEAN,
              list : ListRecords \union {<<>>}, selections : Seq(Nat), prefix : Seq(Typing),
              caddy : Seq(Places), made : BOOLEAN, drawn : Pictures \union {<<>>},
              missed : BOOLEAN, refused : BOOLEAN]

IsImage(e)    == e.kind \in {"image", "list"}
ImageNames(l) == {e.name : e \in Images(l)}
Numbers(l)    == None .. Cardinality(ImageNames(l))

\* The entries: images have each a name of their own.
Distinct(s) == \A i, j \in DOMAIN s : IsImage(s[i]) /\ IsImage(s[j]) /\ s[i].name = s[j].name => i = j
\* A list has a cursor and windows.
ListOK(l) ==
  /\ l \in ListRecords /\ l.entries # <<>> /\ Distinct(l.entries)
  /\ l.at \in 0 .. End(l) /\ l.cur \in {None, l.at}
  /\ \A v \in Views : l.offset[v] \in 0 .. End(l)
Whole(x) == x \in Browsers /\ Len(x.prefix) < BufferSize
Sound(x) == Whole(x) /\ ListOK(x.list)

\* The selections: images of the list, each once; and the numbers the entries bear.
Chosen(x) ==
  /\ \A i, j \in DOMAIN x.selections : x.selections[i] = x.selections[j] => i = j
  /\ \A i \in DOMAIN x.selections : x.selections[i] \in ImageNames(x.list)
  /\ \A i \in DOMAIN x.list.entries : x.list.entries[i].caddy \in Numbers(x.list)
Matched(x) ==
  /\ \A e \in Range(x.list.entries) :
       e.caddy # None => e.caddy + 1 \in DOMAIN x.selections /\ x.selections[e.caddy + 1] = e.name
  /\ \A i \in DOMAIN x.selections :
       \E e \in Range(x.list.entries) : e.name = x.selections[i] /\ e.caddy = i - 1
Shown(x) == ~x.missed => x.drawn = Picture(x) /\ \A v \in Views : x.list.at \in Window(x.list, v)
Here(x)  == Elsewhere \/ x.list.folder = Cwd(x)
\* In the devices' list, the entries are devices.
Rooted(x) == x.devices => \A i \in DOMAIN x.list.entries : x.list.entries[i].name \in Volumes

-----------------------------------------------------------------------------
(* The folder's list *)

\* The image of a finite set.
LEMMA ImageIsFinite ==
  ASSUME NEW S, IsFiniteSet(S), NEW T, NEW f \in [S -> T]
  PROVE  IsFiniteSet(Range(f)) /\ Cardinality(Range(f)) <= Cardinality(S)
<1>1. f \in [S -> Range(f)]
  BY DEF Range
<1>2. f \in Surjection(S, Range(f))
  BY <1>1 DEF Surjection, Range
<1>3. QED
  BY <1>2, FS_Surjection

LEMMA FoldersAre ==
  /\ Folders \in SUBSET Seq(Nat) /\ IsFiniteSet(Folders) /\ Volumes \in SUBSET Nat
  /\ \A d \in Folders : Len(d) \in Nat \ {0} /\ d[1] \in FileNames /\ d[Len(d)] \in FileNames
  /\ \A d \in Volumes : <<d>> \in Folders
  /\ Len(Devices) \in Nat \ {0} /\ Devices[1] \in Volumes /\ DOMAIN Devices = 1 .. Len(Devices)
  /\ \A i \in DOMAIN Devices : Devices[i] \in Nat
<1>1. FileNames \in SUBSET Nat
  BY DEF FileNames
<1>2. Folders \in SUBSET Seq(FileNames) /\ IsFiniteSet(Folders) /\ <<>> \notin Folders
      /\ Devices \in Seq(FileNames) /\ Devices # <<>> /\ \A d \in Volumes : <<d>> \in Folders
  BY BrowserAssumption DEF Volumes
<1>3. ASSUME NEW d \in Folders
      PROVE  d \in Seq(Nat) /\ Len(d) \in Nat \ {0} /\ d[1] \in FileNames /\ d[Len(d)] \in FileNames
  <2>1. d \in Seq(FileNames) /\ d # <<>>
    BY <1>2
  <2>2. Len(d) \in Nat \ {0} /\ d \in [1 .. Len(d) -> FileNames]
    BY <2>1
  <2>3. d \in [1 .. Len(d) -> Nat]
    BY <1>1, <2>2
  <2>4. QED
    BY <2>2, <2>3
<1>4. Len(Devices) \in Nat \ {0} /\ DOMAIN Devices = 1 .. Len(Devices)
      /\ \A i \in DOMAIN Devices : Devices[i] \in Nat
  <2>1. Devices \in Seq(FileNames) /\ Devices # <<>>
    BY <1>2
  <2>2. Len(Devices) \in Nat \ {0} /\ Devices \in [1 .. Len(Devices) -> FileNames]
    BY <2>1
  <2>3. QED
    BY <1>1, <2>2
<1>5. Volumes \in SUBSET Nat /\ Devices[1] \in Volumes
  BY <1>4 DEF Volumes, Range
<1>6. QED
  BY <1>2, <1>3, <1>4, <1>5

LEMMA SubFoldersAre ==
  ASSUME NEW d PROVE IsFiniteSet(SubFolders(d)) /\ SubFolders(d) \in SUBSET FileNames
<1> DEFINE F == {f \in Folders : Len(f) = Len(d) + 1 /\ Front(f) = d}
           last == [f \in F |-> f[Len(f)]]
<1>1. F \in SUBSET Folders
  OBVIOUS
<1>2. IsFiniteSet(F)
  BY <1>1, FoldersAre, FS_Subset
<1>3. SubFolders(d) = Range(last)
  BY DEF SubFolders, Range
<1> HIDE DEF F
<1>4. last \in [F -> FileNames]
  <2>1. \A f \in F : f[Len(f)] \in FileNames
    BY <1>1, FoldersAre
  <2>2. QED
    BY <2>1
<1> HIDE DEF last
<1>5. IsFiniteSet(Range(last))
  BY <1>2, <1>4, ImageIsFinite
<1>6. Range(last) \in SUBSET FileNames
  BY <1>4 DEF Range
<1>7. QED
  BY <1>3, <1>5, <1>6

\* What a folder shows: its files, its folders and the one above.
Contents(x) == {Entry(f) : f \in x.files[Cwd(x)]} \union {Dir(n) : n \in SubFolders(Cwd(x)) \union {Up}}

LEMMA CwdIs ==
  ASSUME NEW x \in Browsers
  PROVE  /\ Cwd(x) \in Folders /\ Cwd(x)[1] = x.drive /\ x.drive \in Volumes
         /\ x.cwd \in Cwds /\ x.files \in Stores
         /\ x.files[Cwd(x)] \in SUBSET Files /\ Stored(x.files[Cwd(x)])
<1>1. x.drive \in Volumes /\ x.cwd \in Cwds /\ x.files \in Stores
  BY DEF Browsers
<1>2. Cwd(x) \in Folders /\ Cwd(x)[1] = x.drive
  BY <1>1 DEF Cwds, Cwd
<1>3. QED
  BY <1>1, <1>2 DEF Stores

LEMMA ContentsAre ==
  ASSUME NEW x \in Browsers
  PROVE  /\ Contents(x) \in SUBSET Entries /\ IsFiniteSet(Contents(x))
         /\ Dir(Up) \in Contents(x) /\ InOrder(Contents(x))
         /\ \A e \in Contents(x) : e.caddy = None /\ (e.kind = "dir" => ~IsImage(e))
         /\ \A e, f \in Contents(x) : IsImage(e) /\ IsImage(f) /\ e.name = f.name => e = f
<1> DEFINE F == x.files[Cwd(x)]
           N == SubFolders(Cwd(x)) \union {Up}
           file == [f \in F |-> Entry(f)]
           dir  == [n \in N |-> Dir(n)]
<1>1. F \in SUBSET Files /\ Stored(F)
  BY CwdIs
<1>2. N \in SUBSET Nat /\ IsFiniteSet(N) /\ Up \in N
  <2>1. IsFiniteSet(SubFolders(Cwd(x))) /\ SubFolders(Cwd(x)) \in SUBSET FileNames
    BY SubFoldersAre
  <2>2. Up \in Nat /\ FileNames \in SUBSET Nat
    BY DEF Up, FileNames
  <2>3. IsFiniteSet(N)
    BY <2>1, FS_AddElement
  <2>4. QED
    BY <2>1, <2>2, <2>3
<1>3. Contents(x) = Range(file) \union Range(dir)
  BY DEF Contents, Range
<1> HIDE DEF F, N
<1>4. ASSUME NEW f \in F
      PROVE  /\ Entry(f) \in Entries /\ Entry(f).caddy = None /\ Entry(f).kind # "dir"
             /\ Entry(f).name = f.name /\ f.name \in Nat \ {Up}
  <2>1. f \in Files
    BY <1>1
  <2>2. QED
    BY <2>1 DEF Files, Entry, Entries, FileNames, None, Kinds
<1>5. ASSUME NEW n \in N
      PROVE  /\ Dir(n) \in Entries /\ Dir(n).caddy = None /\ Dir(n).kind = "dir" /\ Dir(n).name = n
             /\ ~IsImage(Dir(n))
  <2>1. n \in Nat
    BY <1>2
  <2>2. QED
    BY <2>1 DEF Dir, File, Entry, Entries, Kinds, None, IsImage
<1>6. file \in [F -> Entries] /\ dir \in [N -> Entries]
  BY <1>4, <1>5
<1>7. IsFiniteSet(Range(file)) /\ IsFiniteSet(Range(dir))
  <2> HIDE DEF file, dir
  <2>1. QED
    BY <1>1, <1>2, <1>6, ImageIsFinite DEF Stored
<1>8. IsFiniteSet(Contents(x))
  BY <1>3, <1>7, FS_Union
<1>9. ASSUME NEW e \in Contents(x)
      PROVE  (\E f \in F : e = Entry(f)) \/ (\E n \in N : e = Dir(n))
  BY <1>9 DEF Contents, F, N
<1>10. \A e \in Contents(x) : /\ e \in Entries /\ e.caddy = None /\ (e.kind = "dir" => ~IsImage(e))
                              /\ e.kind # "dir" => e.name # Up
  <2>1. ASSUME NEW e \in Contents(x)
        PROVE  /\ e \in Entries /\ e.caddy = None /\ (e.kind = "dir" => ~IsImage(e))
               /\ e.kind # "dir" => e.name # Up
    BY <1>4, <1>5, <1>9
  <2>2. QED
    BY <2>1, Zenon
<1>11. ASSUME NEW e \in Contents(x), NEW f \in Contents(x), e.name = f.name,
              e.kind = "dir" <=> f.kind = "dir"
       PROVE  e = f
  <2>1. CASE e.kind = "dir"
    <3>1. PICK n \in N : e = Dir(n)
      BY <1>4, <1>9, <2>1
    <3>2. PICK m \in N : f = Dir(m)
      BY <1>4, <1>9, <1>11, <2>1
    <3>3. QED
      BY <1>5, <1>11, <3>1, <3>2
  <2>2. CASE e.kind # "dir"
    <3>1. PICK g \in F : e = Entry(g)
      BY <1>5, <1>9, <2>2
    <3>2. PICK h \in F : f = Entry(h)
      BY <1>5, <1>9, <1>11, <2>2
    <3>3. g = h
      BY <1>1, <1>4, <1>11, <3>1, <3>2 DEF Stored
    <3>4. QED
      BY <3>1, <3>2, <3>3
  <2>3. QED
    BY <2>1, <2>2
<1>12. Dir(Up) \in Contents(x)
  BY <1>2, <1>3 DEF Contents, N
<1>13. InOrder(Contents(x))
  <2>1. ASSUME NEW e \in Contents(x) PROVE e.name \in Nat /\ (e.kind # "dir" => e.name # Up)
    BY <1>10 DEF Entries
  <2>2. \A e \in Contents(x) : ~Before(e, e)
    BY <2>1 DEF Before
  <2>3. ASSUME NEW e \in Contents(x), NEW f \in Contents(x), NEW g \in Contents(x),
               Before(e, f), Before(f, g)
        PROVE  Before(e, g)
    BY <2>1, <2>3 DEF Before
  <2>4. ASSUME NEW e \in Contents(x), NEW f \in Contents(x), e # f PROVE Before(e, f) \/ Before(f, e)
    <3>1. e.name # f.name \/ ~(e.kind = "dir" <=> f.kind = "dir")
      BY <1>11, <2>4
    <3>2. QED
      BY <2>1, <3>1 DEF Before
  <2>5. QED
    BY <2>2, <2>3, <2>4, Zenon DEF InOrder
<1>14. \A e, f \in Contents(x) : IsImage(e) /\ IsImage(f) /\ e.name = f.name => e = f
  BY <1>10, <1>11
<1>15. QED
  BY <1>8, <1>10, <1>12, <1>13, <1>14

LEMMA ListedIs ==
  ASSUME NEW x, Whole(x)
  PROVE  /\ ListOK(Listed(x))
         /\ \A i \in DOMAIN Listed(x).entries :
              Listed(x).entries[i].caddy = None /\ (x.devices => Listed(x).entries[i].name \in Volumes)
<1> DEFINE es == IF x.devices THEN [i \in DOMAIN Devices |-> Dir(Devices[i])] ELSE Sorted(Contents(x))
           l  == [entries |-> es, folder |-> Cwd(x), at |-> 0,
                  cur |-> IF x.devices THEN None ELSE 0, offset |-> [v \in Views |-> 0]]
<1>1. Listed(x) = l
  BY DEF Listed, Listing, Contents
<1>2. x \in Browsers
  BY DEF Whole
<1>3. /\ es \in Seq(Entries) /\ Len(es) \in Nat \ {0} /\ Distinct(es)
      /\ \A i \in DOMAIN es : es[i].caddy = None /\ (x.devices => es[i].name \in Volumes)
  <2>1. CASE x.devices
    <3> DEFINE ds == [i \in DOMAIN Devices |-> Dir(Devices[i])]
    <3>1. \A n \in Nat : Dir(n) \in Entries /\ ~IsImage(Dir(n)) /\ Dir(n).caddy = None /\ Dir(n).name = n
      BY DEF Dir, File, Entry, Entries, Kinds, None, IsImage
    <3>2. /\ DOMAIN Devices = 1 .. Len(Devices) /\ Len(Devices) \in Nat \ {0}
          /\ \A i \in DOMAIN Devices : Devices[i] \in Nat /\ Devices[i] \in Volumes
      BY FoldersAre DEF Volumes, Range
    <3>3. \A i \in 1 .. Len(Devices) :
            ds[i] \in Entries /\ ~IsImage(ds[i]) /\ ds[i].caddy = None /\ ds[i].name \in Volumes
      BY <3>1, <3>2
    <3>4. ds \in [1 .. Len(Devices) -> Entries]
      BY <3>2, <3>3
    <3>5. es = ds
      BY <2>1
    <3> HIDE DEF ds, es
    <3>6. ds \in Seq(Entries) /\ Len(ds) = Len(Devices) /\ DOMAIN ds = 1 .. Len(Devices)
      BY <3>2, <3>4
    <3>7. QED
      BY <3>2, <3>3, <3>5, <3>6 DEF Distinct
  <2>2. CASE ~x.devices
    <3> DEFINE C == Contents(x)
               s == Sorted(C)
    <3>1. /\ C \in SUBSET Entries /\ IsFiniteSet(C) /\ Dir(Up) \in C /\ InOrder(C)
          /\ \A e \in C : e.caddy = None
          /\ \A e, f \in C : IsImage(e) /\ IsImage(f) /\ e.name = f.name => e = f
      BY <1>2, ContentsAre
    <3>2. es = s
      BY <2>2
    <3> HIDE DEF C, es
    <3>3. /\ s \in Seq(C) /\ Len(s) = Cardinality(C)
          /\ \A i, j \in DOMAIN s : s[i] = s[j] => i = j
      BY <3>1, SortedIs
    <3>4. Cardinality(C) \in Nat /\ Cardinality(C) # 0
      BY <3>1, FS_CardinalityType, FS_EmptySet
    <3> HIDE DEF s
    <3>5. s \in Seq(Entries) /\ \A i \in DOMAIN s : s[i] \in C
      <4>1. DOMAIN s = 1 .. Len(s) /\ \A i \in DOMAIN s : s[i] \in C
        BY <3>3
      <4>2. s \in [1 .. Len(s) -> Entries]
        BY <3>1, <3>3, <4>1
      <4>3. QED
        BY <3>3, <3>4, <4>1, <4>2
    <3>6. QED
      BY <2>2, <3>1, <3>2, <3>3, <3>4, <3>5 DEF Distinct
  <2>3. QED
    BY <1>2, <2>1, <2>2 DEF Browsers
<1>4. Cwd(x) \in Folders
  BY <1>2, CwdIs
<1> HIDE DEF es
<1>5. l \in ListRecords
  <2>1. [v \in Views |-> 0] \in Offsets
    BY DEF Offsets
  <2>2. es \in Seq(Entries) /\ (IF x.devices THEN None ELSE 0) \in Int
    BY <1>3 DEF None
  <2>3. QED
    BY <1>4, <2>1, <2>2 DEF ListRecords
<1>6. /\ l.entries = es /\ l.at = 0 /\ l.cur \in {None, 0} /\ \A v \in Views : l.offset[v] = 0
  OBVIOUS
<1> HIDE DEF l
<1>7. ListOK(l)
  <2>1. l.entries # <<>> /\ End(l) \in Nat
    BY <1>3, <1>6 DEF End
  <2>2. QED
    BY <1>3, <1>5, <1>6, <2>1 DEF ListOK
<1>8. QED
  BY <1>1, <1>3, <1>6, <1>7

\* The other list, of the same entries.
Alike(l, m) == ListOK(m) /\ m.entries = l.entries /\ m.folder = l.folder

LEMMA MoveToIs ==
  ASSUME NEW l, ListOK(l), NEW i \in 0 .. End(l)
  PROVE  Alike(l, MoveTo(l, i)) /\ MoveTo(l, i).at = i /\ MoveTo(l, i).offset = l.offset
<1> DEFINE m == [l EXCEPT !.at = i, !.cur = i]
<1>1. l \in ListRecords /\ End(l) \in Int
  BY DEF ListOK, ListRecords, End
<1>2. MoveTo(l, i) = m
  BY <1>1 DEF MoveTo, SetCurrent, ListRecords
<1>3. i \in Int
  BY <1>1
<1>4. m \in ListRecords /\ m.at = i /\ m.cur = i /\ m.offset = l.offset /\ m.entries = l.entries
      /\ m.folder = l.folder
  BY <1>1, <1>3 DEF ListRecords
<1> HIDE DEF m
<1>5. ListOK(m)
  BY <1>1, <1>4 DEF ListOK, End
<1>6. QED
  BY <1>2, <1>4, <1>5 DEF Alike

-----------------------------------------------------------------------------
(* Drawing *)

LEMMA ListIs ==
  ASSUME NEW l, ListOK(l)
  PROVE  /\ l \in ListRecords /\ l.entries \in Seq(Entries) /\ Len(l.entries) \in Nat \ {0}
         /\ End(l) \in Nat /\ End(l) = Len(l.entries) - 1 /\ DOMAIN l.entries = 1 .. Len(l.entries)
         /\ l.at \in Nat /\ l.at <= End(l) /\ l.cur \in Int /\ l.folder \in Folders
         /\ \A v \in Views : l.offset[v] \in Nat /\ l.offset[v] <= End(l) /\ Rows[v] \in Nat /\ Rows[v] > 1
         /\ l.offset \in Offsets
         /\ \A i \in DOMAIN l.entries : l.entries[i] \in Entries
<1>1. l \in ListRecords /\ l.entries \in Seq(Entries) /\ l.entries # <<>>
  BY DEF ListOK, ListRecords
<1>2. Len(l.entries) \in Nat \ {0} /\ DOMAIN l.entries = 1 .. Len(l.entries)
      /\ \A i \in DOMAIN l.entries : l.entries[i] \in Entries
  BY <1>1
<1>3. End(l) \in Nat /\ End(l) = Len(l.entries) - 1
  BY <1>2 DEF End
<1>4. l.at \in Nat /\ l.at <= End(l) /\ l.cur \in Int /\ l.folder \in Folders /\ l.offset \in Offsets
  BY <1>1, <1>3 DEF ListOK, ListRecords
<1>5. ASSUME NEW v \in Views
      PROVE l.offset[v] \in Nat /\ l.offset[v] <= End(l) /\ Rows[v] \in Nat /\ Rows[v] > 1
  <2>1. Rows[v] \in Nat \ {0, 1}
    BY BrowserAssumption
  <2>2. l.offset[v] \in 0 .. End(l)
    BY DEF ListOK
  <2>3. QED
    BY <1>3, <2>1, <2>2
<1>6. QED
  BY <1>1, <1>2, <1>3, <1>4, <1>5

LEMMA MaxOfTwo ==
  ASSUME NEW i \in Int, NEW j \in Int
  PROVE  Max({i, j}) = IF i >= j THEN i ELSE j
BY DEF Max

LEMMA MinOfTwo ==
  ASSUME NEW i \in Int, NEW j \in Int
  PROVE  Min({i, j}) = IF i <= j THEN i ELSE j
BY DEF Min

\* A window that is refreshed has the cursor in it.
LEMMA RefreshIs ==
  ASSUME NEW l, ListOK(l), NEW v \in Views
  PROVE  /\ Refresh(l, v) \in 0 .. End(l)
         /\ l.at \in Refresh(l, v) .. Refresh(l, v) + Rows[v] - 1
<1>1. /\ l.at \in Nat /\ End(l) \in Nat /\ l.at <= End(l) /\ l.offset[v] \in Nat /\ l.offset[v] <= End(l)
      /\ Rows[v] \in Nat /\ Rows[v] > 1
  BY ListIs
<1>2. Max({l.at - Rows[v] + 1, 0}) = IF l.at - Rows[v] + 1 >= 0 THEN l.at - Rows[v] + 1 ELSE 0
  BY <1>1, MaxOfTwo
<1>3. QED
  BY <1>1, <1>2 DEF Refresh, Window

\* All but the windows and what was drawn.
Same(x, y) ==
  /\ y.drive = x.drive /\ y.cwd = x.cwd /\ y.files = x.files /\ y.devices = x.devices
  /\ y.caddy = x.caddy /\ y.made = x.made
SameList(x, y) ==
  /\ y.list.entries = x.list.entries /\ y.list.folder = x.list.folder
  /\ y.selections = x.selections /\ y.refused = x.refused

LEMMA RefeshDisplayIs ==
  ASSUME NEW x, Sound(x)
  PROVE  LET y == RefeshDisplay(x)
         IN  Sound(y) /\ Same(x, y) /\ SameList(x, y) /\ Shown(y) /\ y.prefix = x.prefix
<1> DEFINE o == [v \in Views |-> Refresh(x.list, v)]
           l == [x.list EXCEPT !.offset = o]
           y == [x EXCEPT !.list.offset = o]
           z == [y EXCEPT !.drawn = Picture(y), !.missed = FALSE]
           G(e) == Sound(e) /\ Same(x, e) /\ SameList(x, e) /\ Shown(e) /\ e.prefix = x.prefix
<1>1. RefeshDisplay(x) = z
  BY DEF RefeshDisplay
<1>2. x \in Browsers /\ ListOK(x.list) /\ Len(x.prefix) < BufferSize /\ x.list \in ListRecords
  BY ListIs DEF Sound, Whole
<1>3. o \in Offsets /\ \A v \in Views : o[v] \in 0 .. End(x.list) /\ x.list.at \in o[v] .. o[v] + Rows[v] - 1
  <2>1. \A v \in Views : Refresh(x.list, v) \in 0 .. End(x.list)
    BY <1>2, RefreshIs
  <2>2. \A v \in Views : o[v] = Refresh(x.list, v) /\ Refresh(x.list, v) \in Int
    BY <1>2, <2>1, ListIs
  <2>3. o \in Offsets
    BY <2>2 DEF Offsets
  <2>4. QED
    BY <1>2, <2>1, <2>2, <2>3, RefreshIs
<1> HIDE DEF o
<1>4. /\ l \in ListRecords /\ l.entries = x.list.entries /\ l.folder = x.list.folder
      /\ l.at = x.list.at /\ l.cur = x.list.cur /\ l.offset = o
  BY <1>2, <1>3 DEF ListRecords
<1>5. y = [x EXCEPT !.list = l]
  BY <1>2 DEF Browsers
<1> HIDE DEF l, y
<1>6. ListOK(l)
  BY <1>2, <1>3, <1>4 DEF ListOK, End
<1>7. /\ y.list = l /\ y.selections = x.selections /\ y.prefix = x.prefix /\ y \in Browsers
      /\ Same(x, y) /\ y.refused = x.refused
  BY <1>2, <1>4, <1>5 DEF Browsers, Same
<1>8. Picture(y) \in Pictures
  BY <1>2, <1>4, <1>7 DEF Picture, Pictures, ListRecords, Browsers
<1>9. /\ z \in Browsers /\ z.list = l /\ Same(x, z) /\ z.refused = x.refused /\ z.missed = FALSE
      /\ z.selections = x.selections /\ z.prefix = x.prefix /\ z.drawn = Picture(y)
  <2>1. Same(y, z) /\ z \in Browsers /\ z.list = l /\ z.refused = y.refused /\ z.missed = FALSE
        /\ z.selections = y.selections /\ z.prefix = y.prefix /\ z.drawn = Picture(y)
    BY <1>7, <1>8 DEF Browsers, Same
  <2> HIDE DEF z
  <2>2. QED
    BY <1>7, <2>1 DEF Same
<1> HIDE DEF z
<1>10. Picture(z) = Picture(y)
  BY <1>7, <1>9 DEF Picture
<1>11. Sound(z) /\ SameList(x, z)
  BY <1>2, <1>4, <1>6, <1>9 DEF Sound, Whole, SameList
<1>12. Shown(z)
  BY <1>3, <1>4, <1>9, <1>10 DEF Shown, Window
<1>13. G(z)
  BY <1>9, <1>11, <1>12
<1> HIDE DEF G
<1>14. G(RefeshDisplay(x))
  BY <1>1, <1>13
<1>15. QED
  BY <1>14 DEF G

-----------------------------------------------------------------------------
(* Folders *)

\* The list has just been read: nothing is selected, and no entry has a number.
Relisted(x, y) ==
  /\ Sound(y) /\ y.selections = <<>> /\ ~y.refused /\ y.list.folder = Cwd(y)
  /\ \A i \in DOMAIN y.list.entries : y.list.entries[i].caddy = None
  /\ Rooted(y) /\ y.caddy = x.caddy /\ y.made = x.made
Fresh(x, y) ==
  /\ Sound(y) /\ Chosen(y) /\ Matched(y) /\ ~y.refused /\ Here(y) /\ Rooted(y)
  /\ y.caddy = x.caddy /\ y.made = x.made

LEMMA NumbersAre ==
  ASSUME NEW l, ListOK(l)
  PROVE  /\ IsFiniteSet(Images(l)) /\ IsFiniteSet(ImageNames(l)) /\ ImageNames(l) \in SUBSET Nat
         /\ Cardinality(ImageNames(l)) \in Nat /\ Cardinality(ImageNames(l)) = Cardinality(Images(l))
         /\ None \in Numbers(l)
         /\ \A i \in DOMAIN l.entries : IsImage(l.entries[i]) <=> l.entries[i] \in Images(l)
         /\ ImageNames(l) = {l.entries[i].name : i \in {i \in DOMAIN l.entries : IsImage(l.entries[i])}}
<1> DEFINE f == [e \in Images(l) |-> e.name]
<1>1. /\ l.entries \in [1 .. Len(l.entries) -> Entries] /\ Len(l.entries) \in Nat
      /\ DOMAIN l.entries = 1 .. Len(l.entries) /\ \A i \in DOMAIN l.entries : l.entries[i] \in Entries
  BY ListIs
<1>2. IsFiniteSet(Range(l.entries))
  <2>1. IsFiniteSet(1 .. Len(l.entries))
    BY <1>1, FS_Interval
  <2>2. QED
    BY <1>1, <2>1, ImageIsFinite
<1>3. Images(l) \in SUBSET Range(l.entries)
  BY DEF Images
<1>4. IsFiniteSet(Images(l))
  BY <1>2, <1>3, FS_Subset
<1>5. \A e \in Images(l) : IsImage(e) /\ e.name \in Nat /\ \E i \in DOMAIN l.entries : e = l.entries[i]
  BY <1>1 DEF Images, Range, IsImage, Entries
<1>6. \A i \in DOMAIN l.entries : IsImage(l.entries[i]) <=> l.entries[i] \in Images(l)
  BY DEF Images, Range, IsImage
<1>7. Range(f) = ImageNames(l)
  BY DEF Range, ImageNames
<1>8. f \in [Images(l) -> ImageNames(l)]
  BY DEF ImageNames
<1>9. \A d, e \in Images(l) : f[d] = f[e] => d = e
  <2>1. ASSUME NEW d \in Images(l), NEW e \in Images(l), d.name = e.name PROVE d = e
    <3>1. PICK i \in DOMAIN l.entries : d = l.entries[i]
      BY <1>5
    <3>2. PICK j \in DOMAIN l.entries : e = l.entries[j]
      BY <1>5
    <3>3. i = j
      BY <1>5, <2>1, <3>1, <3>2 DEF ListOK, Distinct
    <3>4. QED
      BY <3>1, <3>2, <3>3
  <2>2. QED
    BY <2>1
<1> HIDE DEF f
<1>10. IsFiniteSet(ImageNames(l))
  BY <1>4, <1>7, <1>8, ImageIsFinite
<1>11. f \in Injection(Images(l), ImageNames(l))
  BY <1>8, <1>9 DEF Injection, IsInjective
<1>12. f \in Surjection(Images(l), ImageNames(l))
  <2>1. \A n \in ImageNames(l) : \E e \in Images(l) : f[e] = n
    BY <1>7, <1>8 DEF Range
  <2>2. QED
    BY <1>8, <2>1 DEF Surjection
<1>13. Cardinality(ImageNames(l)) = Cardinality(Images(l))
  BY <1>4, <1>11, <1>12, FS_Surjection
<1>14. Cardinality(ImageNames(l)) \in Nat
  BY <1>10, FS_CardinalityType
<1>15. None \in Numbers(l)
  BY <1>14 DEF None, Numbers
<1>16. ImageNames(l) = {l.entries[i].name : i \in {i \in DOMAIN l.entries : IsImage(l.entries[i])}}
  BY <1>5, <1>6 DEF ImageNames
<1>17. ImageNames(l) \in SUBSET Nat
  BY <1>5 DEF ImageNames
<1>18. QED
  BY <1>4, <1>6, <1>10, <1>13, <1>14, <1>15, <1>16, <1>17

\* What is said of the entries does not depend on the cursor and the windows.
LEMMA SameEntries ==
  ASSUME NEW l, NEW m, m.entries = l.entries
  PROVE  Images(m) = Images(l) /\ ImageNames(m) = ImageNames(l) /\ Numbers(m) = Numbers(l)
BY DEF Images, ImageNames, Numbers

LEMMA RelistedIsFresh ==
  ASSUME NEW x, NEW y, Relisted(x, y)
  PROVE  Fresh(x, y)
<1>1. ListOK(y.list) /\ DOMAIN y.selections = {}
  BY DEF Relisted, Sound
<1>2. Chosen(y)
  BY <1>1, NumbersAre DEF Chosen, Relisted
<1>3. Matched(y)
  BY <1>1 DEF Matched, Relisted, Range
<1>4. QED
  BY <1>2, <1>3 DEF Fresh, Relisted, Here

LEMMA RefreshFolderEntriesIs ==
  ASSUME NEW x, Whole(x)
  PROVE  LET y == RefreshFolderEntries(x)
         IN  Relisted(x, y) /\ Same(x, y) /\ y.prefix = x.prefix
<1> DEFINE l == Listed(x)
           y == [x EXCEPT !.list = l, !.selections = <<>>, !.refused = FALSE]
           G(e) == Relisted(x, e) /\ Same(x, e) /\ e.prefix = x.prefix
<1>1. x \in Browsers /\ <<>> \in Seq(Nat)
  BY DEF Whole
<1>2. /\ ListOK(l) /\ l \in ListRecords
      /\ \A i \in DOMAIN l.entries :
           l.entries[i].caddy = None /\ (x.devices => l.entries[i].name \in Volumes)
      /\ l.folder = Cwd(x)
  BY ListedIs DEF ListOK, Listed
<1>3. RefreshFolderEntries(x) = y
  BY DEF RefreshFolderEntries
<1> HIDE DEF l
<1>4. /\ y \in Browsers /\ y.list = l /\ y.selections = <<>> /\ ~y.refused /\ y.prefix = x.prefix
      /\ Same(x, y)
  BY <1>1, <1>2 DEF Browsers, Same
<1> HIDE DEF y
<1>5. Sound(y) /\ Cwd(y) = Cwd(x)
  BY <1>2, <1>4 DEF Sound, Whole, Same, Cwd
<1>6. Relisted(x, y)
  BY <1>2, <1>4, <1>5 DEF Relisted, Rooted, Same
<1>7. G(y)
  BY <1>4, <1>6
<1> HIDE DEF G
<1>8. G(RefreshFolderEntries(x))
  BY <1>7, <1>3
<1>9. QED
  BY <1>8 DEF G

LEMMA DrawnStays ==
  ASSUME NEW x, NEW y, Relisted(x, y)
  PROVE  Fresh(x, RefeshDisplay(y)) /\ Shown(RefeshDisplay(y)) /\ Relisted(x, RefeshDisplay(y))
         /\ Same(y, RefeshDisplay(y)) /\ Whole(RefeshDisplay(y))
<1> DEFINE z == RefeshDisplay(y)
<1>1. Sound(z) /\ Same(y, z) /\ SameList(y, z) /\ Shown(z)
  BY RefeshDisplayIs DEF Relisted
<1> HIDE DEF z
<1>2. Cwd(z) = Cwd(y)
  BY <1>1 DEF Same, Cwd
<1>3. Relisted(x, z)
  BY <1>1, <1>2 DEF Relisted, Rooted, Same, SameList
<1>4. QED
  BY <1>1, <1>3, RelistedIsFresh DEF z, Sound

LEMMA FolderChangedIs ==
  ASSUME NEW x, Whole(x)
  PROVE  /\ Fresh(x, FolderChanged(x)) /\ Shown(FolderChanged(x)) /\ Relisted(x, FolderChanged(x))
         /\ Same(x, FolderChanged(x))
<1> DEFINE y == RefreshFolderEntries(x)
<1>1. Relisted(x, y) /\ Same(x, y)
  BY RefreshFolderEntriesIs
<1>2. FolderChanged(x) = RefeshDisplay(y)
  BY DEF FolderChanged
<1> HIDE DEF y
<1>3. QED
  BY <1>1, <1>2, DrawnStays DEF Same

LEMMA MinIs ==
  ASSUME NEW S \in SUBSET Int, IsFiniteSet(S), S # {}
  PROVE  Min(S) \in S
<1>1. Cardinality(S) \in Nat /\ Cardinality(S) # 0
  BY FS_CardinalityType, FS_EmptySet
<1>2. PICK e \in S : Cardinality({f \in S : f < e}) = 1 - 1
  BY <1>1, NumberRanks
<1> DEFINE L == {f \in S : f < e}
<1>3. L \in SUBSET S /\ Cardinality(L) = 0
  BY <1>2
<1>4. \A f \in S : f < e => f \in L
  OBVIOUS
<1> HIDE DEF L
<1>5. L = {}
  BY <1>3, FS_Subset, FS_EmptySet
<1>6. \A f \in S : e <= f
  BY <1>4, <1>5
<1>7. QED
  BY <1>6 DEF Min

LEMMA PositionIs ==
  ASSUME NEW x, ListOK(x.list), NEW name
  PROVE  PositionOf(x, name) \in 0 .. End(x.list)
<1> DEFINE found == {i \in 0 .. End(x.list) : x.list.entries[i + 1].name = name}
<1>1. End(x.list) \in Nat
  BY ListIs
<1>2. found \in SUBSET (0 .. End(x.list)) /\ IsFiniteSet(0 .. End(x.list))
  BY <1>1, FS_Interval
<1>3. PositionOf(x, name) = IF found = {} THEN 0 ELSE Min(found)
  BY DEF PositionOf
<1> HIDE DEF found
<1>4. IsFiniteSet(found)
  BY <1>2, FS_Subset
<1>5. found \in SUBSET Int
  BY <1>1, <1>2
<1>6. CASE found = {}
  BY <1>1, <1>3, <1>6
<1>7. CASE found # {}
  <2>1. Min(found) \in found
    BY <1>4, <1>5, <1>7, MinIs
  <2> DEFINE m == Min(found)
  <2>2. m \in found /\ PositionOf(x, name) = m
    BY <1>3, <1>7, <2>1
  <2> HIDE DEF m
  <2>3. QED
    BY <1>2, <2>2
<1>8. QED
  BY <1>6, <1>7

\* Only the list is another, of the same entries.
LEMMA ListChanges ==
  ASSUME NEW x, Sound(x), NEW l, Alike(x.list, l)
  PROVE  LET y == [x EXCEPT !.list = l]
         IN  Sound(y) /\ Same(x, y) /\ SameList(x, y) /\ y.prefix = x.prefix /\ y.list = l
<1> DEFINE y == [x EXCEPT !.list = l]
<1>1. x \in Browsers /\ ListOK(l) /\ l \in ListRecords
  BY DEF Sound, Whole, Alike, ListOK
<1>2. y \in Browsers /\ y.list = l /\ Same(x, y) /\ y.prefix = x.prefix
      /\ y.selections = x.selections /\ y.refused = x.refused
  BY <1>1 DEF Browsers, Same
<1> SUFFICES Sound(y) /\ Same(x, y) /\ SameList(x, y) /\ y.prefix = x.prefix /\ y.list = l
  OBVIOUS
<1> HIDE DEF y
<1>3. QED
  BY <1>1, <1>2 DEF Sound, Whole, SameList, Alike

\* The entry at i is the current one.
LEMMA SelectedIs ==
  ASSUME NEW x, Sound(x), NEW i \in 0 .. End(x.list)
  PROVE  LET y == Selected(x, i)
         IN  Sound(y) /\ Same(x, y) /\ SameList(x, y) /\ y.prefix = x.prefix
<1> DEFINE l == MoveTo(x.list, i)
           y == [x EXCEPT !.list = l]
           G(e) == Sound(e) /\ Same(x, e) /\ SameList(x, e) /\ e.prefix = x.prefix
<1>1. Alike(x.list, l)
  BY MoveToIs DEF Sound
<1>2. Selected(x, i) = y
  BY DEF Selected
<1> HIDE DEF l
<1>3. G(y)
  BY <1>1, ListChanges
<1> HIDE DEF y, G
<1>4. G(Selected(x, i))
  BY <1>2, <1>3
<1>5. QED
  BY <1>4 DEF G

LEMMA SelectedStays ==
  ASSUME NEW x, NEW y, Relisted(x, y), NEW i \in 0 .. End(y.list)
  PROVE  Relisted(x, Selected(y, i))
<1> DEFINE z == Selected(y, i)
<1>1. Sound(z) /\ Same(y, z) /\ SameList(y, z)
  BY SelectedIs DEF Relisted
<1> HIDE DEF z
<1>2. Cwd(z) = Cwd(y)
  BY <1>1 DEF Same, Cwd
<1>3. Relisted(x, z)
  BY <1>1, <1>2 DEF Relisted, Rooted, Same, SameList
<1>4. QED
  BY <1>3 DEF z

\* Another folder or another device: what is on the screens stays.
Still(x, y) ==
  /\ y.list = x.list /\ y.selections = x.selections /\ y.refused = x.refused /\ y.prefix = x.prefix
  /\ y.drawn = x.drawn /\ y.missed = x.missed /\ y.caddy = x.caddy /\ y.made = x.made

LEMMA StillStays ==
  ASSUME NEW x, NEW y, Still(x, y), Whole(y)
  PROVE  /\ Sound(x) => Sound(y)
         /\ Chosen(x) => Chosen(y)
         /\ Matched(x) => Matched(y)
         /\ Shown(x) => Shown(y)
  BY DEF Still, Sound, Chosen, Matched, Shown, Picture

LEMMA ChdirIs ==
  ASSUME NEW x, Whole(x), NEW d, d \in Folders => d[1] = x.drive
  PROVE  Whole(Chdir(x, d)) /\ Still(x, Chdir(x, d)) /\ Chdir(x, d).drive = x.drive
         /\ Chdir(x, d).devices = x.devices /\ Chdir(x, d).files = x.files
         /\ Cwd(Chdir(x, d)) = IF d \in Folders THEN d ELSE Cwd(x)
<1>1. x \in Browsers /\ x.cwd \in Cwds /\ x.drive \in Volumes
  BY CwdIs DEF Whole
<1>2. CASE d \in Folders
  <2> DEFINE c == [x.cwd EXCEPT ![x.drive] = d]
             y == [x EXCEPT !.cwd = c]
  <2>1. Chdir(x, d) = y
    BY <1>1, <1>2 DEF Chdir, Browsers
  <2>2. c \in Cwds /\ c[x.drive] = d
    BY <1>1, <1>2 DEF Cwds
  <2> HIDE DEF c
  <2>3. y \in Browsers /\ Still(x, y) /\ y.cwd = c /\ y.drive = x.drive /\ y.devices = x.devices
        /\ y.files = x.files
    BY <1>1, <2>2 DEF Browsers, Still
  <2> HIDE DEF y
  <2>4. Whole(y) /\ Cwd(y) = d
    BY <2>2, <2>3 DEF Whole, Still, Cwd
  <2>5. QED
    BY <1>2, <2>1, <2>3, <2>4
<1>3. CASE d \notin Folders
  BY <1>3 DEF Chdir, Still
<1>4. QED
  BY <1>2, <1>3

LEMMA SwitchToIs ==
  ASSUME NEW x, Whole(x), NEW d \in Volumes
  PROVE  Whole(SwitchTo(x, d)) /\ Still(x, SwitchTo(x, d))
<1> DEFINE y == [x EXCEPT !.drive = d, !.devices = FALSE]
<1>1. x \in Browsers
  BY DEF Whole
<1>2. y \in Browsers /\ Still(x, y)
  BY <1>1 DEF Browsers, Still
<1> HIDE DEF y
<1>3. Whole(y)
  BY <1>2 DEF Whole, Still
<1>4. SwitchTo(x, d) = y
  BY DEF SwitchTo, y
<1>5. QED
  BY <1>2, <1>3, <1>4

LEMMA DisplayRootIs ==
  ASSUME NEW x, Whole(x)
  PROVE  Fresh(x, DisplayRoot(x)) /\ Shown(DisplayRoot(x))
<1> DEFINE y == Chdir(x, <<x.drive, Home>>)
<1>1. Whole(y) /\ Still(x, y)
  BY ChdirIs
<1>2. DisplayRoot(x) = FolderChanged(y)
  BY DEF DisplayRoot
<1> HIDE DEF y
<1>3. Fresh(y, FolderChanged(y)) /\ Shown(FolderChanged(y))
  BY <1>1, FolderChangedIs
<1>4. QED
  BY <1>1, <1>2, <1>3 DEF Fresh, Still

LEMMA FrontIs ==
  ASSUME NEW s \in Seq(Nat), Len(s) \in Nat \ {0, 1}
  PROVE  Front(s)[1] = s[1]
<1>1. 1 \in 1 .. Len(s) - 1
  <2> DEFINE n == Len(s)
  <2>1. n \in Nat \ {0, 1}
    OBVIOUS
  <2> HIDE DEF n
  <2>2. 1 \in 1 .. n - 1
    BY <2>1
  <2>3. QED
    BY <2>2 DEF n
<1>2. QED
  BY <1>1 DEF Front

\* The folder above, or the devices.
LEMMA PopFolderIs ==
  ASSUME NEW x, Whole(x)
  PROVE  Fresh(x, PopFolder(x)) /\ Shown(PopFolder(x))
<1>1. x \in Browsers /\ Cwd(x) \in Folders /\ Cwd(x)[1] = x.drive
  BY CwdIs DEF Whole
<1>2. CASE Len(Cwd(x)) = 1
  <2> DEFINE w == [x EXCEPT !.devices = TRUE]
             y == RefreshFolderEntries(w)
             p == PositionOf(y, x.drive)
  <2>1. PopFolder(x) = RefeshDisplay(Selected(y, p))
    BY <1>2 DEF PopFolder
  <2>2. w \in Browsers /\ Still(x, w)
    BY <1>1 DEF Browsers, Still
  <2> HIDE DEF w
  <2>3. Whole(w)
    BY <2>2 DEF Whole, Still
  <2>4. Relisted(w, y)
    BY <2>3, RefreshFolderEntriesIs
  <2>5. Relisted(x, y)
    BY <2>2, <2>4 DEF Relisted, Still
  <2> HIDE DEF y
  <2>6. p \in 0 .. End(y.list)
    BY <2>5, PositionIs DEF Relisted, Sound
  <2> HIDE DEF p
  <2>7. QED
    BY <2>1, <2>5, <2>6, SelectedStays, DrawnStays
<1>3. CASE Len(Cwd(x)) # 1
  <2> DEFINE d == Front(Cwd(x))
             w == Chdir(x, d)
             y == RefreshFolderEntries(w)
             p == PositionOf(y, Last(Cwd(x)))
  <2>1. PopFolder(x) = RefeshDisplay(IF p = 0 THEN y ELSE Selected(y, p))
    BY <1>3 DEF PopFolder
  <2>2. d[1] = x.drive
    <3>1. Cwd(x) \in Seq(Nat) /\ Len(Cwd(x)) \in Nat \ {0, 1}
      BY <1>1, <1>3, FoldersAre
    <3>2. d[1] = Cwd(x)[1]
      BY <3>1, FrontIs
    <3>3. QED
      BY <1>1, <3>2
  <2> HIDE DEF d
  <2>3. Whole(w) /\ Still(x, w)
    BY <2>2, ChdirIs
  <2> HIDE DEF w
  <2>4. Relisted(w, y)
    BY <2>3, RefreshFolderEntriesIs
  <2>5. Relisted(x, y)
    BY <2>3, <2>4 DEF Relisted, Still
  <2> HIDE DEF y
  <2>6. p \in 0 .. End(y.list)
    BY <2>5, PositionIs DEF Relisted, Sound
  <2> HIDE DEF p
  <2>7. QED
    BY <2>1, <2>5, <2>6, SelectedStays, DrawnStays
<1>4. QED
  BY <1>2, <1>3

-----------------------------------------------------------------------------
(* Selections *)

\* The list bears other numbers, or another attribute.
Remarked(l, m) ==
  /\ m \in ListRecords /\ m.at = l.at /\ m.cur = l.cur /\ m.folder = l.folder /\ m.offset = l.offset
  /\ Len(m.entries) = Len(l.entries)
  /\ \A i \in DOMAIN l.entries :
       m.entries[i].name = l.entries[i].name /\ m.entries[i].kind = l.entries[i].kind

LEMMA RemarkedIs ==
  ASSUME NEW l, ListOK(l), NEW m, Remarked(l, m)
  PROVE  ListOK(m) /\ ImageNames(m) = ImageNames(l) /\ Numbers(m) = Numbers(l)
<1>1. /\ Len(l.entries) \in Nat \ {0} /\ DOMAIN l.entries = 1 .. Len(l.entries)
  BY ListIs
<1>2. m.entries \in Seq(Entries) /\ DOMAIN m.entries = DOMAIN l.entries /\ m.entries # <<>>
  BY <1>1 DEF Remarked, ListRecords
<1>3. \A i \in DOMAIN l.entries : IsImage(m.entries[i]) <=> IsImage(l.entries[i])
  BY DEF Remarked, IsImage
<1>4. Distinct(m.entries)
  <2>1. Distinct(l.entries)
    BY DEF ListOK
  <2>2. ASSUME NEW i \in DOMAIN m.entries, NEW j \in DOMAIN m.entries,
               IsImage(m.entries[i]), IsImage(m.entries[j]), m.entries[i].name = m.entries[j].name
        PROVE  i = j
    <3>1. i \in DOMAIN l.entries /\ j \in DOMAIN l.entries
      BY <1>2
    <3>2. IsImage(l.entries[i]) /\ IsImage(l.entries[j]) /\ l.entries[i].name = l.entries[j].name
      BY <1>3, <2>2, <3>1 DEF Remarked
    <3>3. QED
      BY <2>1, <3>1, <3>2 DEF Distinct
  <2>3. QED
    BY <2>2 DEF Distinct
<1>5. End(m) = End(l)
  BY DEF Remarked, End
<1>6. ListOK(m)
  BY <1>2, <1>4, <1>5 DEF ListOK, Remarked
<1>7. ImageNames(m) = ImageNames(l)
  <2>1. /\ ImageNames(l) = {l.entries[i].name : i \in {i \in DOMAIN l.entries : IsImage(l.entries[i])}}
        /\ ImageNames(m) = {m.entries[i].name : i \in {i \in DOMAIN m.entries : IsImage(m.entries[i])}}
    BY <1>6, NumbersAre
  <2>2. \A i \in DOMAIN l.entries : m.entries[i].name = l.entries[i].name
    BY DEF Remarked
  <2>3. QED
    BY <1>2, <1>3, <2>1, <2>2
<1>8. QED
  BY <1>6, <1>7 DEF Numbers

\* There are at most as many selections as images.
LEMMA SelectionsFit ==
  ASSUME NEW x, Sound(x), Chosen(x)
  PROVE  Len(x.selections) \in Numbers(x.list) /\ Len(x.selections) \in Nat
<1> DEFINE s == x.selections
           N == ImageNames(x.list)
           n == Len(s)
           D == 1 .. n
<1>1. s \in Seq(Nat) /\ n \in Nat /\ DOMAIN s = D
  BY DEF Sound, Whole, Browsers
<1>2. IsFiniteSet(N) /\ Cardinality(N) \in Nat
  BY NumbersAre DEF Sound
<1> HIDE DEF n, D
<1>3. s \in [D -> N] /\ \A i, j \in D : s[i] = s[j] => i = j
  <2>1. /\ \A i, j \in D : s[i] = s[j] => i = j
        /\ \A i \in D : s[i] \in N
    BY <1>1 DEF Chosen
  <2> HIDE DEF s, N
  <2>2. s = [i \in D |-> s[i]]
    BY <1>1
  <2>3. QED
    BY <2>1, <2>2
<1> HIDE DEF s, N
<1>4. Cardinality(D) = n
  BY <1>1, FS_Interval DEF D
<1>5. s \in Injection(D, N)
  BY <1>3 DEF Injection, IsInjective
<1>6. Cardinality(D) <= Cardinality(N)
  BY <1>2, <1>5, FS_Injection
<1>7. QED
  BY <1>1, <1>2, <1>4, <1>6 DEF Numbers, None, N, s, n

\* What the numbers mean, place by place.
LEMMA MatchedIs ==
  ASSUME NEW x
  PROVE  Matched(x) <=>
           /\ \A k \in DOMAIN x.list.entries :
                x.list.entries[k].caddy # None =>
                  /\ x.list.entries[k].caddy + 1 \in DOMAIN x.selections
                  /\ x.selections[x.list.entries[k].caddy + 1] = x.list.entries[k].name
           /\ \A i \in DOMAIN x.selections :
                \E k \in DOMAIN x.list.entries :
                  x.list.entries[k].name = x.selections[i] /\ x.list.entries[k].caddy = i - 1
  BY DEF Matched, Range

LEMMA EntryIs ==
  ASSUME NEW e \in Entries, NEW n \in Int
  PROVE  LET d == [e EXCEPT !.caddy = n]
         IN  d \in Entries /\ d.name = e.name /\ d.kind = e.kind /\ d.caddy = n
  BY DEF Entries

\* What choosing an entry leaves alone.
Beside(x, y) ==
  /\ Same(x, y) /\ y.refused = x.refused /\ y.prefix = x.prefix
  /\ y.list.folder = x.list.folder /\ Len(y.list.entries) = Len(x.list.entries)
  /\ DOMAIN y.list.entries = DOMAIN x.list.entries
  /\ \A i \in DOMAIN x.list.entries : y.list.entries[i].name = x.list.entries[i].name

LEMMA AddImageIs ==
  ASSUME NEW x, Sound(x), Chosen(x), NEW i \in 0 .. End(x.list)
  PROVE  LET y == AddImageToCaddy(x, i)
         IN  Sound(y) /\ Chosen(y) /\ Beside(x, y) /\ (Matched(x) => Matched(y))
<1> DEFINE G(z) == Sound(z) /\ Chosen(z) /\ Beside(x, z) /\ (Matched(x) => Matched(z))
           l  == x.list
           k  == i + 1
           e  == l.entries[k]
           s  == x.selections
           n  == Len(s)
           d  == [e EXCEPT !.caddy = n]
           es == [l.entries EXCEPT ![k] = d]
           m  == [l EXCEPT !.entries = es]
           t  == Append(s, e.name)
           y  == [x EXCEPT !.list = m, !.selections = t]
<1>1. CASE e \notin Images(l) \/ e.name \in Range(s)
  <2>1. AddImageToCaddy(x, i) = x
    BY <1>1 DEF AddImageToCaddy
  <2>2. G(x)
    BY DEF Beside, Same
  <2> HIDE DEF G
  <2>3. G(AddImageToCaddy(x, i))
    BY <2>1, <2>2
  <2>4. QED
    BY <2>3 DEF G
<1>2. CASE ~(e \notin Images(l) \/ e.name \in Range(s))
  <2>1. /\ x \in Browsers /\ ListOK(l) /\ l \in ListRecords /\ l.entries \in Seq(Entries)
        /\ DOMAIN l.entries = 1 .. Len(l.entries) /\ Len(l.entries) \in Nat \ {0}
        /\ k \in DOMAIN l.entries /\ e \in Entries
        /\ s \in Seq(Nat) /\ n \in Nat /\ n \in Numbers(l) /\ DOMAIN s = 1 .. n
    <3>1. x \in Browsers /\ ListOK(l)
      BY DEF Sound, Whole
    <3>2. s \in Seq(Nat) /\ n \in Nat /\ n \in Numbers(l) /\ DOMAIN s = 1 .. n
      BY <3>1, SelectionsFit DEF Browsers
    <3>3. /\ l \in ListRecords /\ l.entries \in Seq(Entries)
          /\ DOMAIN l.entries = 1 .. Len(l.entries) /\ Len(l.entries) \in Nat \ {0}
          /\ End(l) = Len(l.entries) - 1 /\ \A j \in DOMAIN l.entries : l.entries[j] \in Entries
      BY <3>1, ListIs
    <3>4. k \in DOMAIN l.entries
      BY <3>3
    <3>5. QED
      BY <3>1, <3>2, <3>3, <3>4
  <2>2. AddImageToCaddy(x, i) = y
    <3>1. AddImageToCaddy(x, i) = [x EXCEPT !.list.entries[i + 1].caddy = Len(x.selections),
                                           !.selections = Append(@, e.name)]
      BY <1>2 DEF AddImageToCaddy
    <3>2. QED
      BY <2>1, <3>1 DEF Browsers, ListRecords, Entries
  <2>3. d \in Entries /\ d.name = e.name /\ d.kind = e.kind /\ d.caddy = n
    BY <2>1, EntryIs
  <2>4. e \in Images(l) /\ e.name \in ImageNames(l) /\ e.name \in Nat /\ \A j \in DOMAIN s : s[j] # e.name
    BY <1>2, <2>1 DEF ImageNames, Range, Entries
  <2>5. t \in Seq(Nat) /\ DOMAIN t = 1 .. n + 1 /\ t[n + 1] = e.name /\ \A j \in 1 .. n : t[j] = s[j]
    BY <2>1, <2>4
  <2> HIDE DEF d
  <2>6. /\ es \in Seq(Entries) /\ Len(es) = Len(l.entries) /\ DOMAIN es = DOMAIN l.entries
        /\ es[k] = d /\ \A j \in DOMAIN l.entries : j # k => es[j] = l.entries[j]
    BY <2>1, <2>3
  <2> HIDE DEF es
  <2>7. m \in ListRecords /\ m.entries = es /\ Remarked(l, m)
    BY <2>1, <2>3, <2>6 DEF ListRecords, Remarked
  <2> HIDE DEF m
  <2>8. ListOK(m) /\ ImageNames(m) = ImageNames(l) /\ Numbers(m) = Numbers(l)
    BY <2>1, <2>7, RemarkedIs
  <2> HIDE DEF t, s, l
  <2>9. y \in Browsers /\ y.list = m /\ y.selections = t /\ Same(x, y) /\ y.refused = x.refused
        /\ y.prefix = x.prefix
    BY <2>1, <2>5, <2>7 DEF Browsers, Same
  <2>10. s = x.selections /\ l = x.list
    BY DEF s, l
  <2> HIDE DEF y
  <2>11. Sound(y)
    BY <2>8, <2>9 DEF Sound, Whole
  <2>12. Beside(x, y)
    BY <2>6, <2>7, <2>9, <2>10 DEF Beside, Remarked
  <2> HIDE DEF k, n, e
  <2>13. Chosen(y)
    <3>1. \A a, c \in DOMAIN t : t[a] = t[c] => a = c
      <4>1. \A a, c \in 1 .. n : s[a] = s[c] => a = c
        BY <2>1, <2>10 DEF Chosen
      <4>2. \A j \in 1 .. n : t[j] # t[n + 1]
        BY <2>1, <2>4, <2>5
      <4>3. ASSUME NEW a \in 1 .. n + 1, NEW c \in 1 .. n + 1, t[a] = t[c] PROVE a = c
        <5>1. CASE a # n + 1 /\ c # n + 1
          <6>1. a \in 1 .. n /\ c \in 1 .. n
            BY <2>1, <5>1
          <6>2. t[a] = s[a]
            BY <2>5, <6>1
          <6>3. t[c] = s[c]
            BY <2>5, <6>1
          <6>4. QED
            BY <4>1, <4>3, <6>1, <6>2, <6>3
        <5>2. CASE a = n + 1 \/ c = n + 1
          <6>1. (a \in 1 .. n \/ a = n + 1) /\ (c \in 1 .. n \/ c = n + 1)
            BY <2>1
          <6>2. QED
            BY <4>3, <4>2, <5>2, <6>1
        <5>3. QED
          BY <5>1, <5>2
      <4>4. QED
        BY <2>5, <4>3
    <3>2. \A a \in DOMAIN t : t[a] \in ImageNames(m)
      <4>1. \A a \in 1 .. n : s[a] \in ImageNames(l)
        BY <2>1, <2>10 DEF Chosen
      <4> DEFINE N == ImageNames(l)
      <4> HIDE DEF N
      <4>2. ASSUME NEW a \in 1 .. n + 1 PROVE t[a] \in N
        <5>1. CASE a = n + 1
          BY <2>4, <2>5, <5>1 DEF N
        <5>2. CASE a # n + 1
          <6>1. a \in 1 .. n
            BY <2>1, <5>2
          <6>2. QED
            BY <2>5, <4>1, <6>1 DEF N
        <5>3. QED
          BY <5>1, <5>2
      <4>3. QED
        BY <2>5, <2>8, <4>2 DEF N
    <3>3. \A a \in DOMAIN es : es[a].caddy \in Numbers(m)
      <4>1. \A a \in DOMAIN l.entries : l.entries[a].caddy \in Numbers(l)
        BY <2>10 DEF Chosen
      <4>2. QED
        BY <2>1, <2>3, <2>6, <2>8, <4>1
    <3>4. QED
      BY <2>7, <2>9, <3>1, <3>2, <3>3 DEF Chosen
  <2>14. ASSUME Matched(x) PROVE Matched(y)
    <3>1. /\ \A a \in DOMAIN l.entries :
               l.entries[a].caddy # None =>
                 l.entries[a].caddy + 1 \in DOMAIN s /\ s[l.entries[a].caddy + 1] = l.entries[a].name
          /\ \A a \in DOMAIN s :
               \E c \in DOMAIN l.entries : l.entries[c].name = s[a] /\ l.entries[c].caddy = a - 1
      BY <2>10, <2>14, MatchedIs
    <3>2. ASSUME NEW a \in DOMAIN es, es[a].caddy # None
          PROVE  es[a].caddy + 1 \in DOMAIN t /\ t[es[a].caddy + 1] = es[a].name
      <4>1. CASE a = k
        BY <2>1, <2>3, <2>5, <2>6, <4>1
      <4>2. CASE a # k
        <5>1. es[a] = l.entries[a] /\ a \in DOMAIN l.entries
          BY <2>6, <4>2
        <5>2. es[a].caddy + 1 \in DOMAIN s /\ s[es[a].caddy + 1] = es[a].name
          BY <3>1, <3>2, <5>1
        <5>3. QED
          BY <2>1, <2>5, <5>2
      <4>3. QED
        BY <4>1, <4>2
    <3>3. ASSUME NEW a \in DOMAIN t
          PROVE  \E c \in DOMAIN es : es[c].name = t[a] /\ es[c].caddy = a - 1
      <4>1. CASE a = n + 1
        <5>1. es[k].name = t[a] /\ es[k].caddy = a - 1 /\ k \in DOMAIN es
          BY <2>1, <2>3, <2>5, <2>6, <4>1
        <5>2. QED
          BY <5>1
      <4>2. CASE a # n + 1
        <5>1. a \in DOMAIN s /\ t[a] = s[a]
          BY <2>1, <2>5, <4>2
        <5>2. PICK c \in DOMAIN l.entries : l.entries[c].name = s[a] /\ l.entries[c].caddy = a - 1
          BY <3>1, <5>1
        <5>3. c # k
          BY <2>4, <5>1, <5>2 DEF e
        <5>4. QED
          BY <2>6, <5>1, <5>2, <5>3
      <4>3. QED
        BY <4>1, <4>2
    <3>4. QED
      BY <2>7, <2>9, <3>2, <3>3, MatchedIs
  <2>15. G(y)
    BY <2>11, <2>12, <2>13, <2>14
  <2> HIDE DEF G
  <2>16. G(AddImageToCaddy(x, i))
    BY <2>2, <2>15
  <2>17. QED
    BY <2>16 DEF G
<1>3. QED
  BY <1>1, <1>2

LEMMA ChosenStays ==
  ASSUME NEW x, NEW y, SameList(x, y)
  PROVE  (Chosen(x) => Chosen(y)) /\ (Matched(x) => Matched(y))
<1>1. Numbers(y.list) = Numbers(x.list) /\ ImageNames(y.list) = ImageNames(x.list)
  BY SameEntries DEF SameList
<1>2. QED
  BY <1>1 DEF Chosen, Matched, SameList

\* The entries of a folder are added to the caddy one after the other.
LEMMA AddFolderIs ==
  ASSUME NEW x, Whole(x)
  PROVE  Fresh(x, AddFolder(x)) /\ Shown(AddFolder(x))
<1> DEFINE y == FolderChanged(x)
           last == Len(y.list.entries)
           P(z) == Sound(z) /\ Chosen(z) /\ Matched(z) /\ Beside(y, z)
           T == {z \in Browsers : P(z)}
           Step(z, n) == AddImageToCaddy(z, n - 1)
           step == [p \in Nat \X T |-> IF p[1] \in 1 .. last THEN Step(p[2], p[1]) ELSE p[2]]
           Is(f) == f = [n \in 0 .. last |-> IF n = 0 THEN y ELSE Step(f[n - 1], n)]
           added == CHOOSE g : Is(g)
           z == added[last]
<1>1. AddFolder(x) = RefeshDisplay(Selected(z, End(y.list)))
  BY DEF AddFolder
<1>2. Fresh(x, y)
  BY FolderChangedIs
<1>3. last \in Nat /\ End(y.list) = last - 1 /\ End(y.list) \in Nat
  BY <1>2, ListIs DEF Fresh, Sound
<1> HIDE DEF y
<1>4. P(y) /\ y \in Browsers /\ \A w : P(w) => w \in Browsers
  BY <1>2 DEF Fresh, Beside, Same, Sound, Whole
<1>5. ASSUME NEW w, P(w), NEW n \in 1 .. last PROVE P(Step(w, n))
  <2>1. n - 1 \in 0 .. End(w.list)
    BY <1>3, <1>5 DEF Beside, End
  <2> DEFINE v == AddImageToCaddy(w, n - 1)
  <2>2. Sound(v) /\ Chosen(v) /\ Beside(w, v) /\ Matched(v)
    BY <1>5, <2>1, AddImageIs
  <2> HIDE DEF v
  <2>3. Beside(y, v)
    BY <1>5, <2>2 DEF Beside, Same
  <2>4. P(v)
    BY <2>2, <2>3
  <2> HIDE DEF P
  <2>5. QED
    BY <2>4 DEF v
<1>6. \A w : P(w) <=> w \in T
  BY <1>4
<1> HIDE DEF P, T, Step, last
<1>7. step \in [Nat \X T -> T]
  <2>1. ASSUME NEW p \in Nat \X T
        PROVE  (IF p[1] \in 1 .. last THEN Step(p[2], p[1]) ELSE p[2]) \in T
    BY <1>5, <1>6
  <2>2. QED
    BY <2>1
<1>8. \A n \in 1 .. last, w \in T : step[<<n, w>>] = Step(w, n)
  BY <1>3
<1> HIDE DEF step
<1>9. PICK f \in [0 .. last -> T] : f[0] = y /\ \A n \in 1 .. last : f[n] = step[<<n, f[n - 1]>>]
  <2>1. \E f : Recursive(f, T, y, step, last)
    BY <1>3, <1>4, <1>6, <1>7, FiniteRecursion
  <2>2. QED
    BY <2>1 DEF Recursive
<1>10. \A n \in 1 .. last : f[n] = Step(f[n - 1], n)
  <2>1. ASSUME NEW n \in 1 .. last PROVE f[n] = Step(f[n - 1], n)
    <3>1. n - 1 \in 0 .. last
      BY <1>3
    <3>2. f[n - 1] \in T /\ f[n] = step[<<n, f[n - 1]>>]
      BY <1>9, <3>1
    <3>3. QED
      BY <1>8, <3>2
  <2>2. QED
    BY <2>1
<1>11. Is(f)
  <2>1. ASSUME NEW n \in 0 .. last PROVE f[n] = IF n = 0 THEN y ELSE Step(f[n - 1], n)
    <3>1. CASE n = 0
      BY <1>9, <3>1
    <3>2. CASE n # 0
      <4>1. n \in 1 .. last
        BY <1>3, <3>2
      <4>2. QED
        BY <1>10, <3>2, <4>1
    <3>3. QED
      BY <3>1, <3>2
  <2>2. QED
    BY <1>9, <2>1
<1>12. Is(added)
  BY <1>11
<1> HIDE DEF added
<1>13. added[0] = y /\ \A n \in 1 .. last : added[n] = Step(added[n - 1], n)
  BY <1>3, <1>12
<1> DEFINE S == {n \in Nat : n <= last => P(added[n])}
<1>14. 0 \in S
  BY <1>4, <1>13
<1>15. ASSUME NEW n \in Nat, n \in S PROVE n + 1 \in S
  <2>1. SUFFICES ASSUME n + 1 <= last PROVE P(added[n + 1])
    OBVIOUS
  <2>2. n + 1 \in 1 .. last /\ (n + 1) - 1 = n /\ n <= last
    BY <1>3, <2>1
  <2>3. P(added[n])
    BY <1>15, <2>2
  <2>4. added[n + 1] = Step(added[n], n + 1)
    BY <1>13, <2>2
  <2>5. QED
    BY <1>5, <2>2, <2>3, <2>4
<1>16. last \in S
  <2> HIDE DEF S
  <2>1. QED
    BY <1>3, <1>14, <1>15, SetInduction
<1>17. P(z)
  BY <1>16
<1> HIDE DEF z
<1>18. Sound(z) /\ Chosen(z) /\ Matched(z) /\ Beside(y, z)
  BY <1>17 DEF P
<1> DEFINE u == Selected(z, End(y.list))
           w == RefeshDisplay(u)
<1>19. End(y.list) \in 0 .. End(z.list)
  BY <1>3, <1>18 DEF Beside, End, last
<1>20. Sound(u) /\ Same(z, u) /\ SameList(z, u)
  BY <1>18, <1>19, SelectedIs
<1>21. AddFolder(x) = w
  BY <1>1
<1> HIDE DEF u
<1>22. Sound(w) /\ Same(u, w) /\ SameList(u, w) /\ Shown(w)
  BY <1>20, RefeshDisplayIs
<1> HIDE DEF w
<1>23. Same(z, w) /\ SameList(z, w)
  BY <1>20, <1>22 DEF Same, SameList
<1>24. Chosen(w) /\ Matched(w)
  BY <1>18, <1>23, ChosenStays
<1>25. QED
  BY <1>2, <1>18, <1>21, <1>22, <1>23, <1>24 DEF Fresh, Beside, Same, SameList, Here, Rooted, Cwd

-----------------------------------------------------------------------------
(* The caddy *)

InFolder(x) == \A i \in DOMAIN x.caddy : x.caddy[i].folder = Cwd(x)

\* Before a key, or after it: what is in the caddy is of the current folder, and the
\* emulation of it begins; and if nothing is, the numbers are right.
Settled(x) ==
  /\ Sound(x) /\ Chosen(x) /\ Here(x) /\ Rooted(x) /\ InFolder(x)
  /\ x.caddy = <<>> /\ ~x.refused => Matched(x)
  /\ x.caddy # <<>> => x.made
Fine(x)  == Settled(x) /\ Shown(x)
Ready(x) == Fine(x) /\ x.caddy = <<>>

LEMMA FreshIsFine ==
  ASSUME NEW x, x.caddy = <<>>, NEW y, Fresh(x, y)
  PROVE  Settled(y) /\ (Shown(y) => Ready(y))
<1>1. InFolder(y)
  BY DEF InFolder, Fresh
<1>2. QED
  BY <1>1 DEF Settled, Fine, Ready, Fresh

LEMMA DrawnIsFine ==
  ASSUME NEW x, Settled(x)
  PROVE  Fine(RefeshDisplay(x)) /\ (x.caddy = <<>> => Ready(RefeshDisplay(x)))
<1> DEFINE y == RefeshDisplay(x)
<1>1. Sound(y) /\ Same(x, y) /\ SameList(x, y) /\ Shown(y)
  BY RefeshDisplayIs DEF Settled
<1> HIDE DEF y
<1>2. Chosen(y) /\ (Matched(x) => Matched(y))
  BY <1>1, ChosenStays DEF Settled
<1>3. Here(y) /\ Rooted(y) /\ InFolder(y)
  BY <1>1 DEF Settled, Here, Rooted, InFolder, Same, SameList, Cwd
<1>4. QED
  BY <1>1, <1>2, <1>3 DEF Fine, Ready, Settled, Same, SameList, y

\* Two states that differ in the caddy.
Beneath(x, y) ==
  /\ y.list = x.list /\ y.selections = x.selections /\ y.refused = x.refused /\ y.prefix = x.prefix
  /\ y.drawn = x.drawn /\ y.missed = x.missed /\ y.cwd = x.cwd /\ y.drive = x.drive
  /\ y.devices = x.devices /\ y.files = x.files

LEMMA InsertIs ==
  ASSUME NEW x, Whole(x), x.caddy = <<>>, NEW names \in Seq(Nat)
  PROVE  LET y == Insert(x, names)
         IN  Whole(y) /\ Beneath(x, y) /\ y.made = x.made /\ InFolder(y) /\ (y.caddy = <<>> <=> names = <<>>)
<1> DEFINE c == [i \in DOMAIN names |-> [folder |-> Cwd(x), name |-> names[i]]]
           y == [x EXCEPT !.caddy = c]
           G(z) == Whole(z) /\ Beneath(x, z) /\ z.made = x.made /\ InFolder(z) /\ (z.caddy = <<>> <=> names = <<>>)
<1>1. x \in Browsers /\ Cwd(x) \in Folders
  BY CwdIs DEF Whole
<1>2. DOMAIN names = 1 .. Len(names) /\ Len(names) \in Nat
  OBVIOUS
<1>3. c \in Seq(Places) /\ Len(c) = Len(names)
      /\ \A i \in DOMAIN c : c[i].folder = Cwd(x)
  <2>1. \A i \in 1 .. Len(names) : [folder |-> Cwd(x), name |-> names[i]] \in Places
    BY <1>1 DEF Places
  <2>2. c \in [1 .. Len(names) -> Places]
    BY <1>2, <2>1
  <2>3. \A i \in DOMAIN c : c[i].folder = Cwd(x)
    OBVIOUS
  <2> HIDE DEF c
  <2>4. QED
    BY <1>2, <2>2, <2>3
<1>4. Insert(x, names) = [x EXCEPT !.caddy = @ \o c]
  BY DEF Insert
<1> HIDE DEF c
<1>5. <<>> \o c = c
  BY <1>3
<1>6. Insert(x, names) = y
  BY <1>1, <1>4, <1>5 DEF Browsers
<1>7. y \in Browsers /\ Beneath(x, y) /\ y.made = x.made /\ y.caddy = c
  BY <1>1, <1>3 DEF Browsers, Beneath
<1> HIDE DEF y
<1>8. Cwd(y) = Cwd(x) /\ Whole(y)
  BY <1>7 DEF Beneath, Cwd, Whole
<1>9. c = <<>> <=> names = <<>>
  BY <1>2, <1>3
<1>10. G(y)
  BY <1>3, <1>7, <1>8, <1>9 DEF InFolder
<1> HIDE DEF G
<1>11. G(Insert(x, names))
  BY <1>6, <1>10
<1>12. QED
  BY <1>11 DEF G

\* What can be read of the selections is in the caddy.
LEMMA FillIs ==
  ASSUME NEW x, Sound(x), Chosen(x), Here(x), x.caddy = <<>>
  PROVE  LET y == FillCaddyWithSelections(x)
         IN  /\ Sound(y) /\ Chosen(y) /\ Here(y) /\ InFolder(y)
             /\ y.list = x.list /\ y.drawn = x.drawn /\ y.missed = x.missed /\ y.prefix = x.prefix
             /\ y.devices = x.devices
             /\ y.made = (x.selections # <<>>) /\ (y.caddy = <<>> <=> y.selections = <<>>)
             /\ y.caddy # <<>> => y.made
             /\ ~y.refused => y.selections = x.selections /\ ~x.refused
             /\ y.selections # x.selections => y.refused
<1> DEFINE s == x.selections
           there == {n \in Range(s) : Readable(x, n)}
           good == Kept(s, there)
           v == Insert(x, good)
           y == [v EXCEPT !.selections = good, !.made = s # <<>>, !.refused = @ \/ good # s]
           G(z) == /\ Sound(z) /\ Chosen(z) /\ Here(z) /\ InFolder(z)
                   /\ z.list = x.list /\ z.drawn = x.drawn /\ z.missed = x.missed /\ z.prefix = x.prefix
                   /\ z.devices = x.devices
                   /\ z.made = (x.selections # <<>>) /\ (z.caddy = <<>> <=> z.selections = <<>>)
                   /\ z.caddy # <<>> => z.made
                   /\ ~z.refused => z.selections = x.selections /\ ~x.refused
                   /\ z.selections # x.selections => z.refused
<1>1. FillCaddyWithSelections(x) = y
  BY DEF FillCaddyWithSelections
<1>2. s \in Seq(Nat) /\ Whole(x)
  BY DEF Sound, Whole, Browsers
<1>3. /\ good \in Seq(Nat)
      /\ \A i \in DOMAIN good : \E j \in DOMAIN s : good[i] = s[j]
      /\ \A i, j \in DOMAIN good : good[i] = good[j] => i = j
  <2>1. \A i, j \in DOMAIN s : s[i] = s[j] => i = j
    BY DEF Chosen
  <2> HIDE DEF s, there
  <2>2. /\ good \in Seq(Nat)
        /\ \A i \in DOMAIN good : good[i] \in there /\ \E j \in DOMAIN s : good[i] = s[j]
        /\ (\A i, j \in DOMAIN s : s[i] = s[j] => i = j)
             => \A i, j \in DOMAIN good : good[i] = good[j] => i = j
    BY <1>2, KeptIs, Zenon
  <2> HIDE DEF good
  <2>3. QED
    BY <2>1, <2>2
<1> HIDE DEF good
<1>4. s = <<>> => good = <<>>
  <2>1. ASSUME s = <<>> PROVE good = <<>>
    <3>1. DOMAIN s = {}
      BY <2>1
    <3>2. 1 \notin DOMAIN good
      BY <1>3, <3>1
    <3>3. QED
      BY <1>3, <3>2
  <2>2. QED
    BY <2>1
<1>5. Whole(v) /\ Beneath(x, v) /\ InFolder(v) /\ (v.caddy = <<>> <=> good = <<>>)
  BY <1>2, <1>3, InsertIs
<1> HIDE DEF v
<1>6. /\ y \in Browsers /\ y.selections = good /\ y.made = (s # <<>>) /\ y.refused = (v.refused \/ good # s)
      /\ y.list = v.list /\ y.caddy = v.caddy /\ y.cwd = v.cwd /\ y.drive = v.drive /\ y.prefix = v.prefix
      /\ y.drawn = v.drawn /\ y.missed = v.missed /\ y.devices = v.devices
  BY <1>3, <1>5 DEF Whole, Browsers
<1> HIDE DEF y
<1>7. Sound(y)
  BY <1>5, <1>6 DEF Sound, Whole, Beneath
<1>8. Chosen(y)
  BY <1>3, <1>5, <1>6 DEF Chosen, Beneath
<1>9. Here(y) /\ InFolder(y)
  BY <1>5, <1>6 DEF Here, InFolder, Beneath, Cwd
<1>10. G(y)
  BY <1>4, <1>5, <1>6, <1>7, <1>8, <1>9 DEF Beneath
<1> HIDE DEF G
<1>11. G(FillCaddyWithSelections(x))
  BY <1>1, <1>10
<1>12. QED
  BY <1>11 DEF G

\* Two states that differ in what selecting images leaves: drawn again, or not.
LEMMA FillIsSettled ==
  ASSUME NEW x, Settled(x), x.caddy = <<>>
  PROVE  Settled(FillCaddyWithSelections(x))
<1> DEFINE y == FillCaddyWithSelections(x)
<1>1. Sound(x) /\ Chosen(x) /\ Here(x) /\ Rooted(x) /\ x.caddy = <<>> /\ (~x.refused => Matched(x))
  BY DEF Settled
<1>2. /\ Sound(y) /\ Chosen(y) /\ Here(y) /\ InFolder(y) /\ y.list = x.list /\ y.devices = x.devices
      /\ y.caddy # <<>> => y.made
      /\ ~y.refused => y.selections = x.selections /\ ~x.refused
  BY <1>1, FillIs
<1> HIDE DEF y
<1>3. ~y.refused => Matched(y)
  BY <1>1, <1>2 DEF Matched
<1>4. QED
  BY <1>1, <1>2, <1>3 DEF Settled, Rooted, y

\* The images that a list names.
LEMMA SelectLSTIs ==
  ASSUME NEW x, Whole(x), x.caddy = <<>>, NEW name
  PROVE  LET y == SelectLST(x, name)
         IN  Whole(y) /\ Beneath(x, y) /\ y.made = x.made /\ InFolder(y)
<1> DEFINE there == {e.name : e \in {e \in Images(x.list) : e.kind = "image" /\ Readable(x, e.name)}}
           names == IF Has(x, name) THEN Kept(The(x, name).content, there) ELSE <<>>
           y == Insert(x, names)
<1>1. SelectLST(x, name) = y
  BY DEF SelectLST
<1> HIDE DEF there
<1>2. names \in Seq(Nat)
  <2>1. CASE Has(x, name)
    <3>1. x.files[Cwd(x)] \in SUBSET Files
      BY CwdIs DEF Whole
    <3>2. The(x, name) \in Files
      BY <2>1, <3>1 DEF Has, The
    <3> DEFINE c == The(x, name).content
    <3>3. c \in Seq(Nat)
      BY <3>2 DEF Files
    <3> HIDE DEF c
    <3>4. Kept(c, there) \in Seq(Nat)
      BY <3>3, KeptIs
    <3>5. QED
      BY <2>1, <3>4 DEF c
  <2>2. CASE ~Has(x, name)
    BY <2>2
  <2>3. QED
    BY <2>1, <2>2
<1> HIDE DEF names
<1>3. Whole(y) /\ Beneath(x, y) /\ y.made = x.made /\ InFolder(y)
  BY <1>2, InsertIs
<1> HIDE DEF y
<1>4. QED
  BY <1>1, <1>3

LEMMA ListSelected ==
  ASSUME NEW x, Ready(x), NEW name
  PROVE  LET y == SelectLST(x, name)
         IN  Fine(RefeshDisplay([y EXCEPT !.made = y.caddy # x.caddy]))
<1> DEFINE y == SelectLST(x, name)
           z == [y EXCEPT !.made = y.caddy # x.caddy]
<1>1. Sound(x) /\ Chosen(x) /\ Here(x) /\ Rooted(x) /\ x.caddy = <<>> /\ (~x.refused => Matched(x))
  BY DEF Ready, Fine, Settled
<1>2. Whole(y) /\ Beneath(x, y) /\ InFolder(y)
  BY <1>1, SelectLSTIs DEF Sound
<1> HIDE DEF y
<1>3. /\ z \in Browsers /\ Beneath(x, z) /\ z.caddy = y.caddy /\ z.made = (y.caddy # <<>>)
  BY <1>1, <1>2 DEF Whole, Browsers, Beneath
<1> HIDE DEF z
<1>4. Sound(z)
  BY <1>1, <1>3 DEF Sound, Whole, Beneath
<1>5. Chosen(z) /\ Here(z) /\ Rooted(z) /\ InFolder(z) /\ (~z.refused => Matched(z))
  BY <1>1, <1>2, <1>3 DEF Chosen, Here, Rooted, InFolder, Matched, Beneath, Cwd
<1>6. Settled(z)
  BY <1>3, <1>4, <1>5 DEF Settled
<1>7. Fine(RefeshDisplay(z))
  BY <1>6, DrawnIsFine
<1>8. QED
  BY <1>7 DEF y, z

LEMMA ClearSelectionsIs ==
  ASSUME NEW x, Sound(x), Here(x), Rooted(x), x.caddy = <<>>
  PROVE  Settled(ClearSelections(x)) /\ ClearSelections(x).caddy = <<>>
<1> DEFINE l  == x.list
           es == [i \in DOMAIN l.entries |-> [l.entries[i] EXCEPT !.caddy = None]]
           m  == [l EXCEPT !.entries = es]
           y  == [x EXCEPT !.made = FALSE, !.selections = <<>>, !.refused = FALSE, !.list = m]
           G(z) == Settled(z) /\ z.caddy = <<>>
<1>1. /\ x \in Browsers /\ ListOK(l) /\ l \in ListRecords /\ l.entries \in Seq(Entries)
      /\ DOMAIN l.entries = 1 .. Len(l.entries) /\ Len(l.entries) \in Nat \ {0}
      /\ \A i \in DOMAIN l.entries : l.entries[i] \in Entries
  BY ListIs DEF Sound, Whole
<1>2. ClearSelections(x) = y
  BY <1>1 DEF ClearSelections, Browsers, ListRecords
<1>3. /\ es \in Seq(Entries) /\ Len(es) = Len(l.entries) /\ DOMAIN es = DOMAIN l.entries
      /\ \A i \in DOMAIN l.entries :
           es[i].name = l.entries[i].name /\ es[i].kind = l.entries[i].kind /\ es[i].caddy = None
  <2>1. ASSUME NEW i \in DOMAIN l.entries
        PROVE  /\ es[i] \in Entries /\ es[i].name = l.entries[i].name /\ es[i].kind = l.entries[i].kind
               /\ es[i].caddy = None
    <3> DEFINE e == l.entries[i]
    <3>1. e \in Entries /\ None \in Int
      BY <1>1 DEF None
    <3>2. es[i] = [e EXCEPT !.caddy = None]
      OBVIOUS
    <3> HIDE DEF e, es
    <3>3. es[i] \in Entries /\ es[i].name = e.name /\ es[i].kind = e.kind /\ es[i].caddy = None
      BY <3>1, <3>2, EntryIs
    <3>4. QED
      BY <3>3 DEF e
  <2>2. DOMAIN es = DOMAIN l.entries /\ es \in [1 .. Len(l.entries) -> Entries]
    BY <1>1, <2>1
  <2> HIDE DEF es
  <2>3. QED
    BY <1>1, <2>1, <2>2
<1> HIDE DEF es
<1>4. m \in ListRecords /\ m.entries = es /\ Remarked(l, m)
  BY <1>1, <1>3 DEF ListRecords, Remarked
<1> HIDE DEF m
<1>5. ListOK(m) /\ m.folder = x.list.folder
  BY <1>1, <1>4, RemarkedIs DEF Remarked
<1> HIDE DEF l
<1>6. /\ y \in Browsers /\ y.list = m /\ y.selections = <<>> /\ ~y.refused /\ ~y.made /\ y.caddy = <<>>
      /\ y.prefix = x.prefix /\ y.cwd = x.cwd /\ y.drive = x.drive /\ y.devices = x.devices
  <2>1. <<>> \in Seq(Nat)
    OBVIOUS
  <2>2. QED
    BY <1>1, <1>4, <2>1 DEF Browsers
<1> HIDE DEF y
<1>7. Sound(y) /\ Here(y) /\ InFolder(y)
  BY <1>5, <1>6 DEF Sound, Whole, Here, InFolder, Cwd
<1>8. Chosen(y)
  <2>1. None \in Numbers(m)
    BY <1>5, NumbersAre
  <2>2. QED
    BY <1>3, <1>4, <1>6, <2>1 DEF Chosen
<1>9. Matched(y)
  BY <1>3, <1>4, <1>6, MatchedIs
<1>10. Rooted(y)
  BY <1>3, <1>4, <1>6 DEF Rooted, l
<1>11. G(y)
  BY <1>6, <1>7, <1>8, <1>9, <1>10 DEF Settled
<1> HIDE DEF G
<1>12. G(ClearSelections(x))
  BY <1>2, <1>11
<1>13. QED
  BY <1>12 DEF G

-----------------------------------------------------------------------------
(* Keys *)

LEMMA AddImageIsSettled ==
  ASSUME NEW x, Settled(x), x.caddy = <<>>, NEW i \in 0 .. End(x.list)
  PROVE  Settled(AddImageToCaddy(x, i)) /\ AddImageToCaddy(x, i).caddy = <<>>
<1> DEFINE y == AddImageToCaddy(x, i)
<1>1. Sound(y) /\ Chosen(y) /\ Beside(x, y) /\ (Matched(x) => Matched(y))
  BY AddImageIs DEF Settled
<1> HIDE DEF y
<1>2. Here(y) /\ Rooted(y) /\ InFolder(y) /\ y.caddy = <<>> /\ y.refused = x.refused
  BY <1>1 DEF Settled, Beside, Same, Here, Rooted, InFolder, Cwd
<1>3. QED
  BY <1>1, <1>2 DEF Settled, y

LEMMA AtIs ==
  ASSUME NEW l, ListOK(l)
  PROVE  l.at \in 0 .. End(l) /\ At(l) \in Entries /\ l.at + 1 \in DOMAIN l.entries
  BY ListIs DEF At

LEMMA RedrawnIs ==
  ASSUME NEW x, Ready(x), NEW y, Settled(y)
  PROVE  Fine(Redrawn(x, y))
<1>1. CASE y = x
  BY <1>1 DEF Redrawn, Ready
<1>2. CASE y # x
  BY <1>2, DrawnIsFine DEF Redrawn
<1>3. QED
  BY <1>1, <1>2

\* The folder is read again, from wherever the browser is now.
LEMMA FreshShown ==
  ASSUME NEW x, x.caddy = <<>>, NEW y, Whole(y), Still(x, y)
  PROVE  Ready(FolderChanged(y)) /\ Fine(FolderChanged(y))
<1>1. Fresh(y, FolderChanged(y)) /\ Shown(FolderChanged(y)) /\ y.caddy = <<>>
  BY FolderChangedIs DEF Still
<1>2. QED
  BY <1>1, FreshIsFine DEF Ready

LEMMA AutoMountIs ==
  ASSUME NEW x, Whole(x), x.caddy = <<>>
  PROVE  Fine(SelectAutoMountImage(x))
<1> DEFINE c == Chdir(x, <<x.drive, Home>>)
           y == RefreshFolderEntries(c)
           s == <<AutoMount>>
           w == [y EXCEPT !.selections = s, !.missed = TRUE]
           n == [y EXCEPT !.missed = TRUE]
           f == FillCaddyWithSelections(w)
           there == \E e \in Images(y.list) : e.name = AutoMount
<1>1. SelectAutoMountImage(x) = IF there THEN f ELSE n
  BY DEF SelectAutoMountImage
<1>2. Whole(c) /\ Still(x, c)
  BY ChdirIs
<1> HIDE DEF c
<1>3. Relisted(c, y)
  BY <1>2, RefreshFolderEntriesIs
<1>4. Fresh(c, y) /\ y.caddy = <<>>
  BY <1>2, <1>3, RelistedIsFresh DEF Still, Relisted
<1> HIDE DEF y
<1>5. y \in Browsers /\ Sound(y) /\ Chosen(y) /\ Matched(y) /\ ~y.refused /\ Here(y) /\ Rooted(y)
  BY <1>4 DEF Fresh, Sound, Whole
<1>6. CASE there
  <2>1. AutoMount \in Nat /\ AutoMount \in ImageNames(y.list)
    BY <1>6, BrowserAssumption DEF FileNames, ImageNames
  <2>2. s \in Seq(Nat) /\ DOMAIN s = {1} /\ s[1] = AutoMount /\ s # <<>>
    BY <2>1
  <2> HIDE DEF s
  <2>3. /\ w \in Browsers /\ w.selections = s /\ w.list = y.list /\ w.missed = TRUE /\ w.caddy = <<>>
        /\ w.prefix = y.prefix /\ w.cwd = y.cwd /\ w.drive = y.drive /\ w.refused = y.refused
        /\ w.devices = y.devices
    BY <1>4, <1>5, <2>2 DEF Browsers
  <2> HIDE DEF w
  <2>4. Sound(w) /\ Here(w)
    BY <1>5, <2>3 DEF Sound, Whole, Here, Cwd
  <2>5. Chosen(w)
    BY <1>5, <2>1, <2>2, <2>3 DEF Chosen
  <2>6. /\ Sound(f) /\ Chosen(f) /\ Here(f) /\ InFolder(f) /\ f.missed = w.missed
        /\ f.list = w.list /\ f.devices = w.devices
        /\ (f.caddy = <<>> <=> f.selections = <<>>)
        /\ f.caddy # <<>> => f.made
        /\ ~f.refused => f.selections = w.selections
    BY <2>3, <2>4, <2>5, FillIs
  <2> HIDE DEF f
  <2>7. Fine(f)
    BY <1>5, <2>2, <2>3, <2>6 DEF Fine, Settled, Shown, Rooted
  <2>8. QED
    BY <1>1, <1>6, <2>7
<1>7. CASE ~there
  <2>1. /\ n \in Browsers /\ n.selections = y.selections /\ n.list = y.list /\ n.missed = TRUE
        /\ n.caddy = <<>> /\ n.prefix = y.prefix /\ n.cwd = y.cwd /\ n.drive = y.drive
        /\ n.devices = y.devices
    BY <1>4, <1>5 DEF Browsers
  <2> HIDE DEF n
  <2>2. Sound(n) /\ Here(n) /\ Rooted(n) /\ Chosen(n) /\ Matched(n) /\ InFolder(n)
    BY <1>5, <2>1 DEF Sound, Whole, Here, Rooted, Cwd, Chosen, Matched, InFolder
  <2>3. Fine(n)
    BY <2>1, <2>2 DEF Fine, Settled, Shown
  <2>4. QED
    BY <1>1, <1>7, <2>3
<1>8. QED
  BY <1>6, <1>7

LEMMA SelectIs ==
  ASSUME NEW x, Ready(x)
  PROVE  Fine(Select(x))
<1> DEFINE e == At(x.list)
<1>1. /\ Sound(x) /\ Chosen(x) /\ Here(x) /\ Rooted(x) /\ x.caddy = <<>> /\ Settled(x) /\ Fine(x)
      /\ Whole(x) /\ ListOK(x.list) /\ x.list.cur \in Int
  BY ListIs DEF Ready, Fine, Settled, Sound
<1>2. e \in Entries /\ x.list.at \in 0 .. End(x.list)
  BY <1>1, AtIs
<1> DEFINE inside == FolderChanged(SwitchTo(x, e.name))
           below  == FolderChanged(Chdir(x, Append(Cwd(x), e.name)))
           y == SelectLST(x, e.name)
           listed == RefeshDisplay([y EXCEPT !.made = y.caddy # x.caddy])
           filled == RefeshDisplay(FillCaddyWithSelections(AddImageToCaddy(x, x.list.at)))
<1>3. Select(x) = IF x.list.cur = None THEN x
                  ELSE IF x.devices THEN inside
                  ELSE IF e.name = Up THEN PopFolder(x)
                  ELSE IF e.kind = "dir" THEN below
                  ELSE IF e.kind = "list" THEN listed
                  ELSE IF e.kind = "image" THEN filled ELSE x
  BY DEF Select
<1>4. Fine(PopFolder(x))
  <2>1. Fresh(x, PopFolder(x)) /\ Shown(PopFolder(x))
    BY <1>1, PopFolderIs
  <2>2. QED
    BY <1>1, <2>1, FreshIsFine DEF Ready
<1>5. x.devices => Fine(inside)
  <2> DEFINE w == SwitchTo(x, e.name)
  <2>1. SUFFICES ASSUME x.devices PROVE Fine(FolderChanged(w))
    OBVIOUS
  <2>2. e.name \in Volumes
    BY <1>1, <2>1, AtIs DEF Rooted, At
  <2> HIDE DEF e
  <2>3. Whole(w) /\ Still(x, w)
    BY <1>1, <2>2, SwitchToIs
  <2> HIDE DEF w
  <2>4. QED
    BY <1>1, <2>3, FreshShown
<1>6. Fine(below)
  <2> DEFINE d == Append(Cwd(x), e.name)
             w == Chdir(x, d)
  <2>1. Cwd(x) \in Seq(Nat) /\ Len(Cwd(x)) \in Nat \ {0} /\ Cwd(x)[1] = x.drive
    BY <1>1, CwdIs, FoldersAre DEF Whole
  <2>2. d[1] = x.drive
    BY <2>1
  <2> HIDE DEF d
  <2>3. Whole(w) /\ Still(x, w)
    BY <1>1, <2>2, ChdirIs
  <2> HIDE DEF w
  <2>4. Fine(FolderChanged(w))
    BY <1>1, <2>3, FreshShown
  <2>5. QED
    BY <2>4 DEF d, w
<1>7. Fine(listed)
  BY ListSelected
<1>8. Fine(filled)
  <2> DEFINE a == AddImageToCaddy(x, x.list.at)
  <2>1. Settled(a) /\ a.caddy = <<>>
    BY <1>1, <1>2, AddImageIsSettled
  <2> HIDE DEF a
  <2>2. Settled(FillCaddyWithSelections(a))
    BY <2>1, FillIsSettled
  <2>3. Fine(RefeshDisplay(FillCaddyWithSelections(a)))
    BY <2>2, DrawnIsFine
  <2>4. QED
    BY <2>3 DEF a
<1> HIDE DEF inside, below, listed, filled, e, y
<1>9. QED
  BY <1>1, <1>3, <1>4, <1>5, <1>6, <1>7, <1>8

LEMMA InsertKeyIs ==
  ASSUME NEW x, Ready(x)
  PROVE  Fine(InsertKey(x))
<1> DEFINE e == At(x.list)
           d == Append(Cwd(x), e.name)
           w == IF x.devices THEN x ELSE Chdir(x, d)
<1>1. Whole(x) /\ ListOK(x.list) /\ x.caddy = <<>> /\ Settled(x) /\ Fine(x)
  BY DEF Ready, Fine, Settled, Sound
<1>2. e \in Entries /\ x.list.at \in 0 .. End(x.list)
  BY <1>1, AtIs
<1> HIDE DEF e
<1>3. d[1] = x.drive
  <2>1. Cwd(x) \in Seq(Nat) /\ Len(Cwd(x)) \in Nat \ {0} /\ Cwd(x)[1] = x.drive
    BY <1>1, CwdIs, FoldersAre DEF Whole
  <2>2. QED
    BY <2>1
<1> HIDE DEF d
<1>4. Whole(w) /\ w.caddy = <<>>
  BY <1>1, <1>3, ChdirIs DEF Still
<1>5. InsertKey(x) = IF x.list.cur = None \/ e.name = Up THEN x
                     ELSE IF e.kind # "dir" THEN Redrawn(x, AddImageToCaddy(x, x.list.at))
                     ELSE AddFolder(w)
  BY DEF InsertKey, e, d
<1> HIDE DEF w
<1>6. Fine(AddFolder(w))
  BY <1>4, AddFolderIs, FreshIsFine DEF Ready
<1>7. Fine(Redrawn(x, AddImageToCaddy(x, x.list.at)))
  <2> DEFINE a == AddImageToCaddy(x, x.list.at)
  <2>1. Settled(a)
    BY <1>1, <1>2, AddImageIsSettled
  <2> HIDE DEF a
  <2>2. Fine(Redrawn(x, a))
    BY <2>1, RedrawnIs
  <2>3. QED
    BY <2>2 DEF a
<1>8. QED
  BY <1>1, <1>5, <1>6, <1>7

LEMMA DoneIs ==
  ASSUME NEW x, Ready(x)
  PROVE  Fine(Done(x))
<1> DEFINE y == FillCaddyWithSelections(x)
           z == [y EXCEPT !.made = x.selections # <<>>, !.missed = @ \/ y.selections # x.selections]
<1>1. Done(x) = z
  BY DEF Done
<1>2. /\ Sound(x) /\ Chosen(x) /\ Here(x) /\ Rooted(x) /\ Shown(x) /\ x.caddy = <<>>
      /\ ~x.refused => Matched(x)
  BY DEF Ready, Fine, Settled
<1>3. /\ Sound(y) /\ Chosen(y) /\ Here(y) /\ InFolder(y)
      /\ y.list = x.list /\ y.drawn = x.drawn /\ y.missed = x.missed /\ y.prefix = x.prefix
      /\ y.devices = x.devices /\ y.made = (x.selections # <<>>)
      /\ y.caddy # <<>> => y.made
      /\ ~y.refused => y.selections = x.selections /\ ~x.refused
  BY <1>2, FillIs
<1> HIDE DEF y
<1>4. /\ z \in Browsers /\ z.made = y.made /\ z.missed = (y.missed \/ y.selections # x.selections)
      /\ z.list = y.list /\ z.drawn = y.drawn /\ z.prefix = y.prefix /\ z.devices = y.devices
      /\ z.caddy = y.caddy /\ z.cwd = y.cwd /\ z.drive = y.drive /\ z.refused = y.refused
      /\ z.selections = y.selections
  BY <1>3 DEF Sound, Whole, Browsers
<1> HIDE DEF z
<1>5. Sound(z) /\ Chosen(z) /\ Here(z) /\ Rooted(z) /\ InFolder(z)
  BY <1>2, <1>3, <1>4 DEF Sound, Whole, Chosen, Here, Rooted, InFolder, Cwd
<1>6. ~z.refused => Matched(z)
  BY <1>2, <1>3, <1>4 DEF Matched
<1>7. Shown(z)
  BY <1>2, <1>3, <1>4 DEF Shown, Picture
<1>8. QED
  BY <1>1, <1>3, <1>4, <1>5, <1>6, <1>7 DEF Fine, Settled

LEMMA ExitIs ==
  ASSUME NEW x, Ready(x)
  PROVE  Fine(RefeshDisplay(ClearSelections(x)))
<1>1. Settled(ClearSelections(x))
  BY ClearSelectionsIs DEF Ready, Fine, Settled
<1>2. QED
  BY <1>1, DrawnIsFine

\* Other files in the current folder.
LEMMA FilesAre ==
  ASSUME NEW x, Whole(x), NEW S \in SUBSET Files, Stored(S)
  PROVE  LET y == [x EXCEPT !.files[Cwd(x)] = S]
         IN  /\ Whole(y) /\ Still(x, y) /\ y.cwd = x.cwd /\ y.drive = x.drive /\ y.devices = x.devices
             /\ Cwd(y) = Cwd(x) /\ y.files[Cwd(x)] = S
<1> DEFINE f == [x.files EXCEPT ![Cwd(x)] = S]
           y == [x EXCEPT !.files = f]
           G(z) == /\ Whole(z) /\ Still(x, z) /\ z.cwd = x.cwd /\ z.drive = x.drive
                   /\ z.devices = x.devices /\ Cwd(z) = Cwd(x) /\ z.files[Cwd(x)] = S
<1>1. x \in Browsers /\ x.files \in Stores /\ Cwd(x) \in Folders
  BY CwdIs DEF Whole
<1>2. f \in Stores /\ f[Cwd(x)] = S
  BY <1>1 DEF Stores
<1>3. [x EXCEPT !.files[Cwd(x)] = S] = y
  BY <1>1 DEF Browsers
<1> HIDE DEF f
<1>4. /\ y \in Browsers /\ Still(x, y) /\ y.cwd = x.cwd /\ y.drive = x.drive /\ y.devices = x.devices
      /\ y.files = f
  BY <1>1, <1>2 DEF Browsers, Still
<1> HIDE DEF y
<1>5. G(y)
  BY <1>2, <1>4 DEF Whole, Still, Cwd
<1> HIDE DEF G
<1>6. G([x EXCEPT !.files[Cwd(x)] = S])
  BY <1>3, <1>5
<1>7. QED
  BY <1>6 DEF G

LEMMA DeleteIs ==
  ASSUME NEW x, Whole(x), NEW name
  PROVE  /\ Whole(Delete(x, name)) /\ Still(x, Delete(x, name))
         /\ Delete(x, name).devices = x.devices /\ Cwd(Delete(x, name)) = Cwd(x)
         /\ Delete(x, name).files[Cwd(x)] = {f \in x.files[Cwd(x)] : f.name # name}
<1> DEFINE F == x.files[Cwd(x)]
           S == {f \in F : f.name # name}
           y == [x EXCEPT !.files[Cwd(x)] = S]
<1>1. x \in Browsers /\ F \in SUBSET Files /\ Stored(F) /\ Cwd(x) \in Folders /\ x.files \in Stores
  BY CwdIs DEF Whole
<1>2. Delete(x, name) = y
  BY DEF Delete
<1> HIDE DEF F
<1>3. S \in SUBSET Files /\ Stored(S)
  <2>1. S \in SUBSET F
    OBVIOUS
  <2>2. IsFiniteSet(S)
    BY <1>1, <2>1, FS_Subset DEF Stored
  <2>3. QED
    BY <1>1, <2>1, <2>2 DEF Stored
<1> HIDE DEF S
<1>4. Whole(y) /\ Still(x, y) /\ y.devices = x.devices /\ Cwd(y) = Cwd(x) /\ y.files[Cwd(x)] = S
  BY <1>3, FilesAre
<1> HIDE DEF y
<1>5. QED
  BY <1>2, <1>4 DEF S, F

LEMMA CreateIs ==
  ASSUME NEW x, Whole(x), NEW f \in Files
  PROVE  /\ Whole(Create(x, f)) /\ Still(x, Create(x, f))
         /\ Create(x, f).devices = x.devices /\ Cwd(Create(x, f)) = Cwd(x)
<1> DEFINE w == Delete(x, f.name)
           F == w.files[Cwd(w)]
           S == F \union {f}
           y == [w EXCEPT !.files[Cwd(w)] = S]
<1>1. Create(x, f) = [w EXCEPT !.files[Cwd(x)] = @ \union {f}]
  BY DEF Create
<1>2. Whole(w) /\ Still(x, w) /\ w.devices = x.devices /\ Cwd(w) = Cwd(x) /\ \A g \in F : g.name # f.name
  BY DeleteIs
<1> HIDE DEF w
<1>3. Create(x, f) = y
  BY <1>1, <1>2
<1>4. F \in SUBSET Files /\ Stored(F)
  BY <1>2, CwdIs DEF Whole
<1> HIDE DEF F
<1>5. S \in SUBSET Files /\ Stored(S)
  <2>1. IsFiniteSet(S)
    BY <1>4, FS_AddElement DEF Stored
  <2>2. \A g, h \in S : g.name = h.name => g = h
    BY <1>2, <1>4 DEF Stored
  <2>3. QED
    BY <1>4, <2>1, <2>2 DEF Stored
<1> HIDE DEF S
<1>6. Whole(y) /\ Still(w, y) /\ y.devices = w.devices /\ Cwd(y) = Cwd(w)
  BY <1>2, <1>5, FilesAre
<1> HIDE DEF y
<1>7. QED
  BY <1>2, <1>3, <1>6 DEF Still

LEMMA FileIs ==
  ASSUME NEW name \in FileNames, NEW kind \in Kinds \ {"dir"}, NEW content \in Seq(Nat)
  PROVE  File(name, kind, content) \in Files
  BY DEF File, Files

LEMMA NewD64Is ==
  ASSUME NEW x, Whole(x), x.caddy = <<>>, NEW name \in FileNames
  PROVE  Ready(NewD64(x, name))
<1> DEFINE f == File(name, "image", <<>>)
           w == IF Has(x, name) THEN x ELSE Create(x, f)
<1>1. NewD64(x, name) = FolderChanged(w)
  BY DEF NewD64
<1>2. f \in Files
  <2>1. "image" \in Kinds \ {"dir"} /\ <<>> \in Seq(Nat)
    BY DEF Kinds
  <2>2. QED
    BY <2>1, FileIs
<1> HIDE DEF f
<1>3. Whole(w) /\ Still(x, w)
  BY <1>2, CreateIs DEF Still
<1> HIDE DEF w
<1>4. QED
  BY <1>1, <1>3, FreshShown

LEMMA MakeLSTIs ==
  ASSUME NEW x, Ready(x)
  PROVE  Fine(MakeLST(x))
<1> DEFINE l      == x.list
           images == {e \in Images(l) : e.kind = "image"}
           chosen == {e.name : e \in images}
           listed == Kept(l.entries, images)
           names  == IF Len(x.selections) > 1
                     THEN Kept(x.selections, chosen)
                     ELSE [i \in DOMAIN listed |-> listed[i].name]
           f == File(AutoSwap, "list", names)
           w == Create(x, f)
           y == FolderChanged(w)
           p == PositionOf(y, AutoSwap)
<1>1. Whole(x) /\ ListOK(l) /\ x.caddy = <<>> /\ x.selections \in Seq(Nat) /\ l.entries \in Seq(Entries)
  BY ListIs DEF Ready, Fine, Settled, Sound, Whole, Browsers
<1>2. MakeLST(x) = IF x.devices THEN y ELSE RefeshDisplay(Selected(y, p))
  BY DEF MakeLST
<1> HIDE DEF l, images, chosen
<1>3. names \in Seq(Nat)
  <2>1. Kept(x.selections, chosen) \in Seq(Nat)
    BY <1>1, KeptIs
  <2>2. listed \in Seq(Entries)
    BY <1>1, KeptIs
  <2> HIDE DEF listed
  <2>3. \A i \in DOMAIN listed : listed[i].name \in Nat
    <3>1. \A i \in DOMAIN listed : listed[i] \in Entries
      BY <2>2
    <3>2. \A e \in Entries : e.name \in Nat
      BY DEF Entries
    <3>3. QED
      BY <3>1, <3>2
  <2>4. [i \in DOMAIN listed |-> listed[i].name] \in Seq(Nat)
    <3>1. DOMAIN listed = 1 .. Len(listed) /\ Len(listed) \in Nat
      BY <2>2
    <3>2. [i \in DOMAIN listed |-> listed[i].name] \in [1 .. Len(listed) -> Nat]
      BY <2>3, <3>1
    <3>3. QED
      BY <3>1, <3>2
  <2>5. QED
    BY <2>1, <2>4
<1> HIDE DEF names
<1>4. f \in Files
  <2>1. AutoSwap \in FileNames /\ "list" \in Kinds \ {"dir"}
    BY BrowserAssumption DEF Kinds
  <2>2. QED
    BY <1>3, <2>1, FileIs
<1> HIDE DEF f
<1>5. Whole(w) /\ Still(x, w)
  BY <1>1, <1>4, CreateIs
<1> HIDE DEF w
<1>6. Ready(y) /\ Fine(y)
  BY <1>1, <1>5, FreshShown
<1>7. Relisted(w, y) /\ w.caddy = <<>>
  BY <1>1, <1>5, FolderChangedIs DEF Still
<1> HIDE DEF y
<1>8. p \in 0 .. End(y.list)
  BY <1>7, PositionIs DEF Relisted, Sound
<1> HIDE DEF p
<1>9. Relisted(w, Selected(y, p))
  BY <1>7, <1>8, SelectedStays
<1>10. Fresh(w, RefeshDisplay(Selected(y, p))) /\ Shown(RefeshDisplay(Selected(y, p)))
  BY <1>9, DrawnStays
<1>11. Fine(RefeshDisplay(Selected(y, p)))
  BY <1>7, <1>10, FreshIsFine DEF Ready
<1>12. QED
  BY <1>2, <1>6, <1>11

LEMMA WriteProtectIs ==
  ASSUME NEW x, Ready(x)
  PROVE  Fine(WriteProtect(x))
<1> DEFINE l  == x.list
           k  == l.at + 1
           e  == l.entries[k]
           F  == x.files[Cwd(x)]
           on == {f \in F : f.name = e.name}
           S  == (F \ on) \union {[f EXCEPT !.rdo = ~e.rdo] : f \in on}
           es == [l.entries EXCEPT ![k] = [e EXCEPT !.rdo = ~e.rdo]]
           m  == [l EXCEPT !.entries = es]
           w  == [x EXCEPT !.list = m]
           y  == [w EXCEPT !.files[Cwd(w)] = S]
<1>1. /\ Sound(x) /\ Chosen(x) /\ Here(x) /\ Rooted(x) /\ InFolder(x) /\ x.caddy = <<>>
      /\ ~x.refused => Matched(x)
      /\ Fine(x) /\ Whole(x) /\ x \in Browsers
  BY DEF Ready, Fine, Settled, Sound, Whole
<1>2. /\ ListOK(l) /\ l \in ListRecords /\ l.entries \in Seq(Entries) /\ k \in DOMAIN l.entries
      /\ e \in Entries /\ \A i \in DOMAIN l.entries : l.entries[i] \in Entries
  BY <1>1, ListIs, AtIs DEF Sound, At
<1>3. F \in SUBSET Files /\ Stored(F) /\ Cwd(x) \in Folders /\ x.files \in Stores
  BY <1>1, CwdIs
<1>4. \/ WriteProtect(x) = x
      \/ WriteProtect(x) = RefeshDisplay([x EXCEPT !.list.entries[k].rdo = ~@, !.files[Cwd(x)] = S])
  BY DEF WriteProtect, At
<1>5. Cwd(w) = Cwd(x)
  BY <1>1, <1>2 DEF Browsers, Cwd
<1>6. [x EXCEPT !.list.entries[k].rdo = ~@, !.files[Cwd(x)] = S] = y
  <2> HIDE DEF S, k
  <2>1. [x EXCEPT !.list.entries[k].rdo = ~@, !.files[Cwd(x)] = S]
          = [x EXCEPT !.list = m, !.files = [x.files EXCEPT ![Cwd(x)] = S]]
    BY <1>1, <1>2 DEF Browsers, ListRecords, Entries
  <2>2. y = [x EXCEPT !.list = m, !.files = [x.files EXCEPT ![Cwd(x)] = S]]
    <3> HIDE DEF m
    <3>1. QED
      BY <1>1, <1>5 DEF Browsers
  <2>3. QED
    BY <2>1, <2>2
<1>7. S \in SUBSET Files /\ Stored(S)
  <2> DEFINE g == [f \in on |-> [f EXCEPT !.rdo = ~e.rdo]]
  <2>1. on \in SUBSET F /\ IsFiniteSet(on) /\ IsFiniteSet(F \ on)
    <3>1. on \in SUBSET F /\ F \ on \in SUBSET F /\ IsFiniteSet(F)
      BY <1>3 DEF Stored
    <3> HIDE DEF on, F
    <3>2. IsFiniteSet(on)
      BY <3>1, FS_Subset
    <3>3. IsFiniteSet(F \ on)
      BY <3>1, FS_Subset
    <3>4. QED
      BY <3>1, <3>2, <3>3
  <2>2. ASSUME NEW f \in on PROVE g[f] \in Files /\ g[f].name = f.name
    <3>1. f \in Files
      BY <1>3
    <3>2. QED
      BY <3>1 DEF Files
  <2>3. g \in [on -> Files]
    BY <2>2
  <2>4. S = (F \ on) \union Range(g)
    BY DEF Range
  <2>5. IsFiniteSet(Range(g))
    <3> HIDE DEF g, on
    <3>1. QED
      BY <2>1, <2>3, ImageIsFinite
  <2>6. IsFiniteSet(S)
    <3> DEFINE A == F \ on
               B == Range(g)
    <3>1. IsFiniteSet(A) /\ IsFiniteSet(B) /\ S = A \union B
      BY <2>1, <2>4, <2>5
    <3> HIDE DEF A, B, S
    <3>2. QED
      BY <3>1, FS_Union
  <2>7. S \in SUBSET Files
    BY <1>3, <2>3, <2>4 DEF Range
  <2>8. \A f, h \in S : f.name = h.name => f = h
    <3> DEFINE Other(f) == f \in F /\ f.name # e.name
               One(f)   == \E i \in on : f = g[i] /\ f.name = e.name
    <3>1. ASSUME NEW f \in S PROVE Other(f) \/ One(f)
      <4>1. CASE f \in F \ on
        BY <4>1
      <4>2. CASE f \notin F \ on
        <5>1. f \in Range(g) /\ DOMAIN g = on
          BY <2>4, <4>2
        <5>2. \A i \in on : i.name = e.name
          OBVIOUS
        <5> HIDE DEF g, S, on, e
        <5>3. PICK i \in on : f = g[i]
          BY <5>1 DEF Range
        <5>4. f.name = e.name
          BY <2>2, <5>2, <5>3
        <5>5. One(f)
          BY <5>3, <5>4
        <5> HIDE DEF One, Other, F
        <5>6. QED
          BY <5>5, Zenon
      <4> HIDE DEF One, Other, S, on, g, F, e
      <4>3. QED
        BY <4>1, <4>2, Zenon
    <3>2. \A i, j \in on : i = j
      BY <1>3 DEF Stored
    <3>3. \A f, h \in F : f.name = h.name => f = h
      BY <1>3 DEF Stored
    <3> HIDE DEF S, on, g, F, e
    <3>4. ASSUME NEW f \in S, NEW h \in S, f.name = h.name PROVE f = h
      <4>1. (Other(f) \/ One(f)) /\ (Other(h) \/ One(h))
        BY <3>1
      <4>2. QED
        BY <3>2, <3>3, <3>4, <4>1
    <3>5. QED
      BY <3>4
  <2>9. QED
    BY <2>6, <2>7, <2>8 DEF Stored
<1>8. /\ es \in Seq(Entries) /\ Len(es) = Len(l.entries) /\ DOMAIN es = DOMAIN l.entries
      /\ \A i \in DOMAIN l.entries :
           es[i].name = l.entries[i].name /\ es[i].kind = l.entries[i].kind /\ es[i].caddy = l.entries[i].caddy
  <2> DEFINE d == [e EXCEPT !.rdo = ~e.rdo]
  <2>1. d \in Entries /\ d.name = e.name /\ d.kind = e.kind /\ d.caddy = e.caddy
    BY <1>2 DEF Entries
  <2>2. es = [l.entries EXCEPT ![k] = d] /\ e = l.entries[k]
    OBVIOUS
  <2> HIDE DEF d, es, k, e
  <2>3. es \in Seq(Entries) /\ Len(es) = Len(l.entries) /\ DOMAIN es = DOMAIN l.entries
    BY <1>2, <2>1, <2>2
  <2>4. ASSUME NEW i \in DOMAIN l.entries
        PROVE  /\ es[i].name = l.entries[i].name /\ es[i].kind = l.entries[i].kind
               /\ es[i].caddy = l.entries[i].caddy
    <3>1. CASE i = k
      BY <1>2, <2>1, <2>2, <3>1
    <3>2. CASE i # k
      BY <1>2, <2>2, <3>2
    <3>3. QED
      BY <3>1, <3>2
  <2>5. QED
    BY <2>3, <2>4
<1> HIDE DEF S, es
<1>9. m \in ListRecords /\ m.entries = es /\ Remarked(l, m)
  BY <1>2, <1>8 DEF ListRecords, Remarked
<1> HIDE DEF m
<1>10. ListOK(m) /\ ImageNames(m) = ImageNames(l) /\ Numbers(m) = Numbers(l) /\ m.folder = l.folder
  BY <1>2, <1>9, RemarkedIs DEF Remarked
<1>11. /\ w \in Browsers /\ w.list = m /\ w.selections = x.selections /\ w.refused = x.refused
       /\ w.caddy = x.caddy /\ w.made = x.made /\ w.prefix = x.prefix /\ w.cwd = x.cwd /\ w.drive = x.drive
       /\ w.devices = x.devices
  BY <1>1, <1>9 DEF Browsers
<1> HIDE DEF w
<1>12. Whole(w)
  BY <1>1, <1>11 DEF Whole
<1>13. /\ Whole(y) /\ Still(w, y) /\ y.cwd = w.cwd /\ y.drive = w.drive /\ y.devices = w.devices
       /\ Cwd(y) = Cwd(w)
  BY <1>7, <1>12, FilesAre
<1> HIDE DEF y
<1>14. /\ y.list = m /\ y.selections = x.selections /\ y.refused = x.refused /\ y.caddy = <<>>
       /\ y.devices = x.devices /\ Cwd(y) = Cwd(x)
  BY <1>1, <1>5, <1>11, <1>13 DEF Still
<1>15. Sound(y) /\ Here(y) /\ InFolder(y)
  BY <1>1, <1>10, <1>13, <1>14 DEF Sound, Here, InFolder, l
<1>16. Rooted(y)
  BY <1>1, <1>8, <1>9, <1>14 DEF Rooted, l
<1>17. Chosen(y)
  BY <1>1, <1>8, <1>9, <1>10, <1>14 DEF Chosen, l
<1>18. Matched(x) => Matched(y)
  <2>1. SUFFICES ASSUME Matched(x) PROVE Matched(y)
    OBVIOUS
  <2>2. /\ \A i \in DOMAIN l.entries :
             l.entries[i].caddy # None =>
               /\ l.entries[i].caddy + 1 \in DOMAIN x.selections
               /\ x.selections[l.entries[i].caddy + 1] = l.entries[i].name
        /\ \A i \in DOMAIN x.selections :
             \E j \in DOMAIN l.entries : l.entries[j].name = x.selections[i] /\ l.entries[j].caddy = i - 1
    BY <2>1, MatchedIs DEF l
  <2>3. /\ \A i \in DOMAIN es :
             es[i].caddy # None => es[i].caddy + 1 \in DOMAIN x.selections /\ x.selections[es[i].caddy + 1] = es[i].name
        /\ \A i \in DOMAIN x.selections :
             \E j \in DOMAIN es : es[j].name = x.selections[i] /\ es[j].caddy = i - 1
    <3> HIDE DEF l
    <3>1. QED
      BY <1>8, <2>2
  <2>4. QED
    BY <1>9, <1>14, <2>3, MatchedIs
<1>19. Settled(y)
  BY <1>1, <1>14, <1>15, <1>16, <1>17, <1>18 DEF Settled
<1>20. Fine(RefeshDisplay(y))
  BY <1>19, DrawnIsFine
<1>21. QED
  BY <1>1, <1>4, <1>6, <1>20

-----------------------------------------------------------------------------
(* Moving about *)

LEMMA SettledStays ==
  ASSUME NEW x, Settled(x), NEW y, Sound(y), Same(x, y), SameList(x, y)
  PROVE  Settled(y)
<1>1. (Chosen(x) => Chosen(y)) /\ (Matched(x) => Matched(y))
  BY ChosenStays
<1>2. Here(y) /\ Rooted(y) /\ InFolder(y)
  BY DEF Settled, Here, Rooted, InFolder, Same, SameList, Cwd
<1>3. QED
  BY <1>1, <1>2 DEF Settled, Same, SameList

LEMMA NavigatedIs ==
  ASSUME NEW x, Ready(x), NEW l, Alike(x.list, l)
  PROVE  Fine(Navigated(x, l))
<1> DEFINE y == [x EXCEPT !.list = l]
<1>1. Settled(x) /\ Sound(x)
  BY DEF Ready, Fine, Settled
<1>2. Sound(y) /\ Same(x, y) /\ SameList(x, y)
  BY <1>1, ListChanges
<1>3. Navigated(x, l) = RefeshDisplay(y)
  BY DEF Navigated
<1> HIDE DEF y
<1>4. QED
  BY <1>1, <1>2, <1>3, SettledStays, DrawnIsFine

\* Another window.
LEMMA WindowMoves ==
  ASSUME NEW l, ListOK(l), NEW v \in Views, NEW n \in 0 .. End(l)
  PROVE  Alike(l, [l EXCEPT !.offset[v] = n]) /\ [l EXCEPT !.offset[v] = n].at = l.at
         /\ [l EXCEPT !.offset[v] = n].offset[v] = n
<1> DEFINE o == [l.offset EXCEPT ![v] = n]
           m == [l EXCEPT !.offset = o]
           G(z) == Alike(l, z) /\ z.at = l.at /\ z.offset[v] = n
<1>1. l \in ListRecords /\ l.offset \in Offsets /\ End(l) \in Nat
      /\ \A u \in Views : l.offset[u] \in 0 .. End(l)
  BY ListIs DEF ListOK
<1>2. o \in Offsets /\ o[v] = n /\ \A u \in Views : o[u] \in 0 .. End(l)
  BY <1>1 DEF Offsets
<1>3. [l EXCEPT !.offset[v] = n] = m
  BY <1>1 DEF ListRecords
<1> HIDE DEF o
<1>4. /\ m \in ListRecords /\ m.entries = l.entries /\ m.folder = l.folder /\ m.at = l.at
      /\ m.cur = l.cur /\ m.offset = o
  BY <1>1, <1>2 DEF ListRecords
<1> HIDE DEF m
<1>5. End(m) = End(l)
  BY <1>4 DEF End
<1>6. G(m)
  BY <1>2, <1>4, <1>5 DEF Alike, ListOK
<1> HIDE DEF G
<1>7. G([l EXCEPT !.offset[v] = n])
  BY <1>3, <1>6
<1>8. QED
  BY <1>7 DEF G

LEMMA AlikeIs ==
  ASSUME NEW l, NEW m, Alike(l, m)
  PROVE  ListOK(m) /\ End(m) = End(l)
  BY DEF Alike, End

LEMMA AlikeAgain ==
  ASSUME NEW l, NEW m, Alike(l, m), NEW n, Alike(m, n)
  PROVE  Alike(l, n)
  BY DEF Alike

LEMMA Down1Is ==
  ASSUME NEW l, ListOK(l), NEW v \in Views
  PROVE  Alike(l, Down1(l, v))
<1> DEFINE n == l.offset[v] + 1
<1>1. /\ l.at \in Nat /\ l.at <= End(l) /\ End(l) \in Nat
      /\ l.offset[v] \in Nat /\ Rows[v] \in Nat /\ Rows[v] > 1 /\ l.offset \in Offsets
      /\ l \in ListRecords
  BY ListIs
<1>2. CASE l.at >= l.offset[v] + Rows[v]
  <2>1. n \in 0 .. End(l)
    BY <1>1, <1>2
  <2>2. Down1(l, v) = [l EXCEPT !.offset[v] = n]
    BY <1>1, <1>2 DEF Down1, ListRecords, Offsets
  <2> HIDE DEF n
  <2>3. QED
    BY <2>1, <2>2, WindowMoves
<1>3. CASE ~(l.at >= l.offset[v] + Rows[v])
  BY <1>3 DEF Down1, Alike
<1>4. QED
  BY <1>2, <1>3

LEMMA Up1Is ==
  ASSUME NEW l, ListOK(l), NEW v \in Views
  PROVE  Alike(l, Up1(l, v))
<1> DEFINE n == l.offset[v] - 1
<1>1. /\ End(l) \in Nat /\ l.offset[v] \in Nat /\ l.offset[v] <= End(l) /\ l.offset \in Offsets
      /\ l \in ListRecords
  BY ListIs
<1>2. CASE l.offset[v] > 0 /\ l.at < l.offset[v]
  <2>1. n \in 0 .. End(l)
    BY <1>1, <1>2
  <2>2. Up1(l, v) = [l EXCEPT !.offset[v] = n]
    BY <1>1, <1>2 DEF Up1, ListRecords, Offsets
  <2> HIDE DEF n
  <2>3. QED
    BY <2>1, <2>2, WindowMoves
<1>3. CASE ~(l.offset[v] > 0 /\ l.at < l.offset[v])
  BY <1>3 DEF Up1, Alike
<1>4. QED
  BY <1>2, <1>3

LEMMA BrowseDownIs ==
  ASSUME NEW l, ListOK(l)
  PROVE  Alike(l, BrowseDown(l))
<1>1. End(l) \in Nat /\ l.at \in Nat /\ l.at <= End(l) /\ "main" \in Views /\ "lcd" \in Views
  BY ListIs DEF Views
<1>2. CASE l.at = End(l)
  <2>1. 0 \in 0 .. End(l)
    BY <1>1
  <2>2. QED
    BY <1>2, <2>1, MoveToIs DEF BrowseDown
<1>3. CASE l.at # End(l)
  <2> DEFINE w == MoveTo(l, l.at + 1)
             m == Down1(w, "main")
             n == Down1(m, "lcd")
  <2>1. BrowseDown(l) = IF m.at = End(m) THEN m ELSE n
    BY <1>3 DEF BrowseDown
  <2>2. l.at + 1 \in 0 .. End(l)
    BY <1>1, <1>3
  <2>3. Alike(l, w) /\ ListOK(w)
    BY <2>2, MoveToIs, AlikeIs
  <2> HIDE DEF w
  <2>4. Alike(w, m) /\ ListOK(m)
    BY <1>1, <2>3, Down1Is, AlikeIs
  <2> HIDE DEF m
  <2>5. Alike(m, n)
    BY <1>1, <2>4, Down1Is
  <2> HIDE DEF n
  <2>6. QED
    BY <2>1, <2>3, <2>4, <2>5, AlikeAgain
<1>4. QED
  BY <1>2, <1>3

LEMMA BrowseUpIs ==
  ASSUME NEW l, ListOK(l)
  PROVE  Alike(l, BrowseUp(l))
<1>1. End(l) \in Nat /\ l.at \in Nat /\ l.at <= End(l) /\ "main" \in Views /\ "lcd" \in Views
  BY ListIs DEF Views
<1>2. CASE l.at = 0
  <2>1. End(l) \in 0 .. End(l)
    BY <1>1
  <2>2. QED
    BY <1>2, <2>1, MoveToIs DEF BrowseUp
<1>3. CASE l.at # 0
  <2> DEFINE w == MoveTo(l, l.at - 1)
             m == Up1(w, "main")
             n == Up1(m, "lcd")
  <2>1. BrowseUp(l) = IF m.at = 0 THEN m ELSE n
    BY <1>3 DEF BrowseUp
  <2>2. l.at - 1 \in 0 .. End(l)
    BY <1>1, <1>3
  <2>3. Alike(l, w) /\ ListOK(w)
    BY <2>2, MoveToIs, AlikeIs
  <2> HIDE DEF w
  <2>4. Alike(w, m) /\ ListOK(m)
    BY <1>1, <2>3, Up1Is, AlikeIs
  <2> HIDE DEF m
  <2>5. Alike(m, n)
    BY <1>1, <2>4, Up1Is
  <2> HIDE DEF n
  <2>6. QED
    BY <2>1, <2>3, <2>4, <2>5, AlikeAgain
<1>4. QED
  BY <1>2, <1>3

LEMMA PageDownIs ==
  ASSUME NEW l, ListOK(l), NEW v \in Views
  PROVE  Alike(l, PageDown(l, v))
<1> DEFINE bottom == l.offset[v] + Rows[v] - 1
           m == IF l.at = bottom THEN [l EXCEPT !.offset[v] = l.at] ELSE l
           n == m.offset[v] + Rows[v] - 1
<1>1. PageDown(l, v) = MoveTo(m, Min({n, End(l)}))
  BY DEF PageDown
<1>2. Alike(l, m)
  <2>1. l.at \in 0 .. End(l)
    BY DEF ListOK
  <2>2. Alike(l, [l EXCEPT !.offset[v] = l.at])
    BY <2>1, WindowMoves
  <2>3. QED
    BY <2>2 DEF Alike
<1> HIDE DEF m
<1>3. ListOK(m) /\ End(m) = End(l)
  BY <1>2, AlikeIs
<1>4. End(l) \in Nat /\ n \in Nat
  <2>1. m.offset[v] \in Nat /\ Rows[v] \in Nat /\ Rows[v] > 1 /\ End(m) \in Nat
    BY <1>3, ListIs
  <2>2. QED
    BY <1>3, <2>1
<1> HIDE DEF n
<1>5. Min({n, End(l)}) \in 0 .. End(m)
  BY <1>3, <1>4, MinOfTwo
<1>6. Alike(m, MoveTo(m, Min({n, End(l)})))
  BY <1>3, <1>5, MoveToIs
<1>7. QED
  BY <1>1, <1>2, <1>6, AlikeAgain

LEMMA PageUpIs ==
  ASSUME NEW l, ListOK(l), NEW v \in Views
  PROVE  Alike(l, PageUp(l, v))
<1> DEFINE top == Max({l.at - Rows[v], 0})
           m   == IF l.at = l.offset[v] THEN [l EXCEPT !.offset[v] = top] ELSE l
<1>1. PageUp(l, v) = MoveTo(m, m.offset[v])
  BY DEF PageUp
<1>2. l.at \in Nat /\ l.at <= End(l) /\ End(l) \in Nat /\ Rows[v] \in Nat
  BY ListIs
<1>3. top \in 0 .. End(l)
  <2>1. l.at - Rows[v] \in Int /\ 0 \in Int
    BY <1>2
  <2>2. QED
    BY <1>2, <2>1, MaxOfTwo
<1> HIDE DEF top
<1>4. Alike(l, m)
  <2>1. Alike(l, [l EXCEPT !.offset[v] = top])
    BY <1>3, WindowMoves
  <2>2. QED
    BY <2>1 DEF Alike
<1> HIDE DEF m
<1>5. ListOK(m)
  BY <1>4, AlikeIs
<1>6. m.offset[v] \in 0 .. End(m)
  BY <1>5 DEF ListOK
<1>7. Alike(m, MoveTo(m, m.offset[v]))
  BY <1>5, <1>6, MoveToIs
<1>8. QED
  BY <1>1, <1>4, <1>7, AlikeAgain

LEMMA SearchIs ==
  ASSUME NEW l, ListOK(l), NEW prefix
  PROVE  Alike(l, Search(l, prefix))
<1> DEFINE after == {i \in Matching(l, prefix) : i > l.at}
           found == IF after # {} THEN after ELSE Matching(l, prefix)
<1>1. Search(l, prefix) = IF found = {} \/ Min(found) = 0 THEN l ELSE MoveTo(l, Min(found))
  BY DEF Search
<1>2. End(l) \in Nat
  BY ListIs
<1>3. found \in SUBSET (0 .. End(l))
  BY DEF Matching
<1> HIDE DEF found
<1>4. IsFiniteSet(found) /\ found \in SUBSET Int
  <2>1. IsFiniteSet(0 .. End(l))
    BY <1>2, FS_Interval
  <2>2. IsFiniteSet(found)
    BY <1>3, <2>1, FS_Subset
  <2>3. QED
    BY <1>2, <1>3, <2>2
<1>5. CASE found # {}
  <2>1. Min(found) \in 0 .. End(l)
    BY <1>3, <1>4, <1>5, MinIs
  <2>2. Alike(l, MoveTo(l, Min(found)))
    BY <2>1, MoveToIs
  <2>3. QED
    BY <1>1, <1>5, <2>2 DEF Alike
<1>6. CASE found = {}
  BY <1>1, <1>6 DEF Alike
<1>7. QED
  BY <1>5, <1>6

\* Other letters.
LEMMA PrefixIs ==
  ASSUME NEW x, Settled(x), NEW p \in Seq(Typing), Len(p) < BufferSize
  PROVE  Settled([x EXCEPT !.prefix = p])
<1> DEFINE y == [x EXCEPT !.prefix = p]
<1>1. x \in Browsers /\ Sound(x)
  BY DEF Settled, Sound, Whole
<1>2. y \in Browsers /\ y.prefix = p /\ y.list = x.list /\ Same(x, y) /\ SameList(x, y)
  BY <1>1 DEF Browsers, Same, SameList
<1> HIDE DEF y
<1>3. Sound(y)
  BY <1>1, <1>2 DEF Sound, Whole
<1>4. QED
  BY <1>2, <1>3, SettledStays DEF y

LEMMA NoneIs ==
  ASSUME NEW x, Ready(x)
  PROVE  Fine(Redrawn(x, [x EXCEPT !.prefix = <<>>]))
<1>1. <<>> \in Seq(Typing) /\ Len(<<>>) < BufferSize
  BY BrowserAssumption
<1>2. Settled([x EXCEPT !.prefix = <<>>])
  BY <1>1, PrefixIs DEF Ready, Fine
<1>3. QED
  BY <1>2, RedrawnIs

LEMMA LetterIs ==
  ASSUME NEW x, Ready(x), NEW c \in Typing
  PROVE  Fine(Letter(x, c))
<1> DEFINE p == Typed(x, c)
           l == Search(x.list, p)
           w == [x EXCEPT !.list = l]
           y == [w EXCEPT !.prefix = p]
<1>1. x \in Browsers /\ Settled(x) /\ Sound(x) /\ ListOK(x.list) /\ Len(x.prefix) < BufferSize
  BY DEF Ready, Fine, Settled, Sound, Whole
<1>2. p \in Seq(Typing) /\ Len(p) < BufferSize
  <2>1. x.prefix \in Seq(Typing) /\ BufferSize \in Nat
    BY <1>1, BrowserAssumption DEF Browsers
  <2>2. QED
    BY <1>1, <2>1 DEF Typed
<1>3. Letter(x, c) = Redrawn(x, [x EXCEPT !.prefix = p, !.list = l])
  BY <1>1 DEF Letter, Browsers
<1> HIDE DEF p
<1>4. Alike(x.list, l)
  BY <1>1, SearchIs
<1> HIDE DEF l
<1>5. Sound(w) /\ Same(x, w) /\ SameList(x, w)
  BY <1>1, <1>4, ListChanges
<1>6. [x EXCEPT !.prefix = p, !.list = l] = y
  BY <1>1 DEF Browsers
<1> HIDE DEF w
<1>7. Settled(y)
  BY <1>1, <1>2, <1>5, SettledStays, PrefixIs
<1>8. QED
  BY <1>3, <1>6, <1>7, RedrawnIs

\* Whatever is pressed.
LEMMA HandledIs ==
  ASSUME NEW x, Ready(x), NEW key \in AllKeys
  PROVE  Fine(Handled(x, key))
<1>1. Whole(x) /\ x.caddy = <<>> /\ ListOK(x.list)
  BY DEF Ready, Fine, Settled, Sound
<1>2. CASE key = "select"
  BY <1>2, SelectIs DEF Handled
<1>3. CASE key = "done"
  BY <1>3, DoneIs DEF Handled
<1>4. CASE key = "back"
  BY <1>1, <1>4, PopFolderIs, FreshIsFine DEF Handled, Ready
<1>5. CASE key = "exit"
  BY <1>5, ExitIs DEF Handled
<1>6. CASE key = "insert"
  BY <1>6, InsertKeyIs DEF Handled
<1>7. CASE key = "protect"
  BY <1>7, WriteProtectIs DEF Handled
<1>8. CASE key = "makelst"
  BY <1>8, MakeLSTIs DEF Handled
<1>9. CASE key = "autoload"
  BY <1>1, <1>9, AutoMountIs DEF Handled
<1>10. "main" \in Views /\ "lcd" \in Views /\ End(x.list) \in Nat
  BY <1>1, ListIs DEF Views
<1>11. CASE key = "down"
  BY <1>1, <1>11, BrowseDownIs, NavigatedIs DEF Handled
<1>12. CASE key = "up"
  BY <1>1, <1>12, BrowseUpIs, NavigatedIs DEF Handled
<1>13. CASE key = "pagedown"
  BY <1>1, <1>10, <1>13, PageDownIs, NavigatedIs DEF Handled
<1>14. CASE key = "pageup"
  BY <1>1, <1>10, <1>14, PageUpIs, NavigatedIs DEF Handled
<1>15. CASE key = "lcddown"
  BY <1>1, <1>10, <1>15, PageDownIs, NavigatedIs DEF Handled
<1>16. CASE key = "lcdup"
  BY <1>1, <1>10, <1>16, PageUpIs, NavigatedIs DEF Handled
<1>17. CASE key = "home"
  <2>1. 0 \in 0 .. End(x.list)
    BY <1>10
  <2>2. QED
    BY <1>1, <1>17, <2>1, MoveToIs, NavigatedIs DEF Handled
<1>18. CASE key = "end"
  <2>1. End(x.list) \in 0 .. End(x.list)
    BY <1>10
  <2>2. QED
    BY <1>1, <1>18, <2>1, MoveToIs, NavigatedIs DEF Handled
<1>19. CASE key = "none"
  BY <1>19, NoneIs DEF Handled
<1>20. QED
  BY <1>2, <1>3, <1>4, <1>5, <1>6, <1>7, <1>8, <1>9, <1>11, <1>12, <1>13, <1>14, <1>15, <1>16,
     <1>17, <1>18, <1>19 DEF AllKeys

-----------------------------------------------------------------------------
(* The loop *)

\* Between two passes: in "browse" the browser is ready for a key; and in either
\* mode the list is whole, and the caddy's images are of the current folder.
Held(x) == Sound(x) /\ Chosen(x) /\ Here(x) /\ Rooted(x) /\ InFolder(x)
Outcome(x, m) == Held(x) /\ (m = "browse" => Ready(x)) /\ m \in {"browse", "emulate"}
Inv == Outcome(b, mode) /\ viaIEC \in BOOLEAN /\ left \in 0 .. MaxChanges

LEMMA ReadyOutcome ==
  ASSUME NEW x, Ready(x), NEW m \in {"browse", "emulate"}
  PROVE  Outcome(x, m)
  BY DEF Outcome, Held, Ready, Fine, Settled

LEMMA EndsIs ==
  ASSUME NEW x, Fine(x)
  PROVE  Outcome(x, IF x.made /\ x.caddy # <<>> THEN "emulate" ELSE "browse")
<1> DEFINE m == IF x.made /\ x.caddy # <<>> THEN "emulate" ELSE "browse"
<1>1. m \in {"browse", "emulate"} /\ (m = "browse" => x.caddy = <<>>)
  BY DEF Fine, Settled
<1> HIDE DEF m
<1>2. Outcome(x, m)
  BY <1>1 DEF Outcome, Held, Ready, Fine, Settled
<1>3. QED
  BY <1>2 DEF m

\* Only files or folders are others, not what is shown.
LEMMA StillReady ==
  ASSUME NEW x, Ready(x), NEW y, Whole(y), Still(x, y), y.devices = x.devices,
         Elsewhere \/ Cwd(y) = Cwd(x)
  PROVE  Ready(y)
<1>1. Sound(x) /\ Chosen(x) /\ Here(x) /\ Rooted(x) /\ Shown(x) /\ x.caddy = <<>> /\ (~x.refused => Matched(x))
  BY DEF Ready, Fine, Settled
<1>2. Sound(y) /\ Chosen(y) /\ (Matched(x) => Matched(y)) /\ Shown(y)
  BY <1>1, StillStays
<1>3. Here(y) /\ Rooted(y) /\ InFolder(y)
  BY <1>1 DEF Here, Rooted, InFolder, Still
<1>4. QED
  BY <1>1, <1>2, <1>3 DEF Ready, Fine, Settled, Still

\* There is something in the caddy, or nothing has changed.
LEMMA BeneathReady ==
  ASSUME NEW x, Ready(x), NEW y, Whole(y), Beneath(x, y), InFolder(y)
  PROVE  Held(y) /\ (y.caddy = <<>> => Ready(y))
<1>1. Sound(x) /\ Chosen(x) /\ Here(x) /\ Rooted(x) /\ Shown(x) /\ x.caddy = <<>> /\ (~x.refused => Matched(x))
  BY DEF Ready, Fine, Settled
<1>2. Sound(y) /\ Chosen(y) /\ Here(y) /\ Rooted(y)
  BY <1>1 DEF Beneath, Sound, Chosen, Here, Rooted, Cwd
<1>3. Shown(y) /\ (~y.refused => Matched(y))
  BY <1>1 DEF Beneath, Shown, Picture, Matched
<1>4. QED
  BY <1>1, <1>2, <1>3 DEF Held, Ready, Fine, Settled

Mounted(x, name) ==
  IF Readable(x, name) THEN Insert(x, <<name>>)
  ELSE IF Has(x, name) /\ The(x, name).kind = "list" THEN SelectLST(x, name) ELSE x

LEMMA MountedIs ==
  ASSUME NEW x, Ready(x), NEW name \in Nat
  PROVE  Outcome(Mounted(x, name), IF Mounted(x, name).caddy # <<>> THEN "emulate" ELSE "browse")
<1> DEFINE y == Mounted(x, name)
           m == IF y.caddy # <<>> THEN "emulate" ELSE "browse"
<1>1. Whole(x) /\ x.caddy = <<>> /\ InFolder(x) /\ Held(x)
  BY DEF Ready, Fine, Settled, Sound, Held
<1>2. <<name>> \in Seq(Nat)
  OBVIOUS
<1>3. Held(y) /\ (y.caddy = <<>> => Ready(y))
  <2>1. CASE Readable(x, name)
    <3> DEFINE z == Insert(x, <<name>>)
    <3>1. Whole(z) /\ Beneath(x, z) /\ InFolder(z)
      BY <1>1, <1>2, InsertIs
    <3>2. y = z
      BY <2>1 DEF Mounted
    <3> HIDE DEF y, z
    <3>3. QED
      BY <3>1, <3>2, BeneathReady
  <2>2. CASE ~Readable(x, name) /\ Has(x, name) /\ The(x, name).kind = "list"
    <3> DEFINE z == SelectLST(x, name)
    <3>1. Whole(z) /\ Beneath(x, z) /\ InFolder(z)
      BY <1>1, SelectLSTIs
    <3>2. y = z
      BY <2>2 DEF Mounted
    <3> HIDE DEF y, z
    <3>3. QED
      BY <3>1, <3>2, BeneathReady
  <2>3. CASE ~Readable(x, name) /\ ~(Has(x, name) /\ The(x, name).kind = "list")
    <3>1. y = x
      BY <2>3 DEF Mounted
    <3> HIDE DEF y
    <3>2. QED
      BY <1>1, <3>1
  <2>4. QED
    BY <2>1, <2>2, <2>3
<1> HIDE DEF y
<1>4. m \in {"browse", "emulate"} /\ (m = "browse" => y.caddy = <<>>)
  OBVIOUS
<1> HIDE DEF m
<1>5. Outcome(y, m)
  BY <1>3, <1>4 DEF Outcome
<1>6. QED
  BY <1>5 DEF m, y

LEMMA FirstIs ==
  ASSUME Init
  PROVE  Inv
<1> DEFINE x == [drive |-> Devices[1], cwd |-> [d \in Range(Devices) |-> <<d>>], files |-> FirstFiles,
                 devices |-> FALSE, list |-> <<>>, selections |-> <<>>, prefix |-> <<>>,
                 caddy |-> <<>>, made |-> FALSE, drawn |-> <<>>, missed |-> FALSE, refused |-> FALSE]
           c == Chdir(x, <<Devices[1], Home>>)
<1>1. b = FolderChanged(c)
  BY DEF Init, FolderChanged
<1>2. Devices[1] \in Volumes
  BY FoldersAre
<1>3. [d \in Range(Devices) |-> <<d>>] \in Cwds
  BY FoldersAre DEF Cwds, Volumes
<1>4. FirstFiles \in Stores
  BY BrowserAssumption DEF Stores
<1>5. x \in Browsers
  <2>1. <<>> \in Seq(Nat) /\ <<>> \in Seq(Typing) /\ <<>> \in Seq(Places)
    OBVIOUS
  <2>2. QED
    BY <1>2, <1>3, <1>4, <2>1 DEF Browsers
<1>6. Whole(x)
  <2>1. x.prefix = <<>> /\ Len(<<>>) < BufferSize
    BY BrowserAssumption
  <2>2. QED
    BY <1>5, <2>1 DEF Whole
<1>7. x.caddy = <<>> /\ x.drive = Devices[1]
  OBVIOUS
<1> HIDE DEF x
<1>8. Whole(c) /\ Still(x, c)
  BY <1>6, <1>7, ChdirIs
<1> HIDE DEF c
<1>9. Ready(b)
  BY <1>1, <1>7, <1>8, FreshShown
<1>10. mode = "browse" /\ viaIEC = FALSE /\ left = MaxChanges /\ MaxChanges \in Nat
  <2>1. mode = "browse" /\ viaIEC = FALSE /\ left = MaxChanges
    BY Zenon DEF Init
  <2>2. MaxChanges \in Nat
    BY BrowserAssumption
  <2>3. QED
    BY <2>1, <2>2
<1>11. mode \in {"browse", "emulate"} /\ left \in 0 .. MaxChanges
  BY <1>10
<1>12. viaIEC \in BOOLEAN
  BY <1>10
<1>13. Outcome(b, mode)
  BY <1>9, <1>11, ReadyOutcome
<1>14. QED
  BY <1>11, <1>12, <1>13 DEF Inv

LEMMA PassStays ==
  ASSUME Inv, Pass
  PROVE  Inv'
<1>1. Ready(b) /\ left \in 0 .. MaxChanges /\ viaIEC \in BOOLEAN /\ MaxChanges \in Nat
  BY BrowserAssumption DEF Inv, Outcome, Pass
<1>2. left' >= 0 /\ viaIEC' = viaIEC
  BY DEF Pass
<1>3. (\E key \in Keys : Ends(Handled(b, key)) /\ left' \in {left, left - 1})
      \/ (\E c \in Typing : Ends(Letter(b, c)) /\ left' = left)
  BY DEF Pass
<1>4. left' \in 0 .. MaxChanges
  BY <1>1, <1>2, <1>3
<1>5. CASE \E key \in Keys : Ends(Handled(b, key))
  <2>1. PICK key \in Keys : Ends(Handled(b, key))
    BY <1>5
  <2>2. key \in AllKeys
    BY BrowserAssumption
  <2>3. Fine(Handled(b, key))
    BY <1>1, <2>2, HandledIs
  <2>4. Outcome(b', mode')
    BY <2>1, <2>3, EndsIs DEF Ends
  <2>5. QED
    BY <1>1, <1>2, <1>4, <2>4 DEF Inv
<1>6. CASE \E c \in Typing : Ends(Letter(b, c))
  <2>1. PICK c \in Typing : Ends(Letter(b, c))
    BY <1>6
  <2>2. Fine(Letter(b, c))
    BY <1>1, LetterIs
  <2>3. Outcome(b', mode')
    BY <2>1, <2>2, EndsIs DEF Ends
  <2>4. QED
    BY <1>1, <1>2, <1>4, <2>3 DEF Inv
<1>7. QED
  BY <1>3, <1>5, <1>6

LEMMA ComputerSelectsStays ==
  ASSUME Inv, ComputerSelects
  PROVE  Inv'
<1>1. Ready(b) /\ Whole(b) /\ b \in Browsers /\ left \in 0 .. MaxChanges /\ left' = left
  BY DEF Inv, Outcome, ComputerSelects, Ready, Fine, Settled, Sound, Whole
<1>2. PICK d \in Folders : /\ d[1] = b.drive /\ (Elsewhere \/ d = Cwd(b))
                           /\ \E f \in b.files[d] : Mounts(Chdir(b, d), f.name)
  BY DEF ComputerSelects
<1>3. PICK f \in b.files[d] : Mounts(Chdir(b, d), f.name)
  BY <1>2
<1> DEFINE y == Chdir(b, d)
<1>4. f.name \in Nat
  <2>1. b.files \in Stores
    BY <1>1, CwdIs
  <2>2. f \in Files
    BY <2>1 DEF Stores
  <2>3. QED
    BY <2>2 DEF Files, FileNames
<1>5. Ready(y)
  <2>1. /\ Whole(y) /\ Still(b, y) /\ y.devices = b.devices
        /\ Cwd(y) = IF d \in Folders THEN d ELSE Cwd(b)
    BY <1>1, <1>2, ChdirIs
  <2> HIDE DEF y
  <2>2. Elsewhere \/ Cwd(y) = Cwd(b)
    BY <1>2, <2>1
  <2>3. QED
    BY <1>1, <2>1, <2>2, StillReady
<1> DEFINE z == Mounted(y, f.name)
<1>6. b' = z /\ viaIEC' = TRUE /\ mode' = IF z.caddy # <<>> THEN "emulate" ELSE "browse"
  BY <1>3 DEF Mounts, Mounted
<1> HIDE DEF y
<1>7. Outcome(z, IF z.caddy # <<>> THEN "emulate" ELSE "browse")
  BY <1>4, <1>5, MountedIs
<1> HIDE DEF z
<1>8. Outcome(b', mode')
  BY <1>6, <1>7
<1>9. QED
  BY <1>1, <1>6, <1>8 DEF Inv

LEMMA NewDiskStays ==
  ASSUME Inv, NewDisk
  PROVE  Inv'
<1> DEFINE name == AutoNames[NextAutoName(b)]
           y == NewD64(b, name)
           z == Mounted(y, name)
<1>1. /\ Ready(b) /\ Whole(b) /\ b.caddy = <<>> /\ left \in 0 .. MaxChanges /\ MaxChanges \in Nat
      /\ left > 0 /\ left' = left - 1 /\ viaIEC \in BOOLEAN
  BY BrowserAssumption DEF Inv, Outcome, NewDisk, Ready, Fine, Settled, Sound
<1>2. name \in FileNames /\ name \in Nat
  BY BrowserAssumption DEF NewDisk, FileNames
<1>3. (Ends(y) /\ viaIEC' = viaIEC) \/ Mounts(y, name)
  BY DEF NewDisk
<1> HIDE DEF name
<1>4. Ready(y)
  BY <1>1, <1>2, NewD64Is
<1> HIDE DEF y
<1>5. CASE Ends(y) /\ viaIEC' = viaIEC
  <2>1. Outcome(b', mode')
    BY <1>4, <1>5, EndsIs DEF Ends, Ready
  <2>2. QED
    BY <1>1, <1>5, <2>1 DEF Inv
<1>6. CASE Mounts(y, name)
  <2>1. b' = z /\ viaIEC' = TRUE /\ mode' = IF z.caddy # <<>> THEN "emulate" ELSE "browse"
    BY <1>6 DEF Mounts, Mounted
  <2>2. Outcome(z, IF z.caddy # <<>> THEN "emulate" ELSE "browse")
    BY <1>2, <1>4, MountedIs
  <2> HIDE DEF z
  <2>3. Outcome(b', mode')
    BY <2>1, <2>2
  <2>4. QED
    BY <1>1, <2>1, <2>3 DEF Inv
<1>7. QED
  BY <1>3, <1>5, <1>6

LEMMA ComputerMovesStays ==
  ASSUME Inv, ComputerMoves
  PROVE  Inv'
<1>1. Inv /\ mode = "browse" /\ mode' = mode /\ viaIEC' = viaIEC /\ left' = left
  BY DEF ComputerMoves, Shows
<1>2. Ready(b) /\ Whole(b) /\ b.caddy = <<>>
  BY <1>1 DEF Inv, Outcome, Ready, Fine, Settled, Sound
<1>3. Ready(b')
  <2>1. CASE \E d \in Folders : ~b.devices /\ d[1] = b.drive /\ Shows(FolderChanged(Chdir(b, d)))
    <3>1. PICK d \in Folders : d[1] = b.drive /\ Shows(FolderChanged(Chdir(b, d)))
      BY <2>1
    <3>2. Whole(Chdir(b, d)) /\ Still(b, Chdir(b, d))
      BY <1>2, <3>1, ChdirIs
    <3>3. Ready(FolderChanged(Chdir(b, d)))
      BY <1>2, <3>2, FreshShown
    <3>4. QED
      BY <3>1, <3>3 DEF Shows
  <2>2. CASE Shows(PopFolder(b))
    <3>1. Ready(PopFolder(b))
      BY <1>2, PopFolderIs, FreshIsFine
    <3>2. QED
      BY <2>2, <3>1 DEF Shows
  <2>3. CASE \E d \in Range(Devices) : Shows(FolderChanged(SwitchTo(b, d)))
    <3>1. PICK d \in Volumes : Shows(FolderChanged(SwitchTo(b, d)))
      BY <2>3 DEF Volumes
    <3>2. Whole(SwitchTo(b, d)) /\ Still(b, SwitchTo(b, d))
      BY <1>2, SwitchToIs
    <3>3. Ready(FolderChanged(SwitchTo(b, d)))
      BY <1>2, <3>2, FreshShown
    <3>4. QED
      BY <3>1, <3>3 DEF Shows
  <2>4. CASE Shows(IF ToRoot THEN DisplayRoot(b) ELSE b)
    <3>1. Ready(DisplayRoot(b))
      BY <1>2, DisplayRootIs, FreshIsFine
    <3>2. QED
      BY <1>2, <2>4, <3>1 DEF Shows
  <2>5. QED
    BY <2>1, <2>2, <2>3, <2>4 DEF ComputerMoves
<1>4. QED
  BY <1>1, <1>3, ReadyOutcome DEF Inv

LEMMA ComputerWritesStays ==
  ASSUME Inv, ComputerWrites
  PROVE  Inv'
<1>1. /\ mode = "browse" /\ mode' = mode /\ viaIEC' = viaIEC /\ viaIEC \in BOOLEAN
      /\ left \in 0 .. MaxChanges /\ MaxChanges \in Nat /\ left > 0 /\ left' = left - 1
  BY BrowserAssumption DEF ComputerWrites, Inv
<1>2. Ready(b) /\ Whole(b) /\ b.caddy = <<>>
  BY <1>1 DEF Inv, Outcome, Ready, Fine, Settled, Sound
<1>3. PICK name \in Saved :
        \/ b' = FolderChanged(Delete(b, name))
        \/ b' = FolderChanged(Create(b, File(name, "image", <<>>)))
        \/ b' = Create(b, File(name, "image", <<>>))
  BY DEF ComputerWrites
<1> DEFINE f == File(name, "image", <<>>)
<1>4. f \in Files
  <2>1. name \in FileNames /\ "image" \in Kinds \ {"dir"} /\ <<>> \in Seq(Nat)
    BY BrowserAssumption DEF Kinds
  <2>2. QED
    BY <2>1, FileIs
<1> HIDE DEF f
<1> DEFINE y == Create(b, f)
           z == Delete(b, name)
<1>5. Whole(y) /\ Still(b, y) /\ y.devices = b.devices /\ Cwd(y) = Cwd(b)
  BY <1>2, <1>4, CreateIs
<1>6. Whole(z) /\ Still(b, z)
  BY <1>2, DeleteIs
<1>7. b' = FolderChanged(z) \/ b' = FolderChanged(y) \/ b' = y
  BY <1>3 DEF f
<1> HIDE DEF y, z
<1>8. Ready(FolderChanged(z)) /\ Ready(FolderChanged(y)) /\ Ready(y)
  BY <1>2, <1>5, <1>6, FreshShown, StillReady
<1>9. Ready(b')
  BY <1>7, <1>8
<1>10. left' \in 0 .. MaxChanges
  BY <1>1
<1>11. QED
  BY <1>1, <1>9, <1>10, ReadyOutcome DEF Inv

LEMMA EmulationEndsStays ==
  ASSUME Inv, EmulationEnds
  PROVE  Inv'
<1> DEFINE x == [b EXCEPT !.caddy = <<>>]
<1>1. /\ b \in Browsers /\ Sound(b) /\ Here(b) /\ Rooted(b) /\ left \in 0 .. MaxChanges
      /\ mode' = "browse" /\ viaIEC' = FALSE /\ left' = left
  BY DEF Inv, Outcome, Held, Sound, Whole, EmulationEnds
<1>2. \/ b' = RefeshDisplay(ClearSelections(DisplayRoot(x)))
      \/ b' = RefeshDisplay(ClearSelections(x))
  BY DEF EmulationEnds
<1>3. /\ x \in Browsers /\ x.caddy = <<>> /\ x.list = b.list /\ x.prefix = b.prefix /\ x.cwd = b.cwd
      /\ x.drive = b.drive /\ x.devices = b.devices
  <2>1. <<>> \in Seq(Places)
    OBVIOUS
  <2>2. QED
    BY <1>1, <2>1 DEF Browsers
<1> HIDE DEF x
<1>4. Whole(x) /\ Sound(x) /\ Here(x) /\ Rooted(x)
  BY <1>1, <1>3 DEF Sound, Whole, Here, Rooted, Cwd
<1> DEFINE y == DisplayRoot(x)
<1>5. Sound(y) /\ Here(y) /\ Rooted(y) /\ y.caddy = <<>>
  BY <1>3, <1>4, DisplayRootIs DEF Fresh
<1> HIDE DEF y
<1>6. Ready(RefeshDisplay(ClearSelections(x))) /\ Ready(RefeshDisplay(ClearSelections(y)))
  BY <1>3, <1>4, <1>5, ClearSelectionsIs, DrawnIsFine
<1>7. Ready(b')
  BY <1>2, <1>6 DEF y
<1>8. QED
  BY <1>1, <1>7, ReadyOutcome DEF Inv

LEMMA Inductive == Spec => []Inv
<1>1. Init => Inv
  BY FirstIs
<1>2. Inv /\ [Next]_vars => Inv'
  <2>1. ASSUME Inv, Next PROVE Inv'
    BY <2>1, PassStays, ComputerSelectsStays, NewDiskStays, ComputerMovesStays, ComputerWritesStays,
       EmulationEndsStays DEF Next
  <2>2. ASSUME Inv, UNCHANGED vars PROVE Inv'
    BY <2>2 DEF vars, Inv
  <2>3. QED
    BY <2>1, <2>2
<1>3. QED
  BY <1>1, <1>2, PTL DEF Spec

-----------------------------------------------------------------------------
(* What the browser promises *)

\* The current folders are folders of their volumes, the cursor and the windows are
\* within the list, the letters fit their buffer, and no number of an entry is past
\* the images there are, whatever the keys and the computer's commands
\* (FileBrowser.cpp 159-352, 1033-1263).
THEOREM TypeCorrect == Spec => []TypeOK
<1>1. Inv => TypeOK
  <2> SUFFICES ASSUME Inv PROVE TypeOK
    OBVIOUS
  <2>1. /\ b \in Browsers /\ Sound(b) /\ Chosen(b) /\ ListOK(b.list) /\ Len(b.prefix) < BufferSize
    BY DEF Inv, Outcome, Held, Sound, Whole
  <2>2. b.drive \in Range(Devices) /\ \A d \in Range(Devices) : b.cwd[d] \in Folders /\ b.cwd[d][1] = d
    <3>1. b.drive \in Volumes /\ b.cwd \in Cwds
      BY <2>1, CwdIs
    <3>2. QED
      BY <3>1 DEF Cwds, Volumes
  <2>3. /\ b.list.entries # <<>> /\ b.list.at \in 0 .. End(b.list) /\ b.list.cur \in {None, b.list.at}
        /\ \A v \in Views : b.list.offset[v] \in 0 .. End(b.list)
    BY <2>1 DEF ListOK
  <2>4. \A e \in Range(b.list.entries) : e.kind \in Kinds /\ e.caddy \in None .. Cardinality(Images(b.list))
    <3>1. ASSUME NEW i \in DOMAIN b.list.entries
          PROVE  /\ b.list.entries[i].kind \in Kinds
                 /\ b.list.entries[i].caddy \in None .. Cardinality(Images(b.list))
      <4>1. b.list.entries[i].kind \in Kinds
        BY <2>1, ListIs DEF Entries
      <4>2. b.list.entries[i].caddy \in Numbers(b.list)
        BY <2>1 DEF Chosen
      <4>3. Numbers(b.list) = None .. Cardinality(Images(b.list))
        BY <2>1, NumbersAre DEF Numbers
      <4>4. QED
        BY <4>1, <4>2, <4>3
    <3>2. QED
      BY <3>1 DEF Range
  <2>5. {b.devices, b.made, b.missed, b.refused, viaIEC} \subseteq BOOLEAN
    BY <2>1, Zenon DEF Inv, Browsers
  <2>6. mode \in {"browse", "emulate"} /\ left \in 0 .. MaxChanges
    BY DEF Inv, Outcome
  <2>7. QED
    BY <2>1, <2>2, <2>3, <2>4, <2>5, <2>6 DEF TypeOK
<1>2. QED
  BY <1>1, Inductive, PTL

\* In every state of the browser in which nothing has been left undrawn, the screens
\* show the list, the cursor and the selections there are, and both windows have the
\* entry that the keys act on (FileBrowser.cpp 159-185, 256-352, 1106-1263).
THEOREM Screens == Spec => []ScreenShowsList
<1>1. Inv => ScreenShowsList
  BY DEF Inv, Outcome, Ready, Fine, Shown, ScreenShowsList
<1>2. QED
  BY <1>1, Inductive, PTL

\* The numbers on the entries are those of the selections, and each selection has its
\* entry, as long as no image has been refused (FileBrowser.cpp 1033-1104).
THEOREM NumbersAreRight == Spec => []NumbersMatch
<1>1. Inv => NumbersMatch
  <2> SUFFICES ASSUME Inv, mode = "browse", ~b.refused PROVE Matched(b)
    BY DEF NumbersMatch, Matched
  <2>1. QED
    BY DEF Inv, Outcome, Ready, Fine, Settled
<1>2. QED
  BY <1>1, Inductive, PTL

\* When the computer selects images in the current folder alone, the caddy's images
\* are of the folder whose list is shown; when it selects them elsewhere the list stays
\* that of the folder before (FileBrowser.cpp 1048, 1332-1377).
THEOREM CaddyIsOfTheList == ~Elsewhere => (Spec => []CaddyFromList)
<1> SUFFICES ASSUME ~Elsewhere PROVE Spec => []CaddyFromList
  OBVIOUS
<1>1. Inv => CaddyFromList
  BY DEF Inv, Outcome, Held, Here, InFolder, CaddyFromList
<1>2. QED
  BY <1>1, Inductive, PTL
=============================================================================
