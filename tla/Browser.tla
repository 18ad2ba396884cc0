------------------------------ MODULE Browser ------------------------------
(***************************************************************************)
(* The file browser (FileBrowser.cpp) and the main loop around it: the     *)
(* list of a folder with its cursor, seen through a window on the main     *)
(* screen and one on the LCD, the images selected for the caddy, the       *)
(* folders and devices, the search by letters, and what the computer's     *)
(* commands change under it.                                               *)
(*                                                                         *)
(* One step is a pass of the loop: a key and all it does, or a command of  *)
(* the computer.  A file is its name, a number whose two digits are its    *)
(* letters, and what it is.  ROMs, the device number, pictures and the     *)
(* protection of folders are left out; the automatic mount at a reset is   *)
(* in Emulator.                                                            *)
(***************************************************************************)
EXTENDS Integers, SequencesExt, FiniteSetsExt

CONSTANTS
  Devices,      \* <<SD, USB01, ...>>, their names
  Folders,      \* paths: sequences of names that begin with a device's
  Home,         \* the name of the folder /1541
  FirstFiles,   \* [Folders -> the files there at first]
  Unreadable,   \* names of images the caddy refuses
  AutoSwap,     \* the name autoswap.lst
  AutoNames,    \* the names new disks get, in their order
  AutoMount,    \* the option AutoMountImage: an image
  Saved,        \* names of files the computer writes and deletes
  Rows,         \* [Views -> the rows of the window]
  BufferSize,   \* of the letters searched for, 512 in the code
  ToRoot,       \* the option OnResetChangeToStartingFolder
  Keys,         \* what the user asks for
  Typing,       \* and the letters that are typed
  Elsewhere,    \* the computer selects images in other folders than the current one
  MaxChanges    \* bound on the files written, protected and deleted

Views == {"main", "lcd"}
Up == 0          \* the entry ".."
None == -1       \* no entry, no place in the caddy
Letters(name) == <<name \div 10, name % 10>>

Kinds == {"dir", "image", "list", "other"}
\* content is what an LST file names.
File(name, kind, content) == [name |-> name, kind |-> kind, rdo |-> FALSE, content |-> content]

FileNames == Nat \ {Up}
Files     == [name : FileNames, kind : Kinds \ {"dir"}, rdo : BOOLEAN, content : Seq(Nat)]
\* What a folder may hold: a name is there once.
Stored(fs) == IsFiniteSet(fs) /\ \A f, g \in fs : f.name = g.name => f = g

AllKeys == {"select", "done", "back", "exit", "insert", "protect", "makelst", "autoload", "down",
            "up", "pagedown", "pageup", "lcddown", "lcdup", "home", "end", "none"}

ASSUME BrowserAssumption ==
  /\ Folders \in SUBSET Seq(FileNames) /\ IsFiniteSet(Folders) /\ <<>> \notin Folders
  /\ Devices \in Seq(FileNames) /\ Devices # <<>>
  /\ \A d \in Range(Devices) : <<d>> \in Folders
  /\ \A d \in Folders : Len(d) > 1 => Front(d) \in Folders
  /\ FirstFiles \in [Folders -> SUBSET Files] /\ \A d \in Folders : Stored(FirstFiles[d])
  /\ {AutoSwap, AutoMount} \subseteq FileNames /\ Saved \in SUBSET FileNames
  /\ AutoNames \in Seq(FileNames) /\ Keys \in SUBSET AllKeys
  /\ \A v \in Views : Rows[v] \in Nat \ {0, 1}
  /\ BufferSize \in Nat \ {0, 1} /\ MaxChanges \in Nat
  /\ {ToRoot, Elsewhere} \subseteq BOOLEAN

VARIABLES
  b,       \* the browser, what it draws, the caddy and the file system: a record
  mode,    \* emulating
  viaIEC,  \* selectedViaIECCommands
  left     \* how many changes of files there may yet be
vars == <<b, mode, viaIEC, left>>

-----------------------------------------------------------------------------
(* The file system: f_chdir and f_chdrive keep a current folder per volume *)

Cwd(x) == x.cwd[x.drive]
Chdir(x, d) == IF d \in Folders THEN [x EXCEPT !.cwd[x.drive] = d] ELSE x
Has(x, name) == \E f \in x.files[Cwd(x)] : f.name = name
The(x, name) == CHOOSE f \in x.files[Cwd(x)] : f.name = name
Delete(x, name) == [x EXCEPT !.files[Cwd(x)] = {f \in @ : f.name # name}]
Create(x, f) == [Delete(x, f.name) EXCEPT !.files[Cwd(x)] = @ \union {f}]

\* DiskCaddy::Insert of a sequence of names, in the current folder.
Readable(x, name) == Has(x, name) /\ The(x, name).kind = "image" /\ name \notin Unreadable
Insert(x, names) ==
  [x EXCEPT !.caddy = @ \o [i \in DOMAIN names |-> [folder |-> Cwd(x), name |-> names[i]]]]

-----------------------------------------------------------------------------
(* The list *)

\* What the list has of a file: its FILINFO and its place in the caddy.
Entry(f) == [name |-> f.name, kind |-> f.kind, rdo |-> f.rdo, caddy |-> None]
Dir(name) == Entry(File(name, "dir", <<>>))
SubFolders(d) == {f[Len(f)] : f \in {f \in Folders : Len(f) = Len(d) + 1 /\ Front(f) = d}}
Before(e, f) ==      \* greater
  \/ e.name = Up /\ f.name # Up
  \/ f.name # Up /\ e.kind = "dir" /\ f.kind # "dir"
  \/ f.name # Up /\ (e.kind = "dir" <=> f.kind = "dir") /\ e.name < f.name
Sorted(es) ==
  [i \in 1 .. Cardinality(es) |->
     CHOOSE e \in es : Cardinality({f \in es : Before(f, e)}) = i - 1]
\* Those of a sequence that are in S.
Kept(s, S) ==
  LET places == {i \in DOMAIN s : s[i] \in S}
  IN  [n \in 1 .. Cardinality(places) |->
         s[CHOOSE i \in places : Cardinality({k \in places : k < i}) = n - 1]]
Listing(x) == Sorted({Entry(f) : f \in x.files[Cwd(x)]}
                       \union {Dir(n) : n \in SubFolders(Cwd(x)) \union {Up}})

End(l) == Len(l.entries) - 1
At(l)   == l.entries[l.at + 1]
SetCurrent(l)  == [l EXCEPT !.cur = l.at]
MoveTo(l, i)   == SetCurrent([l EXCEPT !.at = i])
Selected(x, i) == [x EXCEPT !.list = MoveTo(@, i)]

\* RefreshFolderEntries: the devices' list has no current entry.  What was selected
\* is not kept.  (RefreshKeeping keeps it.)
Listed(x) ==
  [entries |-> IF x.devices THEN [i \in DOMAIN Devices |-> Dir(Devices[i])] ELSE Listing(x),
   folder |-> Cwd(x), at |-> 0, cur |-> IF x.devices THEN None ELSE 0, offset |-> [v \in Views |-> 0]]
RefreshKeeping(x)       == [x EXCEPT !.list = Listed(x)]
RefreshFolderEntries(x) == [x EXCEPT !.list = Listed(x), !.selections = <<>>, !.refused = FALSE]

\* The views' Refresh: unsigned, so that a cursor above the window is out of it,
\* too.
Window(l, v) == l.offset[v] .. (l.offset[v] + Rows[v] - 1)
Refresh(l, v) == IF l.at \in Window(l, v) THEN l.offset[v] ELSE Max({l.at - Rows[v] + 1, 0})

\* RefeshDisplay (sic)
Picture(x) == [entries |-> x.list.entries, at |-> x.list.at, offset |-> x.list.offset,
               selections |-> x.selections, prefix |-> x.prefix]
RefeshDisplay(x) ==
  LET y == [x EXCEPT !.list.offset = [v \in Views |-> Refresh(x.list, v)]]
  IN  [y EXCEPT !.drawn = Picture(y), !.missed = FALSE]
\* (FolderRedrawn does not read the folder.)
FolderRedrawn(x) == RefeshDisplay(x)
FolderChanged(x) == RefeshDisplay(RefreshFolderEntries(x))
DisplayRoot(x)   == FolderChanged(Chdir(x, <<x.drive, Home>>))
SwitchTo(x, d)   == [x EXCEPT !.drive = d, !.devices = FALSE]

\* The folder left is selected in the one above, a device in the devices' list.
PositionOf(x, name) ==
  LET found == {i \in 0 .. End(x.list) : x.list.entries[i + 1].name = name}
  IN  IF found = {} THEN 0 ELSE Min(found)
PopFolder(x) ==
  IF Len(Cwd(x)) = 1
  THEN LET y == RefreshFolderEntries([x EXCEPT !.devices = TRUE])
       IN  RefeshDisplay(Selected(y, PositionOf(y, x.drive)))
  ELSE LET y == RefreshFolderEntries(Chdir(x, Front(Cwd(x))))
           i == PositionOf(y, Last(Cwd(x)))
       IN  RefeshDisplay(IF i = 0 THEN y ELSE Selected(y, i))

-----------------------------------------------------------------------------
(* Selections: names, each with its place in caddySelections *)

Images(l) == {e \in Range(l.entries) : e.kind \in {"image", "list"}}

\* AddImageToCaddy of the entry at i, but for one of the same name.
AddImageToCaddy(x, i) ==
  LET e == x.list.entries[i + 1]
  IN  IF e \notin Images(x.list) \/ e.name \in Range(x.selections) THEN x
      ELSE [x EXCEPT !.list.entries[i + 1].caddy = Len(x.selections),
                     !.selections = Append(@, e.name)]
AddFolder(x) ==
  LET y == FolderChanged(x)
      added[n \in 0 .. Len(y.list.entries)] ==     \* the first n
        IF n = 0 THEN y ELSE AddImageToCaddy(added[n - 1], n - 1)
  IN  RefeshDisplay(Selected(added[Len(y.list.entries)], End(y.list)))

\* FillCaddyWithSelections: those that cannot be read leave the selections.
FillCaddyWithSelections(x) ==
  LET good == Kept(x.selections, {n \in Range(x.selections) : Readable(x, n)})
  IN  [Insert(x, good) EXCEPT !.selections = good, !.made = x.selections # <<>>,
                              !.refused = @ \/ good # x.selections]

\* SelectLST: the images it names that are in the list.
SelectLST(x, name) ==
  LET there == {e.name : e \in {e \in Images(x.list) : e.kind = "image" /\ Readable(x, e.name)}}
  IN  Insert(x, IF Has(x, name) THEN Kept(The(x, name).content, there) ELSE <<>>)

ClearSelections(x) ==
  [x EXCEPT !.made = FALSE, !.selections = <<>>, !.refused = FALSE,
            !.list.entries = [i \in DOMAIN @ |-> [@[i] EXCEPT !.caddy = None]]]

\* SelectAutoMountImage, which draws nothing.
SelectAutoMountImage(x) ==
  LET y == RefreshFolderEntries(Chdir(x, <<x.drive, Home>>))
  IN  IF \E e \in Images(y.list) : e.name = AutoMount
      THEN FillCaddyWithSelections([y EXCEPT !.selections = <<AutoMount>>, !.missed = TRUE])
      ELSE [y EXCEPT !.missed = TRUE]

-----------------------------------------------------------------------------
(* UpdateInputFolders *)

Select(x) ==
  LET e == At(x.list)
  IN  IF x.list.cur = None THEN x
      ELSE IF x.devices THEN FolderChanged(SwitchTo(x, e.name))
      ELSE IF e.name = Up THEN PopFolder(x)
      ELSE IF e.kind = "dir" THEN FolderChanged(Chdir(x, Append(Cwd(x), e.name)))
      ELSE IF e.kind = "list"
           THEN LET y == SelectLST(x, e.name)
                IN  RefeshDisplay([y EXCEPT !.made = y.caddy # x.caddy])
      ELSE IF e.kind = "image"
           THEN RefeshDisplay(FillCaddyWithSelections(AddImageToCaddy(x, x.list.at)))
      ELSE x

\* Drawn again if there is something to draw.  (Undrawn forgets it.)
Undrawn(x, y) == y
Redrawn(x, y) == IF y = x THEN x ELSE RefeshDisplay(y)

\* AddToCaddy; a device is a folder to it, but f_chdir does not enter it.
InsertKey(x) ==
  LET e == At(x.list)
  IN  IF x.list.cur = None \/ e.name = Up THEN x
      ELSE IF e.kind # "dir" THEN Redrawn(x, AddImageToCaddy(x, x.list.at))
      ELSE AddFolder(IF x.devices THEN x ELSE Chdir(x, Append(Cwd(x), e.name)))

\* BrowseDone, which draws nothing.
Done(x) ==
  LET y == FillCaddyWithSelections(x)
  IN  [y EXCEPT !.made = x.selections # <<>>, !.missed = @ \/ y.selections # x.selections]

WriteProtect(x) ==
  LET e  == At(x.list)
      on == {f \in x.files[Cwd(x)] : f.name = e.name}
      y  == [x EXCEPT !.list.entries[x.list.at + 1].rdo = ~@,
                      !.files[Cwd(x)] = (@ \ on) \union {[f EXCEPT !.rdo = ~e.rdo] : f \in on}]
  IN  IF x.list.cur = None \/ e.kind = "dir" THEN x ELSE RefeshDisplay(y)

\* BrowseNewD64: the number after the greatest that is listed.
NextAutoName(x) ==
  1 + Max({0} \union {k \in DOMAIN AutoNames :
                        \E e \in Range(x.list.entries) : e.kind # "dir" /\ e.name = AutoNames[k]})
NewD64(x, name) == FolderChanged(IF Has(x, name) THEN x
                                 ELSE Create(x, File(name, "image", <<>>)))

\* MakeLST: the images selected, if there are several, or all that are listed.
MakeLST(x) ==
  LET images == {e \in Images(x.list) : e.kind = "image"}
      listed == Kept(x.list.entries, images)
      names  == IF Len(x.selections) > 1
                THEN Kept(x.selections, {e.name : e \in images})
                ELSE [i \in DOMAIN listed |-> listed[i].name]
      y      == FolderChanged(Create(x, File(AutoSwap, "list", names)))
  IN  IF x.devices THEN y ELSE RefeshDisplay(Selected(y, PositionOf(y, AutoSwap)))

-----------------------------------------------------------------------------
(* CheckBrowseNavigation: the main view moves the cursor and the LCD's      *)
(* window, which comes second, follows it; both have page keys.             *)

\* A window a row further, down or up.
Down1(l, v) == IF l.at >= l.offset[v] + Rows[v] THEN [l EXCEPT !.offset[v] = @ + 1] ELSE l
Up1(l, v)   == IF l.offset[v] > 0 /\ l.at < l.offset[v] THEN [l EXCEPT !.offset[v] = @ - 1] ELSE l

BrowseDown(l) ==
  IF l.at = End(l) THEN MoveTo(l, 0)
  ELSE LET m == Down1(MoveTo(l, l.at + 1), "main")
       IN  IF m.at = End(m) THEN m ELSE Down1(m, "lcd")
BrowseUp(l) ==
  IF l.at = 0 THEN MoveTo(l, End(l))
  ELSE LET m == Up1(MoveTo(l, l.at - 1), "main")
       IN  IF m.at = 0 THEN m ELSE Up1(m, "lcd")

\* To the window's last row, or a page on when there.  (PageDownPast leaves the list.)
PageDownPast(l, v) == MoveTo(l, l.offset[v] + Rows[v] - 1)
PageDown(l, v) ==
  LET bottom == l.offset[v] + Rows[v] - 1
      m      == IF l.at = bottom THEN [l EXCEPT !.offset[v] = l.at] ELSE l
  IN  MoveTo(m, Min({m.offset[v] + Rows[v] - 1, End(l)}))
PageUp(l, v) ==
  LET m == IF l.at = l.offset[v] THEN [l EXCEPT !.offset[v] = Max({l.at - Rows[v], 0})] ELSE l
  IN  MoveTo(m, m.offset[v])

\* A letter: the next entry that begins with those typed, from the cursor's on
\* and around; the first entry of all is not found.
Matching(l, prefix) == {i \in 0 .. End(l) : IsPrefix(prefix, Letters(l.entries[i + 1].name))}
Typed(x, c) == IF Len(x.prefix) < BufferSize - 1 THEN Append(x.prefix, c) ELSE x.prefix
Search(l, prefix) ==
  LET after == {i \in Matching(l, prefix) : i > l.at}
      found == IF after # {} THEN after ELSE Matching(l, prefix)
  IN  IF found = {} \/ Min(found) = 0 THEN l ELSE MoveTo(l, Min(found))

Navigated(x, l) == RefeshDisplay([x EXCEPT !.list = l])
Letter(x, c) == Redrawn(x, [x EXCEPT !.prefix = Typed(x, c), !.list = Search(@, Typed(x, c))])

Handled(x, key) ==
  CASE key = "select"    -> Select(x)
    [] key = "done"      -> Done(x)
    [] key = "back"      -> PopFolder(x)
    [] key = "exit"      -> RefeshDisplay(ClearSelections(x))
    [] key = "insert"    -> InsertKey(x)
    [] key = "protect"   -> WriteProtect(x)
    [] key = "makelst"   -> MakeLST(x)
    [] key = "autoload"  -> SelectAutoMountImage(x)
    [] key = "down"      -> Navigated(x, BrowseDown(x.list))
    [] key = "up"        -> Navigated(x, BrowseUp(x.list))
    [] key = "pagedown"  -> Navigated(x, PageDown(x.list, "main"))
    [] key = "pageup"    -> Navigated(x, PageUp(x.list, "main"))
    [] key = "lcddown"   -> Navigated(x, PageDown(x.list, "lcd"))
    [] key = "lcdup"     -> Navigated(x, PageUp(x.list, "lcd"))
    [] key = "home"      -> Navigated(x, MoveTo(x.list, 0))
    [] key = "end"       -> Navigated(x, MoveTo(x.list, End(x.list)))
    [] key = "none"      -> Redrawn(x, [x EXCEPT !.prefix = <<>>])   \* half a second later

-----------------------------------------------------------------------------
(* emulator() *)

Init ==
  /\ LET x == [drive |-> Devices[1], cwd |-> [d \in Range(Devices) |-> <<d>>], files |-> FirstFiles,
               devices |-> FALSE, list |-> <<>>, selections |-> <<>>, prefix |-> <<>>,
               caddy |-> <<>>, made |-> FALSE, drawn |-> <<>>, missed |-> FALSE, refused |-> FALSE]
     IN  b = RefeshDisplay(RefreshFolderEntries(Chdir(x, <<Devices[1], Home>>)))
  /\ mode = "browse" /\ viaIEC = FALSE /\ left = MaxChanges

\* BeginEmulating, if images were selected and there is one.
Ends(x) == /\ b' = x
           /\ mode' = IF x.made /\ x.caddy # <<>> THEN "emulate" ELSE "browse"

Pass == /\ mode = "browse"
        /\ \/ \E key \in Keys : /\ Ends(Handled(b, key))
                               /\ left' = IF key \in {"protect", "makelst"} THEN left - 1 ELSE left
           \/ \E c \in Typing : Ends(Letter(b, c)) /\ UNCHANGED left
        /\ left' >= 0 /\ UNCHANGED viaIEC

\* The computer selects an image or a list, and FileBrowser::Update is passed over.
Mounts(x, name) ==
  LET y == IF Readable(x, name) THEN Insert(x, <<name>>)
           ELSE IF Has(x, name) /\ The(x, name).kind = "list" THEN SelectLST(x, name) ELSE x
  IN  /\ b' = y /\ viaIEC' = TRUE
      /\ mode' = IF y.caddy # <<>> THEN "emulate" ELSE "browse"
ComputerSelects ==
  /\ mode = "browse" /\ UNCHANGED left
  /\ \E d \in Folders : /\ ~b.devices /\ d[1] = b.drive /\ (Elsewhere \/ d = Cwd(b))
                        /\ \E f \in b.files[d] : Mounts(Chdir(b, d), f.name)

\* A new disk, which the IEC commands then select, unless the computer resets first.
NewDisk ==
  /\ mode = "browse" /\ left > 0 /\ left' = left - 1 /\ NextAutoName(b) \in DOMAIN AutoNames
  /\ LET name == AutoNames[NextAutoName(b)]
     IN  \/ Ends(NewD64(b, name)) /\ UNCHANGED viaIEC
         \/ ~Has(b, name) /\ Mounts(NewD64(b, name), name)

Shows(x) == mode = "browse" /\ b' = x /\ UNCHANGED <<mode, viaIEC, left>>
ComputerMoves ==
  \/ \E d \in Folders : ~b.devices /\ d[1] = b.drive /\ Shows(FolderChanged(Chdir(b, d)))
  \/ Shows(PopFolder(b))
  \/ \E d \in Range(Devices) : Shows(FolderChanged(SwitchTo(b, d)))
  \/ Shows(IF ToRoot THEN DisplayRoot(b) ELSE b)     \* RESET
\* Commands on files show the folder again; a file that is saved does not.
ComputerWrites ==
  /\ mode = "browse" /\ left > 0 /\ left' = left - 1 /\ UNCHANGED <<mode, viaIEC>>
  /\ \E name \in Saved :
       \/ b' = FolderChanged(Delete(b, name))
       \/ b' = FolderChanged(Create(b, File(name, "image", <<>>)))
       \/ b' = Create(b, File(name, "image", <<>>))

EmulationEnds ==
  /\ mode = "emulate" /\ mode' = "browse" /\ viaIEC' = FALSE /\ UNCHANGED left
  /\ \E reset \in BOOLEAN :
       LET x == [b EXCEPT !.caddy = <<>>]
       IN  b' = RefeshDisplay(ClearSelections(
                  IF reset /\ (ToRoot \/ viaIEC) THEN DisplayRoot(x) ELSE x))

Next == Pass \/ ComputerSelects \/ NewDisk \/ ComputerMoves \/ ComputerWrites \/ EmulationEnds
Spec == Init /\ [][Next]_vars

-----------------------------------------------------------------------------
(* Properties *)

Names(l) == {e.name : e \in Range(l.entries)}

TypeOK ==
  /\ b.drive \in Range(Devices) /\ \A d \in Range(Devices) : b.cwd[d] \in Folders /\ b.cwd[d][1] = d
  /\ b.list.entries # <<>> /\ b.list.at \in 0 .. End(b.list) /\ b.list.cur \in {None, b.list.at}
  /\ \A v \in Views : b.list.offset[v] \in 0 .. End(b.list)
  /\ Len(b.prefix) < BufferSize
  /\ \A e \in Range(b.list.entries) : e.kind \in Kinds /\ e.caddy \in None .. Cardinality(Images(b.list))
  /\ {b.devices, b.made, b.missed, b.refused, viaIEC} \subseteq BOOLEAN
  /\ mode \in {"browse", "emulate"} /\ left \in 0 .. MaxChanges

\* What was drawn last is the list, the cursor, the windows and the selections there
\* are, and the entry the keys act on is in the window of each screen, whatever keys,
\* folders and searches came before: every change is followed by its drawing, but an
\* automatic mount that fails and an image that BrowseDone cannot mount, and the two
\* windows move each by rules of its own (FileBrowser.cpp 159-185, 256-352, 1106-1263).
ScreenShowsList ==
  mode = "browse" /\ ~b.missed =>
     b.drawn = Picture(b) /\ \A v \in Views : b.list.at \in Window(b.list, v)

\* An image bears the number it has among the selections, and every selection has an
\* entry that bears its number; a refused image leaves gaps until the list is read
\* again (FileBrowser.cpp 1033-1104).
NumbersMatch ==
  mode = "browse" /\ ~b.refused =>
     /\ \A e \in Range(b.list.entries) :
          e.caddy # None => e.caddy + 1 \in DOMAIN b.selections /\ b.selections[e.caddy + 1] = e.name
     /\ \A i \in DOMAIN b.selections :
          \E e \in Range(b.list.entries) : e.name = b.selections[i] /\ e.caddy = i - 1

\* The caddy takes names, which are those of the current folder: that is the folder
\* whose list the user chose from (FileBrowser.cpp 1048, 1332-1377).
CaddyFromList ==
  \A i \in DOMAIN b.caddy : b.caddy[i].folder = b.list.folder
=============================================================================
