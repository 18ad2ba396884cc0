----------------------------- MODULE Emulator ------------------------------
(***************************************************************************)
(* The life of the drive: emulator() of main.cpp, on core 1, browses the   *)
(* card until images are selected, puts them in the caddy, emulates a 1541 *)
(* with one of them in it, and writes them back when emulation ends.       *)
(* UpdateScreen(), on core 0, shows the caddy and serves the network       *)
(* meanwhile.  The cores share the caddy, emulating, the file system's     *)
(* current folder and the lock core0RefreshingScreen.                      *)
(*                                                                         *)
(* One step of core 1 is a pass of the browse loop or a cycle of the 1541; *)
(* the caddy is emptied one image at a time.  One step of core 0 is what   *)
(* it does between two accesses to shared state.  An image's content is    *)
(* the number of writes it has taken.                                      *)
(***************************************************************************)
EXTENDS Naturals, SequencesExt

CONSTANTS
  Files,       \* names of disk images
  Unreadable,  \* the folders and names of images the caddy refuses
  NoFile,      \* no image
  AutoMount,   \* the option AutoMountImage: a name, or NoFile
  ToRoot,      \* the option OnResetChangeToStartingFolder
  ResetLimit,  \* cycles of reset that do not yet end emulation (10 in the code)
  MaxWrites,   \* bound on the writes of the computer
  HasLCD,      \* an LCD is attached: core 0 takes the lock to draw the track
  Uploads      \* files are uploaded over the network

Home == "home"    \* /1541
Away == "away"    \* any other folder
Folders == {Home, Away}

ASSUME EmulatorAssumption ==
  /\ Unreadable \subseteq Folders \X Files
  /\ NoFile \notin Files
  /\ AutoMount \in Files \union {NoFile}
  /\ ResetLimit \in Nat /\ MaxWrites \in Nat
  /\ {ToRoot, HasLCD, Uploads} \subseteq BOOLEAN

VARIABLES
  at,             \* where core 1 is in emulator()
  emulating, exitReason,
  disks, selectedIndex, oldCaddyIndex,   \* the caddy
  gone,           \* how many of disks Empty has deleted
  drive,          \* the index in disks of the image in the drive
  selections, selectionsMade,            \* the file browser's
  enter, enterPrev, buttonSelect,        \* the button, and what was read of it
  swapRequest,    \* directDiskSwapRequest
  reset, resetCount,
  lock,           \* who holds core0RefreshingScreen
  screen,         \* where core 0 is in UpdateScreen()
  caddyIndex,     \* its local
  cwd,            \* the current folder of the file system
  card,           \* the content of each image of each folder
  meant           \* what the computer wrote on them

lineVars    == <<enter, reset>>
caddyVars   == <<disks, selectedIndex, oldCaddyIndex, gone, drive>>
browserVars == <<selections, selectionsMade>>
inputVars   == <<enterPrev, buttonSelect, swapRequest, resetCount>>
screenVars  == <<screen, caddyIndex>>
vars == <<at, emulating, exitReason, caddyVars, browserVars, lineVars, inputVars,
          lock, screenVars, cwd, card, meant>>

Places  == {"begin", "setup", "browse", "resetting", "clear", "display", "shown", "start", "run",
            "exited", "empty", "waitReset", "waitButtons"}
Reasons == {"EXIT_UNKNOWN", "EXIT_RESET", "EXIT_CD", "EXIT_KEYBOARD", "EXIT_AUTOLOAD"}
Modes   == {"IEC_COMMANDS", "EMULATING_1541"}

\* dir is where the image was read; the code keeps the name only.
Images  == [file : Files, dir : Folders, data : Nat, dirty : BOOLEAN]

TypeOK ==
  /\ at \in Places /\ emulating \in Modes /\ exitReason \in Reasons
  /\ disks \in Seq(Images)
  /\ selectedIndex \in Nat /\ oldCaddyIndex \in Nat /\ gone \in Nat /\ drive \in Nat
  /\ selections \in Seq(Files)
  /\ {selectionsMade, enter, enterPrev, buttonSelect, reset} \subseteq BOOLEAN
  /\ swapRequest \subseteq Nat /\ resetCount \in 0 .. ResetLimit + 1
  /\ lock \in {"free", "core0", "core1"}
  /\ screen \in {"status", "drawing", "check", "old", "new", "net"}
  /\ caddyIndex \in Nat /\ cwd \in Folders
  /\ card \in [Folders -> [Files -> Nat]] /\ meant \in [Folders -> [Files -> Nat]]

Init ==
  /\ at = "begin" /\ emulating = "IEC_COMMANDS" /\ exitReason = "EXIT_UNKNOWN"
  /\ disks = <<>> /\ selectedIndex = 0 /\ oldCaddyIndex = 0 /\ gone = 0 /\ drive = 0
  /\ selections = <<>> /\ selectionsMade = FALSE
  /\ enter = FALSE /\ enterPrev = FALSE /\ buttonSelect = FALSE
  /\ swapRequest = {} /\ reset = FALSE /\ resetCount = 0
  /\ lock = "free" /\ screen = "status" /\ caddyIndex = 0 /\ cwd = Home
  /\ card = [d \in Folders |-> [f \in Files |-> 0]]
  /\ meant = card

-----------------------------------------------------------------------------
(* The file browser and the caddy.  A state of theirs is a record b. *)

Browser == [selections |-> selections, made |-> selectionsMade,
            disks |-> disks, cwd |-> cwd]

Readable(b, f) == <<b.cwd, f>> \notin Unreadable

\* DiskCaddy::Insert for every name of a sequence: the images that can be read
\* are pushed back.  Names are looked up in the current folder.
Load(b, names) ==
  b.disks \o [i \in DOMAIN names |->
                [file |-> names[i], dir |-> b.cwd,
                 data |-> card[b.cwd][names[i]], dirty |-> FALSE]]

\* AddImageToCaddy: a name is selected once.
Select(b, f) ==
  IF \E i \in DOMAIN b.selections : b.selections[i] = f THEN b
  ELSE [b EXCEPT !.selections = Append(@, f)]

\* The names that can be read, in order: the n-th has n - 1 of them before it.
Good(b) ==
  LET good   == {i \in DOMAIN b.selections : Readable(b, b.selections[i])}
      nth(n) == CHOOSE i \in good : Cardinality({k \in good : k < i}) = n - 1
  IN  [n \in 1 .. Cardinality(good) |-> b.selections[nth(n)]]

\* FillCaddyWithSelections: what cannot be read leaves the selections, and it
\* answers that there were any.
Fill(b) == [b EXCEPT !.disks = Load(b, Good(b)), !.selections = Good(b),
                     !.made = b.selections # <<>>]

\* RefreshFolderEntries, after f_chdir: selections are of the folder shown.
Folder(b, d) == [b EXCEPT !.cwd = d, !.selections = <<>>]

\* CheckAutoMountImage.
AutoMounted(b, reason) ==
  IF AutoMount = NoFile \/ reason \in {"EXIT_CD", "EXIT_KEYBOARD"} THEN b
  ELSE Fill([Folder(b, Home) EXCEPT !.selections = <<AutoMount>>])

Browsed(b) == /\ selections' = b.selections /\ selectionsMade' = b.made
              /\ disks' = b.disks /\ cwd' = b.cwd

\* What UpdateInputFolders does for each thing a user can ask.
Asks == {"select", "insert", "done", "exit", "folder", "autoload", "none"}
Handled(ask, f) ==
  \/ ask = "select"   /\ Browsed(Fill(Select(Browser, f)))
  \/ ask = "insert"   /\ Browsed(Select(Browser, f))
  \/ ask = "done"     /\ Browsed(Fill(Browser))
  \/ ask = "exit"     /\ Browsed([Browser EXCEPT !.made = FALSE, !.selections = <<>>])
  \/ ask = "folder"   /\ \E d \in Folders : Browsed(Folder(Browser, d))
  \/ ask = "autoload" /\ Browsed(AutoMounted(Browser, "EXIT_RESET"))
  \/ ask = "none"     /\ Browsed(Browser)

\* BeginEmulating, when asked to, on the caddy as it then is.  The first image
\* goes into the drive; without one the buttons are waited for.
BeginEmulating(asked) ==
  IF asked /\ disks' # <<>>
  THEN /\ emulating' = "EMULATING_1541" /\ at' = "display"
       /\ selectedIndex' = 0 /\ drive' = 0
  ELSE /\ at' = IF asked THEN "clear" ELSE "browse"
       /\ selectedIndex' = IF disks' = disks THEN selectedIndex ELSE Len(disks') - 1
       /\ UNCHANGED <<emulating, drive>>

Acquire == lock = "free" /\ lock' = "core1"

\* The image mounted by itself runs from the next pass on.  In that pass the user
\* presses no key and the computer is not reset, nor selects an image: each of
\* these would mount it once more, and the older of the two be saved last.
BetweenMountAndRun == /\ AutoMount # NoFile
                      /\ at = "setup" \/ (at = "browse" /\ selectionsMade /\ disks # <<>>)

-----------------------------------------------------------------------------
(* Core 1 browses *)

BeginBrowse ==
  /\ at = "begin" /\ ~reset /\ Acquire /\ at' = "setup"
  /\ UNCHANGED <<emulating, exitReason, caddyVars, browserVars, lineVars, inputVars,
                 screenVars, cwd, card, meant>>

Setup ==
  /\ at = "setup" /\ lock' = "free"
  /\ Browsed(AutoMounted([Browser EXCEPT !.selections = <<>>, !.made = FALSE],
                         exitReason))
  /\ BeginEmulating(FALSE)
  /\ buttonSelect' = FALSE
  /\ exitReason' = "EXIT_UNKNOWN"    \* not read again before it is set
  /\ UNCHANGED <<oldCaddyIndex, gone, lineVars, enterPrev, swapRequest, resetCount,
                 screenVars, card, meant>>

\* SimulateIECUpdate waits while the computer is in reset, and answers RESET.
BrowseReset ==
  /\ at = "browse" /\ reset /\ at' = "resetting"
  /\ UNCHANGED <<emulating, exitReason, caddyVars, browserVars, lineVars, inputVars,
                 lock, screenVars, cwd, card, meant>>

BrowseAgain ==
  /\ at = "resetting" /\ ~reset
  /\ Browsed(AutoMounted(IF ToRoot THEN Folder(Browser, Home) ELSE Browser,
                         "EXIT_UNKNOWN"))
  /\ BeginEmulating(FALSE)
  /\ UNCHANGED <<exitReason, oldCaddyIndex, gone, lineVars, inputVars, lock, screenVars,
                 card, meant>>

\* SimulateIECUpdate answers NONE: the file browser looks at the keyboard and,
\* when nothing changed there, at the buttons.  The flag of a button that was
\* let go stays until the buttons are looked at again, and goes before a key.
Released == enterPrev /\ ~enter
BrowseKey(ask, f) ==
  /\ at = "browse" /\ ~reset
  /\ buttonSelect => ask = "select"
  /\ BetweenMountAndRun => ask = "none"
  /\ Handled(ask, f)
  /\ BeginEmulating(selectionsMade')
  /\ oldCaddyIndex' = IF disks' = disks /\ ~selectionsMade' THEN oldCaddyIndex ELSE 0
  /\ UNCHANGED <<exitReason, gone, lineVars, inputVars, lock, screenVars, card, meant>>

BrowseButtons(f) ==
  /\ at = "browse" /\ ~reset
  /\ BetweenMountAndRun => ~Released
  /\ Handled(IF Released THEN "select" ELSE "none", f)
  /\ BeginEmulating(selectionsMade')
  /\ oldCaddyIndex' = IF Released THEN 0 ELSE oldCaddyIndex
  /\ buttonSelect' = Released /\ enterPrev' = enter
  /\ UNCHANGED <<exitReason, gone, lineVars, swapRequest, resetCount, lock, screenVars,
                 card, meant>>

\* SimulateIECUpdate answers IMAGE_SELECTED.
BrowseImage(f) ==
  /\ at = "browse" /\ ~reset /\ ~BetweenMountAndRun
  /\ disks' = IF Readable(Browser, f) THEN Load(Browser, <<f>>) ELSE disks
  /\ BeginEmulating(Readable(Browser, f))
  /\ oldCaddyIndex' = 0
  /\ UNCHANGED <<exitReason, gone, browserVars, lineVars, inputVars, lock, screenVars,
                 cwd, card, meant>>

\* WaitForClearButtons, where BeginEmulating found no image and where the caddy
\* was emptied.  It takes the button as it is: no press is pending after it.
ClearButtons ==
  /\ at \in {"clear", "waitButtons"} /\ ~enter
  /\ enterPrev' = FALSE /\ buttonSelect' = FALSE
  /\ IF at = "clear" THEN at' = "browse" /\ UNCHANGED lock
                     ELSE at' = "begin" /\ lock' = "free"
  /\ UNCHANGED <<emulating, exitReason, caddyVars, browserVars, lineVars, swapRequest,
                 resetCount, screenVars, cwd, card, meant>>

-----------------------------------------------------------------------------
(* Core 1 emulates *)

Display ==
  /\ at = "display" /\ Acquire /\ at' = "shown"
  /\ UNCHANGED <<emulating, exitReason, caddyVars, browserVars, lineVars, inputVars,
                 screenVars, cwd, card, meant>>

EndDisplay ==
  /\ at = "shown" /\ lock' = "free" /\ at' = "start"
  /\ UNCHANGED <<emulating, exitReason, caddyVars, browserVars, lineVars, inputVars,
                 screenVars, cwd, card, meant>>

\* Emulate1541 waits until the computer is out of reset, and starts.
BeginCycles ==
  /\ at = "start" /\ ~reset /\ at' = "run"
  /\ exitReason' = "EXIT_UNKNOWN" /\ swapRequest' = {} /\ resetCount' = 0
  /\ UNCHANGED <<emulating, caddyVars, browserVars, lineVars, enterPrev, buttonSelect,
                 lock, screenVars, cwd, card, meant>>

\* The computer writes on the disk in the drive.
Written == MapThenSumSet(LAMBDA p : meant[p[1]][p[2]], Folders \X Files)
Write ==
  /\ at = "run" /\ drive < Len(disks)
  /\ LET image == disks[drive + 1]
     IN  /\ Written < MaxWrites
         /\ meant' = [meant EXCEPT ![image.dir][image.file] = @ + 1]
         /\ disks' = [disks EXCEPT ![drive + 1].data = @ + 1, ![drive + 1].dirty = TRUE]
  /\ UNCHANGED <<at, emulating, exitReason, selectedIndex, oldCaddyIndex, gone, drive,
                 browserVars, lineVars, inputVars, lock, screenVars, cwd, card>>

\* The swaps at the end of a cycle.  The button named next takes the previous
\* image, and the other way round.  (SelectedOnly leaves the drive alone when an
\* image is named by its number.)
Inserted(i) == selectedIndex' = i /\ drive' = i
SelectedOnly(pick, i) ==
  IF pick = {} THEN UNCHANGED <<selectedIndex, drive>>
  ELSE selectedIndex' = i /\ UNCHANGED drive
Picked(pick, i) ==
  IF pick = {} THEN UNCHANGED <<selectedIndex, drive>> ELSE Inserted(i)

\* PrevDisk wraps around.  (Below does not.)
Below(n) == selectedIndex - 1
PrevDisk(n) == (selectedIndex + n - 1) % n
NextDisk(n) == (selectedIndex + 1) % n

\* (What is wanted but not looked at any more is dropped.)
Swapped(next, prev, wanted, last) ==
  LET n    == Len(disks)
      pick == {i \in wanted : i < n /\ i # selectedIndex}
      left == IF last THEN {} ELSE wanted
      low  == CHOOSE i \in pick : \A k \in pick : i <= k
  IN  IF n <= 1 THEN UNCHANGED <<selectedIndex, drive>> /\ swapRequest' = left
      ELSE IF next THEN Inserted(PrevDisk(n)) /\ swapRequest' = left
      ELSE IF prev THEN Inserted(NextDisk(n)) /\ swapRequest' = left
      ELSE Picked(pick, low) /\ swapRequest' = {}

\* One cycle: the keyboard and the buttons, the bus's reset line, the 1541's
\* instruction (which may be the one that carries out CD:_), the swaps.
Keys == {"none", "esc", "next", "prev", "auto"}
Cycle(key, button, digits, cd) ==
  LET esc   == key = "esc" \/ (button = "none" /\ Released)
      count == IF reset THEN Min({resetCount, ResetLimit}) + 1 ELSE 0
  IN  /\ at = "run"
      /\ digits # {} => key = "none" /\ Len(disks) > 1
      /\ emulating' = IF cd THEN "IEC_COMMANDS" ELSE emulating
      /\ exitReason' = IF key = "auto" THEN "EXIT_AUTOLOAD"
                       ELSE IF esc THEN "EXIT_KEYBOARD"
                       ELSE IF reset /\ (cd \/ count > ResetLimit) THEN "EXIT_RESET"
                       ELSE IF cd THEN "EXIT_CD" ELSE "EXIT_UNKNOWN"
      /\ at' = IF exitReason' = "EXIT_UNKNOWN" THEN "run" ELSE "exited"
      /\ resetCount' = IF at' = "run" THEN count ELSE 0
      /\ Swapped(key = "next" \/ button = "up", key = "prev" \/ button = "down",
                 swapRequest \union digits, at' = "exited")
      /\ enterPrev' = IF button = "none" THEN enter ELSE enterPrev
      /\ buttonSelect' = FALSE
      /\ UNCHANGED <<disks, oldCaddyIndex, gone, browserVars, lineVars, lock, screenVars,
                     cwd, card, meant>>

-----------------------------------------------------------------------------
(* Core 1 empties the caddy *)

BeginEmpty ==
  /\ at = "exited" /\ Acquire /\ at' = "empty"
  /\ UNCHANGED <<emulating, exitReason, caddyVars, browserVars, lineVars, inputVars,
                 screenVars, cwd, card, meant>>

\* An image that was written is saved under its name; every image is deleted.
\* (SavedInDrive saves only the one in the drive.)
SavedInDrive(image) ==
  IF image.dirty /\ gone = drive
  THEN [card EXCEPT ![cwd][image.file] = image.data] ELSE card
Saved(image) ==
  IF image.dirty THEN [card EXCEPT ![cwd][image.file] = image.data] ELSE card

CloseImage ==
  /\ at = "empty" /\ gone < Len(disks)
  /\ card' = Saved(disks[gone + 1])
  /\ gone' = gone + 1
  /\ UNCHANGED <<at, emulating, exitReason, disks, selectedIndex, oldCaddyIndex, drive,
                 browserVars, lineVars, inputVars, lock, screenVars, cwd, meant>>

EndEmpty ==
  /\ at = "empty" /\ gone = Len(disks)
  /\ disks' = <<>> /\ gone' = 0 /\ selectedIndex' = 0 /\ oldCaddyIndex' = 0
  /\ drive' = 0    \* no image: the code's pointer is left, and not used
  /\ at' = "waitReset"
  /\ UNCHANGED <<emulating, exitReason, browserVars, lineVars, inputVars, lock,
                 screenVars, cwd, card, meant>>

LeaveEmulation ==
  /\ at = "waitReset" /\ ~reset /\ at' = "waitButtons"
  /\ emulating' = "IEC_COMMANDS"
  /\ Browsed(IF exitReason = "EXIT_RESET" /\ ToRoot THEN Folder(Browser, Home) ELSE Browser)
  /\ buttonSelect' = FALSE
  /\ UNCHANGED <<exitReason, selectedIndex, oldCaddyIndex, gone, drive, lineVars,
                 enterPrev, swapRequest, resetCount, lock, screenVars, card, meant>>

-----------------------------------------------------------------------------
(* Core 0, each time an interrupt wakes it *)

Core0Unchanged == UNCHANGED <<at, emulating, exitReason, disks, selectedIndex, gone,
                              drive, browserVars, lineVars, inputVars, card, meant>>

\* (Holding forgets to let the lock go.)
Holding == UNCHANGED lock
Release == lock' = "free"

\* The head of the 1541 has moved: the track goes to the LCD, under the lock.
BeginTrack ==
  /\ screen = "status" /\ HasLCD /\ emulating = "EMULATING_1541"
  /\ lock = "free" /\ lock' = "core0" /\ screen' = "drawing"
  /\ Core0Unchanged /\ UNCHANGED <<oldCaddyIndex, caddyIndex, cwd>>

EndTrack ==
  /\ screen = "drawing" /\ Release /\ screen' = "check"
  /\ Core0Unchanged /\ UNCHANGED <<oldCaddyIndex, caddyIndex, cwd>>

\* DiskCaddy::Update, without the lock: it compares the indices, shows the old
\* image as not selected, and then the selected one.
CheckCaddy ==
  /\ screen \in {"status", "check"}
  /\ IF emulating # "IEC_COMMANDS" /\ selectedIndex # oldCaddyIndex
     THEN screen' = "old" /\ caddyIndex' = selectedIndex
     ELSE screen' = "net" /\ caddyIndex' = caddyIndex
  /\ Core0Unchanged /\ UNCHANGED <<oldCaddyIndex, lock, cwd>>

\* (ShownStill leaves the index of the image it shows as it was.)
ShownStill == UNCHANGED oldCaddyIndex
Shown == oldCaddyIndex' = caddyIndex
ShowOld ==
  /\ screen = "old" /\ screen' = "new" /\ Shown
  /\ Core0Unchanged /\ UNCHANGED <<lock, caddyIndex, cwd>>
ShowNew ==
  /\ screen = "new" /\ screen' = "net" /\ caddyIndex' = 0
  /\ Core0Unchanged /\ UNCHANGED <<oldCaddyIndex, lock, cwd>>

\* Net::Update.  An upload is written to the folder it names, and the current
\* folder of the file system stays there.
NetUpdate ==
  /\ screen = "net" /\ screen' = "status"
  /\ \/ cwd' = cwd
     \/ Uploads /\ cwd' \in Folders
  /\ Core0Unchanged /\ UNCHANGED <<oldCaddyIndex, lock, caddyIndex>>

-----------------------------------------------------------------------------
(* The computer and the user *)

ResetLine ==
  /\ BetweenMountAndRun => reset
  /\ reset' = ~reset
  /\ UNCHANGED <<at, emulating, exitReason, caddyVars, browserVars, enter, inputVars,
                 lock, screenVars, cwd, card, meant>>

EnterButton ==
  /\ enter' = ~enter
  /\ UNCHANGED <<at, emulating, exitReason, caddyVars, browserVars, reset, inputVars,
                 lock, screenVars, cwd, card, meant>>

-----------------------------------------------------------------------------
Browse ==
  \/ BeginBrowse \/ Setup \/ BrowseReset \/ BrowseAgain \/ ClearButtons
  \/ \E f \in Files : BrowseButtons(f) \/ BrowseImage(f)
  \/ \E f \in Files, ask \in Asks : BrowseKey(ask, f)

Emulate ==
  \/ Display \/ EndDisplay \/ BeginCycles \/ Write
  \/ \E key \in Keys, button \in {"none", "up", "down"}, cd \in BOOLEAN :
       \E digits \in SUBSET (0 .. Len(disks) - 1) : Cycle(key, button, digits, cd)

Empty == BeginEmpty \/ CloseImage \/ EndEmpty \/ LeaveEmulation

Core0 == \/ BeginTrack \/ EndTrack \/ CheckCaddy \/ ShowOld \/ ShowNew
         \/ NetUpdate

Next == Browse \/ Emulate \/ Empty \/ Core0 \/ ResetLine \/ EnterButton

Spec == Init /\ [][Next]_vars

\* Both cores run for ever, interrupts keep coming, nobody holds the button or
\* the computer in reset for ever, and the lock is got by a core that keeps
\* asking for it.
FairSpec ==
  /\ Spec
  /\ WF_vars(Core0) /\ SF_vars(Display \/ BeginEmpty \/ BeginBrowse)
  /\ WF_vars(Setup) /\ WF_vars(CloseImage) /\ WF_vars(EndEmpty)
  /\ SF_vars(LeaveEmulation) /\ SF_vars(ClearButtons)
  /\ WF_vars(reset /\ ResetLine) /\ WF_vars(enter /\ EnterButton)

-----------------------------------------------------------------------------
(* Properties *)

\* While the 1541 runs, the disk in the drive is the one the caddy has
\* selected, by whatever key, button or number it was chosen, and the caddy
\* holds it.
DriveMatchesCaddy ==
  at \in {"display", "shown", "start", "run", "exited"} =>
    /\ drive = selectedIndex
    /\ drive < Len(disks)

\* What the computer wrote on any image of the caddy is on the card, in the
\* folder the image came from, once the drive is back in browse mode.
WritesReachCard ==
  emulating = "IEC_COMMANDS" /\ disks = <<>> => card = meant

\* Emulation that was ended ends: the caddy is emptied and the computer is
\* served in browse mode again.
EmulationEnds == (at = "exited") ~> (at = "browse")

\* The image core 0 shows as selected is in the end the selected one, unless the
\* user swaps again.
SelectionShown ==
  \A i \in 0 .. 1 :
    (at = "run" /\ selectedIndex = i) ~> (oldCaddyIndex = i \/ selectedIndex # i)
=============================================================================
