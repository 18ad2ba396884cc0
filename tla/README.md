# A verification development of Pi1541

Pi1541 is a bare-metal program for the Raspberry Pi that replaces a Commodore
disk drive. A computer (C64, VIC-20 ...) talks to it over the serial bus. While
it *browses*, Pi1541 answers the computer's DOS commands itself, on the files of
its SD card. When a disk image is selected it *emulates* a 1541 (or a 1581),
cycle by cycle, with the image in the drive. On a Pi 3 the second core draws the
screen and serves the network, over which files can be uploaded.

This directory holds TLA+ models of the parts of that program where order,
concurrency and boundaries decide whether it works, the TLC runs that check them
on small instances, and TLAPS proofs. Source paths below are relative to the
program's source directory; line numbers are those of the commit the models were
made from, and `PROJECT.json` gives, for every definition, the lines it stands for.

## 1. Inventory

| Component | Source | State it keeps | Operations | Module |
|---|---|---|---|---|
| IEC commands | `iec_commands.cpp/.h` | ATN sequence, role, secondary address, command buffer, 16 channels (file, buffer, cursor, bytes sent), error, selected image | `SimulateIECUpdate`: one code or transfer per call; OPEN, CLOSE, TALK, LISTEN, data; DOS commands CD, MD, RD, S, R, C, N, I, U, T, M, X | IecCommands, DosCommands |
| Bus lines, browse mode | `iec_commands.cpp`, `iec_bus.cpp` | levels of ATN, DATA, CLOCK; who talks | a byte bit by bit in both directions, EOI, ATN's answer, turnaround | IecSerial |
| Bus lines, emulation | `iec_bus.cpp`, `IOPort.h` | port B and its direction, the gate UD3, what the Pi pulls | port writes, reading the lines, refreshing the outputs | BusLines, Pi1541 |
| Life cycle | `main.cpp` | `emulating`, exit reason, counters, the lock `core0RefreshingScreen` | `emulator()` (core 1): browse, emulate, empty the caddy; `UpdateScreen()` (core 0) | Emulator |
| Disk caddy | `DiskCaddy.cpp/.h` | inserted images, selected index, displayed index | insert, swap, empty (saves what was written) | Emulator |
| File browser | `FileBrowser.cpp`, `InputMappings.cpp` | folder, entries, cursor, two windows, selections, search | navigate, select, fill the caddy, LST files, auto-mount | Browser |
| 6522 | `m6522.cpp/.h` | timers, latches, shift register, IFR, IER, CA1 | one cycle; register reads and writes | Via6522 |
| 1541 board | `Pi1541.cpp`, `m6502.h` | two 6522s, the interrupt line | one cycle of the board | Pi1541 |
| 1541 mechanics | `Drive.cpp/.h` | head, motor, density, bit counters, the byte cache, the swap | one cycle; port writes; insertion | Drive, Pi1541 |
| 8520 | `m8520.cpp/.h` | two timers, serial port, flags and mask | one cycle; register reads and writes | M8520 |
| 1581 board | `Pi1581.cpp`, `wd177x.cpp` | controller's command, stage, head, registers; motor and ready line | one cycle; commands, data, status | Pi1581, Wd177x |
| Disk images | `DiskImage.cpp`, `gcr.cpp` | tracks of bits, which were written, sectors of a D64 | open, convert, find a sector, save; a disk in memory for PRG and T64 | Gcr, RamD64, DiskImages |
| TFTP server | `net-tftp.cpp/.h` | the open file, the last block number, (FatFs') current folder | write request, data | Tftp |
| Rest of the network | `net*.cpp` | ARP table, DHCP state, start time | receive, answer | - |
| Snoop | `main.cpp` | position in "CD:_" | one character | (an input of Emulator) |
| Screens, options, ROMs, encoder, 6502, Pi drivers, FatFs, USPi, stb_image, CBM-FileBrowser | several | | | - |

How they interact:

* Core 1 runs `emulator()`. In browse mode it calls `SimulateIECUpdate` and the
  browser's `Update` in a loop. A call of the first takes one code or handles one
  frame and may wait inside for the computer; every wait also looks at ATN and
  RESET. Its result (`IMAGE_SELECTED`, `RESET`, `REFRESH`) moves the life cycle on.
* `FillCaddyWithSelections` and `BeginEmulating` carry the selection into the
  caddy and the drive. In emulation one pass of the loop is one microsecond: bus
  in, processor, buttons, the board's `Update`, bus out.
* The drive reads and writes the bits of the image in the caddy; when emulation
  ends the caddy turns them into sectors again and saves the images.
* Core 0 runs `UpdateScreen()`. It shares the caddy, `emulating`, FatFs (with its
  current folder) and one spin lock with core 1, and calls `Net::Update`.
* TFTP runs inside `Net::Update`, so uploads go on while core 1 does anything.

What is hard, and not reached by running it: ATN between any two bytes or bits of
a transfer; names processed long after they were sent, and files opened later
still; buffers that outlive the transfer they were filled for; two cores on one
caddy; emulation left for four reasons, with several images written and swapped;
lost acknowledgements and repeated packets; 16-bit numbers compared with 32-bit
ones; one-cycle races of programs with timers; three clocks that must agree where
a byte of a track begins; a controller whose disk turns whether or not its program
keeps up; two windows on one list. `PROJECT.json` lists each hazard at its line.

What makes each component correct:

* IEC commands: no byte the computer wrote is lost, bytes read come in order and
  once, EOI tells the truth, a channel serves its own request, no command but
  SCRATCH destroys a file, ATN is always answered.
* Bus lines: both ends count the same bytes, the drive is found, nobody waits for
  an edge that was missed; in emulation both sides see the same lines.
* Life cycle and caddy: the drive holds the selected image, every write reaches
  the image's file, emulation that was ended ends, the screen shows the selection.
* 6522 and 8520: the line follows the flags; a timer interrupts when it should and
  never when it should not.
* Mechanics and controller: bytes read are those of the disk, each once; what is
  written is what was given, and nothing else is; every command ends.
* Browser: keys act on what is shown, numbers and caddy are those of the selection.
* Images: what was written is in the file; every file of a tape is on its disk.
* TFTP: what was acknowledged is kept, what was finished stays, what failed
  failed for a reason.

## 2. Modules

    FileService      what browse mode promises of the computer's files (abstract)
      ^ implemented by
    IecCommands      SimulateIECUpdate, channels, transfers; extends
    DosCommands      the DOS commands on a folder (pure operators)

    ByteLink         what the bus promises of one byte (abstract)
      ^ implemented by
    IecSerial        the three lines, bit by bit, between the drive and a KERNAL

    Emulator         emulator() and UpdateScreen(), caddy, images, display
    Browser          the file browser and the loop around it
    Tftp             the upload server, a client, a lossy network

    IntervalTimer    what a timer of the 6522 promises (abstract)
      ^ implemented twice (timer 1 and timer 2) by
    Pi1541           the 1541's board under any program; extends
    Via6522, Drive, BusLines   the 6522, the mechanics, the lines, as functions

    CountdownTimer   what a timer of the 8520 promises (abstract)
      ^ implemented twice (timer A and timer B) by
    Pi1581           the 1581's board; extends Wd177x, instantiates M8520
    Wd177x           the disk controller and a program that commands it
    M8520            the 8520 as functions

    DiskImages       images opened, written and saved again; extends
    RamD64           a D64 made in memory; extends
    Gcr              tracks of bits and the sectors in them

    *_proofs         theorems and their proofs (section 4)
    MC*              values of the constants for TLC

### IecCommands, DosCommands, FileService

The host (computer) is external and has actions of its own: it pulls and
releases ATN and the clock and chooses codes that the serial protocol allows.
A byte is one step. The device's variables have the names of the members of
`IEC_Commands`. `busy` is the loop a call is waiting in, so that every wait of
the code (`WaitWhile`, `CheckATN`) is a state in which the host may act.
`HandleNext` is the `switch` of `SimulateIECUpdate`; `LoadByte`, `SaveByte` and
the like are passes of the transfer loops; `Complete` is the code after a frame,
where a request is interpreted and a DOS command runs as one step, all of its
file operations included. `fs` is what the directory on the card shows: a file's
written bytes reach it when the file is closed. f_write is taken to succeed.

`Promise` maps each channel to a stream of `FileService`: closed, reading from a
place, or writing data. `KeepsPromise` says every step of the drive is a step of
the service. A talk that is broken off may cost the reader bytes (the rest of
the buffer is skipped, the code's behaviour) but may never repeat one, and EOI
comes exactly with the last byte of a file the computer heard completely.

Simplifications: `FileSize` uses the directory's current length where the code
kept `filInfo.fsize` from the open; `IsAtnAsserted` reads the line at once;
wildcards, folders, T64/P00 headers, device numbers and listing text are left
out (a listing is one block of fixed bytes that goes through channel 0's buffer,
as in the code).

### IecSerial, ByteLink

What IecCommands takes as one step is here the lines: `Device` is a pass of the
loops in `ReadIECSerialPort`, `WriteIECSerialPort`, `SimulateIECUpdate`'s answer
to ATN and the turnaround; `Host` is the KERNAL's side. Time passes in ticks of 10
microseconds. The drive polls in about one, so no time passes while it can go on;
the computer looks at the lines or changes them every 1 to `Reaction` ticks, and a
level it did not look at is lost to it. `KeepsBytes` maps talker and listener to
`ByteLink`.

### Emulator

`at` is where core 1 is in `emulator()`, `screen` where core 0 is in
`UpdateScreen()`. A pass of the browse loop or a cycle of the 1541 is one step of
core 1, the caddy is emptied one image a step, and core 0's steps lie between its
accesses to shared state. The lock is a variable both acquire. An image remembers
its folder (`dir`) only so that `meant`, what the computer wrote on it, can be
compared with `card`. The code keeps the name alone, and so does `CloseImage`:
it writes into `cwd`. `BetweenMountAndRun` is an assumption on the user and the
computer: nobody resets or presses a key in the pass in which an image mounts by
itself. Without it the image is mounted twice (section 6).

### Browser

A step is one pass of the main loop: a key with everything it does to folder,
cursor, windows, selections and screen, a letter of the search, or a command of
the computer (CD, an image, an upload). `screen` is what was drawn last, the
entries with their highlights and the cursor, so that a change without a
`RefreshDisplay` shows as a difference.

### Tftp

The server's handlers are one step each, since `Net::Update` handles one frame to
the end. `Close`, `Target`, `Expected` are the lines of the handlers they name.
The client follows RFC 1350, repeats unanswered packets and may give up. The
network keeps order and loses packets; a late answer crossing a repetition makes
duplicates. `excused` records that a fault or a repetition happened, `promised`
what the client was told.

### Via6522, Drive, BusLines, Pi1541, IntervalTimer

`Via6522`, `Drive` and `BusLines` are functions on records; `Pi1541` alternates
one access of the processor with one `Update`, as `Emulate1541` does, and keeps
`asserted`, the Boolean of `m6502.IRQ`. The program is any sequence of accesses;
`program` says which part of the board it uses (timer 1 and CA1; timer 2 and the
shift register; port B; the drive), as these share nothing but IFR and IER.
`IntervalTimer` promises that a timer loaded with n interrupts exactly `First(n)`
cycles later, once or, running free, every latch + 2 cycles; `TimersKeepPromise`
maps both timers of VIA 0 to it. Timer 2 makes no promise in the modes that count
PB6 or clock the shift register. `passed` is the history of the bits under the
head, against which bytes read and written are compared, and `sensor` that of the
write protect sensor. PB7's output and the contents of the shift register are left
out; CA2, CB1 and CB2 are set once, at reset, in this board.

### Pi1581, M8520, Wd177x, CountdownTimer

A step of `Wd177x` is one byte under the head, since the disk turns only while a
byte is waited for; the delays before and after a command are steps that may come
at any time. The program polls the status and moves bytes at its own pace, or too
late. `M8520` is the chip as functions; `Pi1581` gives it to a program, an access
and an `Update` in turn, with the motor's port and ATN. `TimersKeepPromise` maps
its timers to `CountdownTimer`, timer B counting cycles or timer A's underflows.

### Gcr, RamD64, DiskImages

`ConvertSector`, `DecodeBlock` and `FindSectorHeader` are the code's, on sequences
of bits; `OpenD64`, `WriteD64`, `CreateNewDiskInRAM`, `AddFileToRAMD64` work on
sequences of blocks. Lengths that cost only time (a sector's, a gap's) are
constants. `DiskImages` opens an image, lets the drive write sectors at any phase
or whole tracks, closes it and opens it again.

## 3. Runs

| Run | Instance | Shows |
|---|---|---|
| `iec_files` | one channel, a file of 3 bytes, buffer of 2, up to 3 bytes written, all kinds of requests, opens that fail | reads in order, EOI on the last byte, no byte lost over a buffer's boundary, no leftover of a listing or boot sector in a file, the file open is the file asked for; broken off anywhere |
| `iec_commands` | two files, two channels, SCRATCH, RENAME, COPY of two sources | no command but SCRATCH destroys a file, open or not |
| `iec_reset` | resets, failing opens, image selections, late clock, fairness | channels given up keep their bytes; ATN is answered |
| `iec_serial` | bytes of two bits, two of them, both directions, C64 and VIC-20, fairness | the drive is found, bytes are exchanged exactly, every transfer ends |
| `emu_swap` | two files in two folders, one of them unreadable, auto-mount, two writes | drive = selection; all writes reach the card |
| `emu_exit` | LCD, lock, uploads, fairness | emulation ends; the swap is shown |
| `tftp_uploads` | two uploads of 1 to 3 blocks, numbers mod 3, 3 repetitions, 2 faults | acknowledged blocks kept, finished uploads stay, failures have reasons |
| `via_timers` | one 6522, bytes 0 .. 2; port B and the lines of the bus | line = flags and enables; both timers keep their promise; program and bus see the same |
| `drive_disk` | two disks of three tracks of 6 or 3 bytes of 4 bits, 4 uses of the drive | every byte after a SYNC ready once and right; writing; swaps seen |
| `pi1581_disk` | two images, 2 tracks, 2 sides, 2 sectors of 2 bytes, two commands; 8520 with bytes 0 .. 1 | sectors read and written whole, no others touched, commands end; line and timers of the 8520 |
| `browser_keys` | card and USB drive, two nested folders, an image, a list, an unreadable image, windows of 3 and 2 rows | screen, numbers, caddy are those of the list |
| `disk_images` | three tracks of 2 or 3 sectors of 16 bytes, two writes; tapes of one or two files | sectors survive conversion and saving; files of tapes are found |

Every property of a run has a mutant, a plausible bug in a definition that models
code, under which TLC finds it violated.

Bounds and why they are enough:

* A buffer of 2 and files up to 3 bytes contain every relation of a length to the
  buffer the code distinguishes: empty, part, exactly one buffer, one and a part.
  `iec_commands` uses a buffer of 1 because commands, not boundaries, matter.
* Two channels are the most that can disturb each other through one buffer or one
  file. The command channel 15 is always there.
* `MaxFile` and `MaxSent` bound what the computer writes and hears; `MaxSent`
  bounds the counter of channel 0, which only listings increase.
* `StrictHost` (files, commands): the computer uses one channel per file and
  closes it before it names another, as DOS requires. `iec_reset` drops it.
* A byte of two bits on the serial lines has a first, a last and an edge between
  bits; `Reaction` (4 ticks for a C64 that its video chip stops, 2 for a VIC-20)
  lies within the 34 and 75 microseconds a bit is held (`iec_commands.cpp` 334-335)
  and the 50 between two bytes (307), which `SerialAssumption` demands.
* Two images are enough to swap, wrap and save out of order; `ResetLimit` 1
  stands for 10 samples of the line, `MaxWrites` 2 for any number of writes.
  Uploads are part of `emu_exit` only, because they break `WritesReachCard`
  (section 6).
* TFTP block numbers modulo 3 wrap within an upload of three blocks.
  `MaxUploads`, `MaxRetries` and `MaxFaults` make the run finite, and after them
  the system stops: that run checks no deadlock.
* A byte of 0 .. 2 has the values the 6522's timers single out: 0, and 0xfe and
  0xff as 1 and 2. The 8520's timers single out 0 only, so a byte is 0 .. 1. The
  counter of timer-2 roll-overs stops at 3, as only `> 2` is asked.
* The drive: a byte has 4 bits, a SYNC is 5 ones, one density counts 2 and the
  other 3, one track has a weak end. The program and the user touch the drive
  `MaxUses` (4) times: two of them may disturb a third, and the fourth sees what
  came of it. While the motor turns they do so at the bit in `Places`, one inside
  a byte; other places were run one at a time.
* The controller: two commands, the second of which finds what the first one left.
  Two images, of which one is read-only, two sides and two sectors are each the
  least that can be confused. A program that gave its last command stops: that run
  checks no deadlock.
* The browser: lists longer than both windows and shorter ones, folders one and
  two deep, and one change by the computer. `Elsewhere = FALSE`: the computer does
  not move the current folder away under the list (section 6).
* Disk images: the directory's track lies between two others; blocks of 16 bytes
  keep header, link, checksum and the odd lengths of GCR groups. Tapes have files
  of lengths around one and two blocks, without those that fill a block
  completely, which get no end (section 6).

Fairness:

* `IecCommands!FairSpec`: `SimulateIECUpdate` is called for ever and its waits are
  polling loops, so an enabled device step is taken (weak fairness). Mounting a
  selected image follows in the same pass of the caller. Nothing is assumed of the
  computer, and no transfer of a byte is fair.
* `IecSerial!FairSpec`: time passes, the drive polls (weak). The computer goes on
  from every place where the KERNAL waits for no one but itself (weak), and if it
  can always listen again it does (strong): it may stop between bytes, not inside.
* `Emulator!FairSpec`: both cores run for ever (weak fairness of core 0 and of the
  places of core 1 that always go on). `Acquire` of the lock is strongly fair: the
  exclusive-load loop of `SpinLock` gets a lock that is free again and again,
  which holds in practice but is not enforced by a ticket. The user lets go of the
  button and the computer leaves reset (weak), which `LeaveEmulation` and
  `ClearButtons` wait for.
* `Wd177x!Clocked`: the controller is clocked in every cycle and its disk turns, so
  its own steps, the bytes that pass and the program's polling of the status and
  of the data register are weakly fair. The program need not keep up.

## 4. Proofs

Assumed is only what each module's named assumptions say of the constants, which
TLC evaluates in every run. Everything below holds for every value of them: all
sets of names, all lengths, any bound.

`IecCommands_proofs`:

* `TypeCorrect`: `Spec => []TypeOK`.
* `SequenceKept`: `Spec => []Sequencing`. The drive transfers only while it
  handles a frame, on a channel which that frame named; it never reads outside
  the buffer it sends; it waits for the clock only before the first code; and a
  complete request waits for COMPLETE and nothing else.

`TypeOK` is not inductive: the type of `sendIdx` and `channels` after a transferred
byte depends on where the drive is, and `deviceRole` and `secondaryAddress` outlive
the frame that set them. The inductive invariant is `TypeOK /\ Sequencing`. One
lemma per action shows that it is kept; lemmas on the DOS commands and channel
helpers give the types of what they return.

The same module, for a computer that behaves as a C64's operating system does
(`StrictHost`: it writes a file through one channel at a time, leaves the files it
has open alone, asks for listings on channel 0 only and reads them first) and does
not reset (`~Resets`):

* `BytesAreKept`: `Spec => []NothingLost`, and `ClosingKeeps`:
  `Spec => ClosingKeepsBytes`. What was said on a channel is in its file or its
  buffer, in order and once, and closing the channel stores it.
* `OpenServesItsRequest`: `Spec => []OpenedAsAsked`, and `TalksServeTheirChannel`:
  `Spec => []TalkServesItsChannel`.
* `CommandsSpareFiles`: `Spec => OnlyScratchDestroys`.
* `LoneWriterKeepsBytes`, for any computer, resetting or not: closing the only
  channel that writes a file stores what it has taken.

None of these is inductive, and none is true of every computer: two channels may
write one file (the last one closed wins, which FatFs is not asked to prevent), and
a reset closes channels whose names the computer then gives anew. `KeptInv` adds
what makes them so: an open channel serves the request sent last on it, and has the
only use of its file if it writes (`OpenInv`, `ShareInv`); one that is not open and
was opened by the computer for a file has an empty buffer (`ClosedInv`), so nothing
older is stored in front of what comes; the code and the role say which channel is
meant (`HandleInv`, `RoleInv`); a command that waits names no file in use
(`CommandInv`); and an image is selected when nothing is open (`ImageInv`). A
request counts from the moment it is complete, although the channel gets it at
COMPLETE only: `Asked` looks through `cmdBuffer` as long as it is `Pending`.

And for the same computer:

* `PromiseKept`: `Spec => KeepsPromise`. Seen through its channels, the drive
  implements `FileService`.

The mapping shows a channel's buffer as written already, and a talk as standing
behind the byte sent last. Each step is a step of one stream or none; one lemma for
every action says which. Three things are needed besides `KeptInv` (`PlaceInv`): the
computer has heard no more bytes than the reader's place, and has heard just as many,
outside a talk, only at the beginning or the end of the file, which is what makes a
wrong EOI impossible after an interruption (`ReadInv`); the buffer of a talk holds
the bytes before the FIL's read pointer, and `remaining` is what lies behind it as
long as nothing was skipped (`LoadInv`); and `bytesSent` is what was heard, while
what listings and boot sectors leave in it is gone before a file is opened
(`SentInv`).

`Tftp_proofs`:

* `TypeCorrect`: `Spec => []TypeOK`.
* `AcknowledgedKept`: `Spec => []AcknowledgedIsKept`, `UploadsStay`:
  `Spec => []UploadedStays`, and `FailuresHaveReasons`: `Spec => []FailsForAReason`,
  for any number of uploads, retries, lost packets and faults, and any modulus of
  the block numbers.

None of the three is inductive. `Inv` adds what the network keeps: `InOrder`
(packets of older transfers come first, and those of one transfer never step back,
however often they are repeated), `AnswersInOrder` (an answer on its way
acknowledges the block sent last or the one before it), `Kept` (once block k was
acknowledged, the server has no older block before it, the open file is the
transfer's, and the blocks up to k are in it or on the card), `InTurn` (as long as
nothing was lost, there is one packet or one answer, and it is the right one) and
`Safe` (no file that was promised is open or named by a request on its way). `Kept`
is stated for every block acknowledged by an answer still on its way, not only for
the last one the client has seen: that is what makes it inductive. The numbers
modulo 2^16 meet the 32 bits of the code in `NextBlock`: a block is taken only if
its number is the next one and so is its place in the file.

`Emulator_proofs`:

* `TypeCorrect`: `Spec => []TypeOK`, and `DriveFollowsCaddy`:
  `Spec => []DriveMatchesCaddy`, with uploads and without.
* `WritesAreSaved`: `Spec => []WritesReachCard`, if no files are uploaded
  (`NoUploads`): an upload changes the current folder, and images are saved where it
  then is.

`DriveInv` adds that no image is selected twice, and where the caddy may hold
images at all (`CaddyInPlace`: an auto-mounted image is there before `emulator()`
starts over, and only if it has not been disturbed). `Accounted` says that every
image in the caddy is of the current folder, is there once, holds what the computer
wrote, and, where the card does not, is dirty and has still to be saved. The lemmas
on the file browser say what selecting and inserting leave in the caddy.

`Pi1541_proofs`:

* `BoardInvariant`: `Spec => []BoardInv`; `BusAndPort`: `Spec => []BusFollowsPort`.
* `InterruptLine`: `Spec => []LineFollowsFlags`, if no program writes the IFR with
  bit 7 set (`PlainFlagWrites`). One that does clears the 6522's own note of the line
  without letting go of it.
* `TimersAreIntervalTimers`: `Spec => TimersKeepPromise`, a refinement of
  `IntervalTimer` by both timers of VIA 0.

`BoardInv` says what a 6522 is between two accesses (`irq` is what the enabled flags
make of it), and what the bus fields make of port B and ATN: `OutsFollowPort` alone
is not inductive, since the two halves of ATNA (VIA 1's ATNA output and the gate)
are kept in different fields and refreshed at different moments of a cycle. The
timers' proof reduces every access to one of four effects (none, adjusted, loaded,
switched) before the refinement is looked at.

The same module, on the drive of that board:

* `Types`: `Spec => []TypeOK`, and `DriveKeepsShape`, the drive's record alone.
* `SwapSeen`: `Spec => []SwapIsSeen`.
* `WritesItsByte`: `Spec => []WritesTheByte`.
* `ReadsTheTrack`: `Spec => []BytesOfTheTrack`, for tracks of any bits and any
  length, any program, any noise, and any number of disks.

An Update is a fold of `Cycle`, so each is by an induction over its cycles
(`CyclesHave`, from `SetInduction`), with lemmas on what one cycle does: it waits,
counts a pulse of UE7, shifts a bit (UF4 = 2) or takes a byte over. `RestInv` adds
which images and ports there are; `SensorInv` what is left of a swap; `WriteInv`
that the bits since UE3 was zero are those of the write shift register, in their
places behind the head. `ReadInv` keeps the history of the property true of the
drive: between two Updates the decoder stands at a pulse of the last bit or its
successor (`Decodes`, `Halfway`), so the noise, which takes four cells of the
slowest zone to come, is never heard in a cell with a one (`Beats`); the head moves
at each flux reversal to the next bit in as many cycles as the counters take for it
(`Heads`); the register ends in the bits since the disturbance (`Tracked`); and UE3
and the bytes ready make up the bits since the SYNC (`Frames`).

The proof needs of the constants what `DriveAssumption` says: UE7 counts out at
most twice in an Update, no cell is longer than the slowest zone's, the noise after
a flux reversal comes after more than four cells of that zone (16 * UE7Count
cycles), and noise comes at most once in an Update and within 25 * UE7Count. All of
it holds of the code's 16 and 3200000 and of its 18 to 20 and 2 to 25 us.

`Pi1581_proofs`, first on the disk controller by itself (`Wd177x`):

* `OnlyItsSector`: `Spec => OnlyTheSector`. A write changes the mark, the data and
  the sum of the sector it is for, and nothing else on any disk.
* `FindsTheSector`: `Spec => []FoundIfThere`. A sector that is on the track is found
  before the turns are counted out.
* `ReadsItsSector`: `Spec => []ReadsWhatIsThere`, if no command writes the deleted
  mark (`Normal`): READ SECTOR does not know that mark, and reads the data of the
  next sector with the usual one as the sector's.

* `WritesItsData`: `Spec => []WritesWhatIsGiven`. A sector written without an error
  holds the bytes given, between its marks and with their sum.

The proofs are about disks of any number of tracks and sectors of any length. `Inv`
relates the state of the search to the cell under the head (`Position`: which field
of which sector's header or data), and keeps the layout of the disk (`Layout`):
a header is where it was laid out, and the first mark after a header is its own
sector's. `SearchInv` adds that in the first turn the head has not yet passed the
header it looks for.
`ReadInv` and `GivenInv` follow a sector byte by byte: what the program has
taken or given is what is on the disk up to the head, the one byte that waits is the
one the request stands for, and a byte that came too late has raised the lost flag,
which stays. `GivenInv` adds that the sum is that of the bytes written so far. The
sum is a recursive function of the data, and that it grows with one more byte is an
induction over data. `Induction` makes it possible: `SetInduction` proves, by the
pigeonhole principle for finite sets, that a set with 0 and the successor of each of
its numbers has all numbers, and from it `FiniteRecursion` has that a function given
by a first value and a step exists. Both take sets and functions where the library's
theorems take operators.

And on the board around it:

* `LineFollows`: `BoardSpec => []InterruptFollowsFlags`, and `TimersCountDown`:
  `BoardSpec => TimersKeepPromise`, a refinement of `CountdownTimer` by both timers
  of the 8520, timer B also where it counts timer A's underflows.
* `BoardWritesItsSector`, `BoardFindsTheSector`, `BoardReadsItsSector`,
  `BoardWritesItsData`: the controller's four theorems for the board, whose port A
  sets side, disk change and motor.

`ChipInv` is that the line is what the flags make of it and that a timer is marked
as just loaded only between an access and the next cycle. The controller's
invariants hold on the board because each of its steps is one of the controller's
or leaves the disks alone (`DiskInvStays`).

`Browser_proofs`, for any devices, folders, files, window heights, keys and commands
of the computer:

* `TypeCorrect`: `Spec => []TypeOK`, `Screens`: `Spec => []ScreenShowsList`, and
  `NumbersAreRight`: `Spec => []NumbersMatch`.
* `CaddyIsOfTheList`: `~Elsewhere => (Spec => []CaddyFromList)`. With `Elsewhere` it
  is not true of the code (section 6).

Every key is a chain of changes to one record, so the proof is one lemma for each
change (what it keeps: `Same`, `SameList`, `Still`, `Alike`, `Beneath`), and the lemma
of a key puts them together. `Inv` says that a browser that waits for a key is
`Ready`: what is on the screens is the list, both windows have the cursor, the
selections are images of the list, each once (so that a number fits the images there
are), the entries bear the selections' numbers, and the caddy is empty. None of the
properties is inductive without the others: a number is right only if no two images
of the list have one name (`Distinct`, from `Stored`: a folder has a name once), and
the devices' list must have devices in it (`Rooted`) or Select would enter a volume
that is not there. A sorted list has each entry once because the order is strict and
total on what a folder may hold (`InOrder`, `Ranks`); adding a folder's images one
after the other is a recursive function, and its lemma an induction over entries
(`AddFolderIs`). The proof found that the automatic mount leaves the screens behind
not only where the image is missing, but also where it is refused.

`IecSerial_proofs`, for bytes of any length, ticks of any length and computers of any
reaction time:

* `Meeting`: `Spec => []IInv`, the inductive invariant.
* `Present`: `Spec => []DevicePresent`.
* `ExchangesBytes`: `Spec => KeepsBytes`, a refinement of `ByteLink`.

Neither is inductive: whether an edge is seen depends on where the other end stands
and on how long the line has been so. `IInv` says for each place of the computer where
the drive can be (`Meets`: `AtIdle` .. `AtTake`), with the bits passed so far (`SoFar`,
`Heard`), and two facts about time. Where the drive goes on at once, the computer has
had no time to look (`lag = 0`). And what the drive shows for a while it shows beyond
the computer's next look: `lag + delay > Reaction` (`Lasts`), with the pauses that
still follow added. For `DevicePresent`, what is left of the drive's pauses always
ends within the time the computer gives it (`AtPresent`, `Rest`). `Pulls`, `Talks` and
`Computer` say what each end pulls and offers at its places. The refinement then
follows action by action: the end that takes a byte has all its bits, and the other
has not given it up.

`SerialAssumption` holds what the code needs of the computer: a C64 looks more often
than every 50 microseconds (the pause before a byte, the shortest time a level is
held for it), a VIC-20 than every 34 (the time of a bit), and it waits more than 73
for an answer to ATN, the drive's longest pause without a look at it. The KERNAL
gives a millisecond. What a tick rounds off is in the lemmas on `Ticks`.

Only model-checked:

* liveness, which rests on fairness and ENABLED: `AttentionAnswered`,
  `EmulationEnds`, `TransferEnds` (that no end waits for ever for an edge),
  `CommandEnds`, `SelectionShown`;
* `SectorsHoldWhatWasWritten` and `FilesAreOnDisk` of `DiskImages`: a track is built
  and decoded by folds and RECURSIVE operators over its bytes, which is induction
  over data.

## 5. Not modelled

Drawing, options, ROM tables, startup, Pi drivers (no order or state of interest);
the 6502 (any program instead); NIB and NBZ images and the search for a track's
cycle, D71, the writing of a D81's file; FatFs, USPi and stb_image (third-party;
FatFs and the network are modelled from how they are used); ARP, IP, UDP and DHCP
below TFTP; the rotary encoder; the 1581's end of the bus in emulation, apart from
ATN and the serial clock. `PROJECT.json` says so part by part.

## 6. Where the code and its documents differ

Found while modelling. None has a run; where the models leave the case out, or a
constant switches it on, it is said here.

IEC commands:

* `iec_commands.cpp:1468`: a talk decides on a listing by the last request
  received on *any* channel, against the comment at 576-579. With `StrictHost`
  FALSE and two channels TLC finds `TalkServesItsChannel` violated.
* `:485/2111`: a comment says closing channel 15 closes all channels; the code
  closes channel 15 only. `:495/1969`: reopening a channel should close its file;
  the code keeps the old file. `:1167`: a comment on files that are open during
  RENAME. `docs/IEC Commands.md:163`: UJ closes all buffers; the code sets error
  73 only. `:1786`: listings count in channel 0's bytes sent, so a file it reads
  next ends without EOI. `:1665`: a failed f_write is ignored. `:1036`: COPY goes on
  after an error.

Serial lines, browse mode:

* ATN is not looked at inside `WriteIECSerialPort`'s bit loop (about 1.4 ms),
  against the comment at `iec_commands.cpp:397`.
* The turnaround (557-561) does not wait until the computer releases the clock,
  against 415-417; only the 50 microseconds at 307 make it safe.
* A command runs in COMPLETE while ATN may be asserted again (comment 582). Line
  463 ignores `ReadIECSerialPort`'s result, so a code broken off is decoded from
  the bits there are. `WaitWhile` swallows edges of the buttons.

Bus lines, emulation:

* With PB4 an input and ATN asserted, a write to port B makes the gate pull DATA
  for the rest of that cycle (`iec_bus.cpp` 407-415, against the comment at 212).
* With `refreshOutsAfterCPUStep` FALSE the drive reads a line it has released as
  low for one more cycle. Pins that are inputs pull nothing until port B is first
  written. PB1 and PB3 as inputs read as asserted. `IEC_Bus::Reset` releases the
  lines only until the next write of the port.

Life cycle, caddy, network:

* `net-tftp.cpp:58` (TODO at 85): an upload moves the file system's current folder
  and never returns, and an image saved meanwhile on the other core is written into
  that folder, against `main.cpp:1404`. With `Uploads` TRUE TLC finds
  `WritesReachCard` violated.
* `main.cpp`: next and previous disk are exchanged; an image that mounts by itself
  is mounted again by a second reset or key in the same pass (1749);
  `selectionsMade` stays true when every image was refused
  (`FileBrowser.cpp:1033`), and the browser asks for emulation in every pass; core 0
  looks at the caddy without the lock (comment at 620) and may read an image that
  core 1 has just deleted; a failed `WriteD64` (`DiskImage.cpp:302`) is silent.
* `net-tftp.cpp:71`: a name without a slash loses its first character, so the test
  for `kernel.img` in line 82 is true for a file stored as `ernel.img`; a folder
  that does not exist is ignored; a repeated block closes the file; a file still
  open is dropped without closing (72); a second client takes over the transfer
  (22); FatFs is used by two cores and is not reentrant (65).
* Below TFTP: `net.cpp:31-34` says 3 seconds and waits 30 ms; `Initialize` never
  returns without Ethernet; `Net::Update` passes `sizeof(buffer)` instead of the
  length received; the destination MAC is not checked; `ArpTable::insert` keeps an
  old MAC; an ICMP header that is too short is handled all the same;
  `SendEchoRequest` puts the ping header before the ICMP header. `net-dhcp.cpp`: the
  discover timer's handler is never started (213-215) and `serverSelected` never
  TRUE, so no address is ever obtained; `Serialize` is 4 bytes short and adds no
  options.

6522 and 1541:

* `m6502.h:104`: both 6522s share one Boolean, and one chip's release takes away
  the other's pending interrupt (against the comment at `m6522.cpp:638`). The
  standard ROM polls both chips in its handler, which hides it.
* `m6522.cpp:701`: writing IFR with bit 7 set clears IRQ without releasing the line
  (`m6522.h` 140-142). `m6522.cpp:255`: PB6 is compared with 1 but is 0x40, so
  pulses are never counted. `m6522.h:191`: the mask of CB1 is CA1's. `m6522.cpp:96`
  tests a bit of CB2 for CA2's handshake. Clearing the shift register's flag
  through IFR leaves its count at 8.
* `Drive::Insert` does not recompute the head's place: after a swap to an image
  whose track has another length the numbers are stale until the head moves
  (`DriveAssumption` has equal lengths). The byte cache survives writes and swaps.
  The constructor calls `Reset` without a VIA. SO stays low when the motor stops or
  a swap starts, PB7 stays while writing. Write protection is not looked at when
  writing. A track of length zero is a division by zero.

1581:

* `Emulate1581` resets the board (`main.cpp:1068`) after `BeginEmulating` has
  inserted the disk (691); the reset clears `writeProtectAsserted`, so a read-only
  D81 is written in memory and `WriteD81` (`DiskImage.cpp:742`) drops it.
* `wd177x.cpp`: a command written while BUSY overwrites the command (a comment says
  it is ignored); the bit for several sectors is taken for part of the command, so
  such commands do nothing and BUSY never rises; READ_SECTOR after a deleted mark
  reads the next sector's data or loops; FORCE_INTERRUPT clears status bits a
  comment leaves alone; SEEK beyond track 79 leaves the array; one byte past the
  track is read; WRITE_TRACK does nothing; one DRQ too many after the last byte of a
  write. `PORTA_PINS_RDY` is 0x20 though its comment says PA1. A disk inserted in the
  1581's loop need not be a D81.
* `m8520.cpp`: TALO and TAHI (574, 577) build timer A's latch from timer B's (comment
  572); reads of TBLO and TBHI return timer A's counter (440, 443); the serial
  output never loads its shift register (641 is commented out), so fast serial sends
  zeros; in input mode one byte is received until SPMODE is toggled; the time of day
  is never clocked. `Pi1581::Reset` starts the ready line's delay and stops the
  motor after it, so the drive gets ready with its motor off.

Browser:

* CD or an image chosen by the computer changes the current folder without reading
  the list again, so after emulation the list shown is another folder's
  (`main.cpp:1281`): hence `Elsewhere = FALSE`.
* Autoload reads the list of `/1541` and does not draw it, which shows if the image is
  missing or refused;
  `FillCaddyWithSelections` erases refused entries without drawing or renumbering;
  `DisplayRoot` leaves `displayingDevices`; on the devices' list `current` is null
  after `FolderChanged`, so Select does nothing until the cursor moves; a match at
  index 0 counts as none; Insert on a folder drops earlier selections; an empty list
  makes `numberOfEntriesMinus1` wrap; a window of one row never pages down; files
  saved or uploaded appear only when the list is read again.

Disk images:

* `WriteD64` ignores `ConvertSector`'s failure (the sector is saved as zeros or bad
  data), truncates the file first, drops the error table, saves used tracks one
  after another (a formatted track beyond a gap is saved as another track) and saves
  nothing if the header of track 18's sector 0 is not found (318). Buffers hold 768
  blocks, and 42 tracks have 802 (213, 330). Neither checksums nor IDs are checked.
* D71, T64 and PRG images are never saved; an NBZ is saved as an uncompressed NIB
  under its name and cannot be opened again (1187; `README.md:7` names NBZ). New G64
  disks have an uninitialised density; the constructor leaves `diskType`
  uninitialised; `CreateNewDiskInRAM` writes into constants.
* `RAMD64AddDirectoryEntry` links a directory sector to itself, so from the ninth
  file on a tape's files are not reached; `AddFileToRAMD64` gives a file that fills
  its last block no end, copies a byte too many, counts track 18 as free and, going
  back on an unsigned number, may never end; `OpenT64` ignores that a file was not
  added.

Encoder: its sequence is not masked, so more than four transitions are not decoded,
and a best guess reports a click for a knob that came back.

## 7. Plan

1. Done: the models of section 2 and their runs; the theorems of section 4, which state
   every safety property of the runs but those of `disk_images`.
2. Next theorems: conversion and decoding of a track as recursive functions, so that
   `DiskImages` can be proved about.
3. Next models: DHCP and the start of the network; the encoder's state table.
