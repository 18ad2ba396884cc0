------------------------ MODULE IecCommands_proofs -------------------------
(***************************************************************************)
(* Theorems about the drive in browse mode, for any set of names, bytes,   *)
(* requests and channels, any size of the buffers and any outcome of       *)
(* f_open: the types and the sequence of frames; what a channel has open,  *)
(* what becomes of the bytes written and what commands leave of the        *)
(* folder; and that the drive implements FileService, seen through its     *)
(* channels.                                                               *)
(***************************************************************************)
EXTENDS IecCommands, SequenceTheorems, TLAPS

-----------------------------------------------------------------------------
(* Types and the sequence of frames *)

LEMMA ProcessCommandType ==
  ASSUME NEW r \in RequestRecords, NEW f \in FileSystems, NEW blank \in Contents
  PROVE  ProcessCommand(r, f, blank) \in Outcomes
<1> DEFINE o == ProcessCommand(r, f, blank)
<1> USE NamesAssumption DEF Outcomes, Result, FileSystems, RequestRecords, Errors
<1>1. CASE r.op = "scratch"
  BY <1>1 DEF ProcessCommand, Scratch, Contents
<1>2. CASE r.op = "rename"
  BY <1>2 DEF ProcessCommand, Rename, MissingNames, MissingError, Exists
<1>3. CASE r.op = "copy"
  <2>1. ASSUME NEW g \in FileSystems, NEW old \in Names, g[old] # NoFile,
               NEW new, NEW concatenate \in BOOLEAN
        PROVE  CopyFile(g, new, old, concatenate) \in FileSystems
    <3>1. g[old] \in Contents
      BY <2>1 DEF Contents
    <3>2. ASSUME new \in Names, g[new] # NoFile PROVE g[new] \o g[old] \in Contents
      BY <3>1, <3>2 DEF Contents
    <3> QED
      BY <3>1, <3>2 DEF CopyFile
  <2> DEFINE first == IF Exists(f, r.name2)
                      THEN CopyFile(f, r.name, r.name2, FALSE) ELSE f
             second == IF Exists(first, r.name3)
                       THEN CopyFile(first, r.name, r.name3, TRUE) ELSE first
  <2>2. first \in FileSystems
    BY <2>1 DEF Exists
  <2>3. second \in FileSystems
    <3> HIDE DEF first
    <3> QED BY <2>1, <2>2 DEF Exists
  <2>4. Copy(r, f) \in Outcomes
    <3> HIDE DEF first, second
    <3>1. Copy(r, f) \in {Result(f, 34, NoName), Result(f, 63, NoName), Result(f, 0, NoName),
                          Result(second, 62, NoName), Result(second, 0, NoName)}
      BY DEF Copy, first, second
    <3> QED BY <2>3, <3>1
  <2> QED BY <1>3, <2>4 DEF ProcessCommand
<1>4. CASE r.op = "cd"
  BY <1>4 DEF ProcessCommand, CD
<1>5. CASE r.op = "new"
  BY <1>5 DEF ProcessCommand, New, MissingNames, MissingError, Exists
<1>6. CASE r.op \notin {"scratch", "rename", "copy", "cd", "new"}
  BY <1>6 DEF ProcessCommand
<1> QED BY <1>1, <1>2, <1>3, <1>4, <1>5, <1>6

-----------------------------------------------------------------------------
(* The types of the helpers *)

LEMMA ClosedType ==
  ASSUME NEW ch \in ChannelRecords
  PROVE  Closed(ch) \in ChannelRecords
<1>1. FALSE \in BOOLEAN /\ <<>> \in Contents /\ 0 \in Nat
  BY DEF Contents
<1> QED BY <1>1, Zenon DEF Closed, ChannelRecords

LEMMA SyncedType ==
  ASSUME NEW ch \in ChannelRecords, NEW f \in FileSystems
  PROVE  Synced(f, ch) \in FileSystems
BY DEF Synced, Exists, ChannelRecords, FileSystems, Contents

LEMMA BufferedType ==
  ASSUME NEW ch \in ChannelRecords, NEW b \in Bytes
  PROVE  Buffered(ch, b) \in ChannelRecords
<1>1. /\ Append(ch.buf, b) \in Contents /\ <<>> \in Contents
      /\ ch.fil \o Append(ch.buf, b) \in Contents
  BY DEF ChannelRecords, Contents
<1>2. \A x \in Contents : /\ [ch EXCEPT !.fil = x, !.buf = <<>>] \in ChannelRecords
                          /\ [ch EXCEPT !.buf = x] \in ChannelRecords
  BY <1>1, Zenon DEF ChannelRecords
<1> QED BY <1>1, <1>2, Zenon DEF Buffered

LEMMA NextBlockType ==
  ASSUME NEW ch \in ChannelRecords, NEW f \in FileSystems
  PROVE  NextBlock(ch, f) \in Contents
<1> DEFINE content == f[ch.file]
           upto == IF ch.pos + BufSize < Len(content) THEN ch.pos + BufSize ELSE Len(content)
<1>1. SUFFICES ASSUME Exists(f, ch.file)
               PROVE  SubSeq(content, ch.pos + 1, upto) \in Contents
  BY DEF NextBlock, Contents
<1>2. content \in Seq(Bytes)
  BY <1>1 DEF Exists, FileSystems, Contents
<1>3. ch.pos \in Nat /\ upto \in Nat /\ upto <= Len(content)
  BY <1>2, IecAssumption DEF ChannelRecords
<1>4. \A i \in (ch.pos + 1) .. upto : content[i] \in Bytes
  BY <1>2, <1>3
<1> HIDE DEF content, upto
<1> QED BY <1>2, <1>3, <1>4 DEF Contents

LEMMA FileSizeType ==
  ASSUME NEW ch \in ChannelRecords, NEW f \in FileSystems
  PROVE  FileSize(ch, f) \in Nat
BY DEF FileSize, Exists, FileSystems, Contents

\* The channel closed last, of those that write n: 0 to 14 is finite.
LEMMA LastWriter ==
  ASSUME NEW n, WriterOf(n) # {}
  PROVE  \E c \in WriterOf(n) : \A y \in WriterOf(n) : y <= c
<1>1. WriterOf(n) \subseteq 0 .. 14
  BY IecAssumption DEF WriterOf
<1> QED BY <1>1, SMTT(30)

LEMMA AllSyncedType ==
  ASSUME TypeOK
  PROVE  AllSynced \in FileSystems
<1>1. SUFFICES ASSUME NEW n \in Names, fs[n] # NoFile, WriterOf(n) # {}
               PROVE  LET c == CHOOSE x \in WriterOf(n) : \A y \in WriterOf(n) : y <= x
                      IN  channels[c].fil \o channels[c].buf \in Contents
  BY DEF AllSynced, FileSystems, TypeOK
<1> DEFINE c == CHOOSE x \in WriterOf(n) : \A y \in WriterOf(n) : y <= x
<1>2. c \in WriterOf(n)
  BY <1>1, LastWriter
<1>3. channels[c] \in ChannelRecords
  BY <1>2 DEF WriterOf, TypeOK, Channels
<1> HIDE DEF c
<1>4. channels[c].fil \o channels[c].buf \in Contents
  BY <1>3 DEF ChannelRecords, Contents
<1> QED BY <1>4 DEF c

LEMMA AllClosedType ==
  ASSUME TypeOK
  PROVE  AllClosed \in [Channels -> ChannelRecords]
BY ClosedType DEF AllClosed, TypeOK

LEMMA OpenedType ==
  ASSUME TypeOK, NEW c \in DataChannels, NEW ok \in BOOLEAN
  PROVE  /\ Opened(c, ok).ch \in ChannelRecords
         /\ Opened(c, ok).fs \in FileSystems
         /\ Opened(c, ok).error \in Errors
<1>1. channels[c] \in ChannelRecords
  BY DEF TypeOK, Channels
<1>2. channels[c].open \in BOOLEAN /\ Writes(c, channels[c].command) \in BOOLEAN
  BY <1>1 DEF ChannelRecords, Writes
<1>3. CASE channels[c].open \/ ~IsFile(channels[c].command)
  BY <1>1, <1>3 DEF Opened, TypeOK
<1>4. CASE ~channels[c].open /\ IsFile(channels[c].command)
  <2> DEFINE ch == channels[c]
             r  == ch.command
             w  == Writes(c, r)
  <2>1. r \in Requests
    BY <1>1, <1>4 DEF IsFile, OpOf, ChannelRecords
  <2>2. r.name \in Names \union {NoName} /\ NoName \in Names \union {NoName}
    BY <2>1, IecAssumption DEF RequestRecords
  <2>3. ASSUME NEW n \in Names \union {NoName}
        PROVE  [ch EXCEPT !.writing = w, !.file = n] \in ChannelRecords
    BY <1>1, <1>2, <2>3, Zenon DEF ChannelRecords
  <2>4. [ch EXCEPT !.writing = w] \in ChannelRecords
    BY <1>1, <1>2, Zenon DEF ChannelRecords
  <2>5. <<>> \in Contents /\ 0 \in Nat /\ {0, 62} \subseteq Errors
    BY DEF Contents, Errors
  <2>6. ASSUME NEW x \in ChannelRecords, NEW content \in Contents
        PROVE  /\ [x EXCEPT !.open = TRUE, !.buf = <<>>, !.fil = <<>>, !.pos = 0] \in ChannelRecords
               /\ [x EXCEPT !.open = TRUE, !.pos = 0, !.fil = content] \in ChannelRecords
    BY <2>5, <2>6, Zenon DEF ChannelRecords
  <2>7. /\ fs \in FileSystems /\ error \in Errors
        /\ [fs EXCEPT ![r.name] = <<>>] \in FileSystems
    BY <2>5 DEF TypeOK, FileSystems
  <2>8. Exists(fs, r.name) => fs[r.name] \in Contents
    BY <2>7 DEF Exists, FileSystems
  <2> DEFINE base == IF w THEN fs[r.name] ELSE <<>>
  <2>9. Exists(fs, r.name) => base \in Contents
    BY <2>5, <2>8
  <2> DEFINE created == [[ch EXCEPT !.writing = w, !.file = r.name]
                           EXCEPT !.open = TRUE, !.buf = <<>>, !.fil = <<>>, !.pos = 0]
             refused == [ch EXCEPT !.writing = w]
             missing == [ch EXCEPT !.writing = w, !.file = NoName]
             failed  == [ch EXCEPT !.writing = w, !.file = r.name]
             found   == [[ch EXCEPT !.writing = w, !.file = r.name]
                           EXCEPT !.open = TRUE, !.pos = 0, !.fil = base]
             truncated == [fs EXCEPT ![r.name] = <<>>]
  <2>10. \/ Opened(c, ok) = [ch |-> created, fs |-> truncated, error |-> error]
         \/ Opened(c, ok) = [ch |-> refused, fs |-> fs, error |-> error]
         \/ Opened(c, ok) = [ch |-> missing, fs |-> fs, error |-> 62]
         \/ Opened(c, ok) = [ch |-> failed, fs |-> fs, error |-> error]
         \/ Exists(fs, r.name) /\ Opened(c, ok) = [ch |-> found, fs |-> fs, error |-> error]
    BY <1>4, Zenon DEF Opened
  <2>11. /\ created \in ChannelRecords /\ refused \in ChannelRecords
         /\ missing \in ChannelRecords /\ failed \in ChannelRecords
         /\ Exists(fs, r.name) => found \in ChannelRecords
    BY <2>2, <2>3, <2>4, <2>5, <2>6, <2>9, Zenon
  <2> HIDE DEF created, refused, missing, failed, found, truncated
  <2>12. truncated \in FileSystems
    BY <2>7 DEF truncated
  <2> QED BY <2>5, <2>7, <2>10, <2>11, <2>12
<1> QED BY <1>2, <1>3, <1>4

-----------------------------------------------------------------------------
(* Type correctness and the order of things.  Neither is inductive alone:  *)
(* what SendBuffer reads has the type of a byte because a transfer stands   *)
(* inside its buffer, and a command has the type of a request because it    *)
(* waits only until COMPLETE.                                               *)

TypeInv == TypeOK /\ Sequencing

LEMMA TypeInit == Init => TypeInv
<1> SUFFICES ASSUME Init PROVE TypeInv
  OBVIOUS
<1>1. ClosedChannel \in ChannelRecords
  BY DEF ClosedChannel, ChannelRecords, Contents
<1>a. NoCode \in Codes
  BY DEF NoCode, Codes, CodeKinds, Sas
<1>b. /\ said \in [DataChannels -> Seq(Bytes)]
      /\ heard \in [DataChannels -> Seq(Heard)]
      /\ channels \in [Channels -> ChannelRecords]
      /\ fs \in FileSystems
  BY <1>1, IecAssumption DEF Init
<1>c. /\ frame \in Frames /\ atnSequence \in AtnSequences
      /\ busy \in Loops /\ deviceRole \in Roles
  BY DEF Init, Frames, AtnSequences, Loops, Roles
<1>d. commandCode \in Codes /\ secondaryAddress \in Sas /\ error \in Errors
  BY <1>a DEF Init, Sas, Errors
<1>e. /\ opened \subseteq DataChannels
      /\ cmdBuffer \in Requests \union {NoRequest}
      /\ selectedImage \in Names \union {NoName}
      /\ sendIdx \in Nat /\ remaining \in Int
  BY DEF Init
<1>f. /\ atn \in BOOLEAN /\ clock \in BOOLEAN /\ reset \in BOOLEAN
      /\ receivedCommand \in BOOLEAN /\ mode \in {"browse", "emulate"}
  BY DEF Init
<1>2. TypeOK
  BY <1>b, <1>c, <1>d, <1>e, <1>f, Zenon DEF TypeOK
<1>3. Sequencing
  BY DEF Init, Sequencing, Transfers
<1> QED BY <1>2, <1>3 DEF TypeInv

\* What the host does alone.
LEMMA TypeHost == TypeInv /\ HostNext => TypeInv'
<1> SUFFICES ASSUME TypeInv, HostNext PROVE TypeInv'
  OBVIOUS
<1> USE DEF TypeInv, TypeOK, Sequencing, Frames, atnVars, dataVars, fsVars
<1>1. CASE HostAttention
  <2>1. clock' \in BOOLEAN
    BY <1>1, Zenon DEF HostAttention
  <2>2. TypeOK'
    BY <1>1, <2>1 DEF HostAttention
  <2>3. Sequencing'
    BY <1>1 DEF HostAttention, AwaitingRelease, Transfers, Loops
  <2> QED BY <2>2, <2>3
<1>2. CASE HostClock
  BY <1>2 DEF HostClock
<1>3. CASE HostRelease
  BY <1>3 DEF HostRelease
<1>4. CASE HostReset
  BY <1>4 DEF HostReset
<1>5. CASE HostResetEnds
  BY <1>5 DEF HostResetEnds
<1> QED BY <1>1, <1>2, <1>3, <1>4, <1>5 DEF HostNext

\* The steps of the sequence that leave channels and files alone.
LEMMA TypeQuiet ==
  TypeInv /\ (Idle \/ Attention \/ ClockSeen \/ Released \/ ReceiveNothing
              \/ HandlePassive \/ TalkError \/ SendError \/ Interrupted \/ LeaveBrowse)
    => TypeInv'
<1> SUFFICES ASSUME TypeInv,
                    \/ Idle \/ Attention \/ ClockSeen \/ Released \/ ReceiveNothing
                    \/ HandlePassive \/ TalkError \/ SendError \/ Interrupted
                    \/ LeaveBrowse
             PROVE  TypeInv'
  OBVIOUS
<1> USE DEF TypeInv, TypeOK, Sequencing, Transfers, hostVars, atnVars, dataVars, fsVars,
            AtnSequences, Loops, Roles, Codes, CodeKinds, Sas, NoCode, Updating, Handling
<1>1. CASE Idle
  BY <1>1 DEF Idle
<1>2. CASE Attention
  BY <1>2 DEF Attention
<1>3. CASE ClockSeen
  BY <1>3 DEF ClockSeen
<1>4. CASE Released
  BY <1>4 DEF Released
<1>5. CASE ReceiveNothing
  BY <1>5 DEF ReceiveNothing
<1>6. CASE HandlePassive
  BY <1>6 DEF HandlePassive
<1>7. CASE TalkError
  BY <1>7 DEF TalkError, Talking
<1>8. CASE SendError
  BY <1>8 DEF SendError
<1>9. CASE Interrupted
  BY <1>9 DEF Interrupted, Watching
<1>10. CASE LeaveBrowse
  BY <1>10 DEF LeaveBrowse
<1> QED BY <1>1, <1>2, <1>3, <1>4, <1>5, <1>6, <1>7, <1>8, <1>9, <1>10

\* A reset, a mount that fails, the end of an emulation.
LEMMA TypeReset ==
  TypeInv /\ (DeviceReset \/ MountFails \/ EnterBrowse) => TypeInv'
<1> SUFFICES ASSUME TypeInv, DeviceReset \/ MountFails \/ EnterBrowse PROVE TypeInv'
  OBVIOUS
<1>1. AllSynced \in FileSystems /\ AllClosed \in [Channels -> ChannelRecords]
  BY AllSyncedType, AllClosedType DEF TypeInv
<1>2. ResetState /\ busy = "none" /\ mode' \in {"browse", "emulate"}
  BY DEF TypeInv, TypeOK, Sequencing, DeviceReset, MountFails, EnterBrowse
<1>3. NoCode \in Codes
  BY DEF NoCode, Codes, CodeKinds, Sas
<1>a. /\ atnSequence' \in AtnSequences /\ deviceRole' \in Roles
      /\ secondaryAddress' \in Sas /\ error' \in Errors
  BY <1>2 DEF ResetState, AtnSequences, Roles, Sas, Errors
<1>d. /\ commandCode' \in Codes /\ receivedCommand' \in BOOLEAN
      /\ selectedImage' \in Names \union {NoName}
  BY <1>2, <1>3 DEF ResetState
<1>b. fs' \in FileSystems /\ channels' \in [Channels -> ChannelRecords]
  BY <1>1, <1>2 DEF ResetState
<1>c. /\ atn' = atn /\ clock' = clock /\ reset' = reset /\ frame' = frame
      /\ opened' = opened /\ said' = said /\ heard' = heard /\ busy' = busy
      /\ cmdBuffer' = cmdBuffer /\ sendIdx' = sendIdx /\ remaining' = remaining
  BY <1>2 DEF ResetState, hostVars
<1>4. TypeOK'
  BY <1>2, <1>a, <1>b, <1>c, <1>d, Zenon DEF TypeInv, TypeOK
<1>5. Sequencing'
  BY <1>2 DEF TypeInv, Sequencing, Transfers, ResetState
<1> QED BY <1>4, <1>5 DEF TypeInv

\* A command code, and what it closes.
LEMMA TypeReceive ==
  ASSUME TypeInv, NEW code \in HostCodes, ReceiveCode(code)
  PROVE  TypeInv'
<1>a. Channels \union {0} \subseteq Sas
  BY IecAssumption DEF Channels, CMD, Sas
<1>b. code.kind \in CodeKinds \ {"zero"} /\ code \in Codes
  BY <1>a DEF HostCodes, Codes
<1>1. /\ code.kind \in CodeKinds \ {"zero"} /\ code.sa \in Sas /\ code \in Codes
      /\ LegalCode(code) /\ atnSequence = "RECEIVE" /\ busy = "none" /\ mode = "browse"
  BY <1>b DEF Codes, ReceiveCode, Updating
<1>2. /\ frame' \in Frames /\ atnSequence' \in AtnSequences
      /\ busy' \in Loops /\ deviceRole' \in Roles
  BY <1>1 DEF ReceiveCode, TypeInv, TypeOK, Frames, AtnSequences, Loops, Roles,
     NextSequence, NextRole, CodeKinds
<1>3. commandCode' \in Codes /\ secondaryAddress' \in Sas
  BY <1>1 DEF ReceiveCode, TypeInv, TypeOK, OwnAddress, Sas
<1>4. /\ opened' \subseteq DataChannels
      /\ said' \in [DataChannels -> Seq(Bytes)]
      /\ heard' \in [DataChannels -> Seq(Heard)]
  <2>1. CASE code.kind # "close"
    BY <2>1 DEF ReceiveCode, TypeInv, TypeOK
  <2>2. CASE code.kind = "close"
    <3>1. /\ said' = [c \in DataChannels |-> IF c = code.sa THEN <<>> ELSE said[c]]
          /\ heard' = [c \in DataChannels |-> IF c = code.sa THEN <<>> ELSE heard[c]]
          /\ opened' = opened \ {code.sa}
      BY <2>2, Zenon DEF ReceiveCode
    <3>2. \A S : <<>> \in Seq(S)
      OBVIOUS
    <3>3. \A c \in DataChannels : said[c] \in Seq(Bytes) /\ heard[c] \in Seq(Heard)
      BY DEF TypeInv, TypeOK
    <3>4. said' \in [DataChannels -> Seq(Bytes)]
      BY <3>1, <3>2, <3>3
    <3>5. heard' \in [DataChannels -> Seq(Heard)]
      BY <3>1, <3>2, <3>3
    <3> QED BY <3>1, <3>4, <3>5 DEF TypeInv, TypeOK
  <2> QED BY <2>1, <2>2
<1>5. fs' \in FileSystems /\ channels' \in [Channels -> ChannelRecords]
  <2>1. CASE code.kind # "close"
    BY <2>1 DEF ReceiveCode, TypeInv, TypeOK
  <2>2. CASE code.kind = "close"
    <3>1. code.sa \in Channels
      BY <1>1, <2>2 DEF LegalCode
    <3>2. channels[code.sa] \in ChannelRecords /\ fs \in FileSystems
      BY <3>1 DEF TypeInv, TypeOK
    <3>3. /\ Synced(fs, channels[code.sa]) \in FileSystems
          /\ Closed(channels[code.sa]) \in ChannelRecords
      BY <3>2, SyncedType, ClosedType
    <3> QED BY <2>2, <3>1, <3>3 DEF ReceiveCode, TypeInv, TypeOK
  <2> QED BY <2>1, <2>2
<1>6. /\ atn' = atn /\ clock' = clock /\ reset' = reset
      /\ receivedCommand' = receivedCommand /\ cmdBuffer' = cmdBuffer
      /\ sendIdx' = sendIdx /\ remaining' = remaining /\ error' = error
      /\ selectedImage' = selectedImage /\ mode' = mode
  BY DEF ReceiveCode
<1>7. TypeOK'
  BY <1>2, <1>3, <1>4, <1>5, <1>6, Zenon DEF TypeInv, TypeOK
<1>8. ~receivedCommand
  BY <1>1 DEF TypeInv, Sequencing
<1>9. Sequencing'
  <2>1. opened \subseteq Channels /\ CMD \in Channels
    BY DEF TypeInv, TypeOK, Channels
  <2>2. /\ code.kind \in {"listen", "talk", "unlisten", "untalk", "other"} => frame = "start"
        /\ code.kind \in {"data", "open", "close"} => code.sa \in Channels
    BY <1>1, <2>1 DEF LegalCode
  <2>3. /\ busy' = IF code.kind = "other" THEN "release" ELSE "none"
        /\ atnSequence' = NextSequence(code.kind) /\ deviceRole' = NextRole(code.kind)
        /\ frame' = IF code.kind \in {"listen", "talk"} THEN code.kind ELSE "done"
        /\ code.kind \in {"data", "open", "close"} => secondaryAddress' = code.sa
    BY DEF ReceiveCode
  <2>4. code.kind \in {"unlisten", "untalk"} => deviceRole' = "PASSIVE"
    BY <1>1, <2>2, <2>3 DEF TypeInv, Sequencing, NextRole
  <2>5. atnSequence' = "HANDLE" => code.kind \in {"unlisten", "untalk", "data", "open"}
    BY <1>1, <2>3 DEF NextSequence, CodeKinds
  <2>6. code.kind = "other" => atnSequence' = "COMPLETE"
    BY <2>3 DEF NextSequence
  <2> QED BY <1>1, <1>6, <1>8, <2>2, <2>3, <2>4, <2>5, <2>6 DEF Sequencing, Transfers
<1> QED BY <1>7, <1>9 DEF TypeInv

\* The channel a handler serves exists.
LEMMA Served ==
  ASSUME TypeInv, atnSequence = "HANDLE", deviceRole # "PASSIVE"
  PROVE  /\ secondaryAddress \in Channels
         /\ secondaryAddress # CMD => secondaryAddress \in DataChannels
         /\ channels[secondaryAddress] \in ChannelRecords
BY DEF TypeInv, TypeOK, Sequencing, Channels

\* Two updates of one channel.
LEMMA ChannelUpdate ==
  ASSUME NEW ch \in ChannelRecords, NEW content \in Contents, NEW n \in Nat,
         NEW r \in Requests \union {NoRequest}
  PROVE  /\ [ch EXCEPT !.buf = content] \in ChannelRecords
         /\ [ch EXCEPT !.buf = content, !.pos = n] \in ChannelRecords
         /\ [ch EXCEPT !.buf = content, !.sent = n] \in ChannelRecords
         /\ [ch EXCEPT !.sent = n] \in ChannelRecords
         /\ [ch EXCEPT !.command = r] \in ChannelRecords
         /\ [ch EXCEPT !.buf = content].buf = content
         /\ [ch EXCEPT !.buf = content, !.pos = n].buf = content
BY Zenon DEF ChannelRecords

LEMMA LoadType ==
  ASSUME TypeInv, NEW c \in DataChannels, NEW ch \in ChannelRecords,
         NEW f \in FileSystems, NEW e \in Errors, Load(c, ch, f, e),
         atnSequence = "HANDLE"
  PROVE  /\ fs' \in FileSystems /\ error' \in Errors
         /\ sendIdx' = 0 /\ remaining' \in Int
         /\ channels' \in [Channels -> ChannelRecords]
         /\ \/ busy' = "none" /\ atnSequence' = "COMPLETE"
            \/ /\ busy' = "load" /\ atnSequence' = "HANDLE"
               /\ 0 < Len(channels'[c].buf)
<1> DEFINE block == NextBlock(ch, f)
           read  == [ch EXCEPT !.buf = block, !.pos = @ + Len(block)]
<1>1. block \in Contents /\ Len(block) \in Nat
  BY NextBlockType DEF Contents
<1>2. read \in ChannelRecords /\ read.buf = block
  <2>1. ch.pos + Len(block) \in Nat
    BY <1>1 DEF ChannelRecords
  <2>2. NoRequest \in Requests \union {NoRequest}
    OBVIOUS
  <2> HIDE DEF block
  <2> QED BY <1>1, <2>1, <2>2, ChannelUpdate
<1>3. c \in Channels /\ channels \in [Channels -> ChannelRecords] /\ remaining \in Int
  BY DEF Channels, TypeInv, TypeOK
<1>4. FileSize(ch, f) - Len(block) \in Int
  BY <1>1, FileSizeType
<1>5. /\ fs' = f /\ error' = IF ch.file = NoName THEN 62 ELSE e
      /\ sendIdx' = 0
  BY DEF Load
<1>6. CASE ch.file = NoName \/ block = <<>>
  <2>1. /\ channels' = [channels EXCEPT ![c] = ch]
        /\ busy' = "none" /\ atnSequence' = "COMPLETE" /\ remaining' = remaining
    BY <1>6 DEF Load
  <2> QED BY <1>3, <1>5, <2>1 DEF Errors
<1>7. CASE ~(ch.file = NoName \/ block = <<>>)
  <2>1. /\ channels' = [channels EXCEPT ![c] = read]
        /\ busy' = "load" /\ atnSequence' = atnSequence
        /\ remaining' = FileSize(ch, f) - Len(block)
    BY <1>7 DEF Load
  <2>2. 0 < Len(block)
    BY <1>1, <1>7 DEF Contents
  <2> HIDE DEF read
  <2>3. channels' \in [Channels -> ChannelRecords] /\ channels'[c] = read
    BY <1>2, <1>3, <2>1
  <2> QED BY <1>2, <1>4, <1>5, <2>1, <2>2, <2>3 DEF Errors
<1> QED BY <1>6, <1>7

\* LISTEN and TALK handlers.
LEMMA TypeListenName == TypeInv /\ ListenName => TypeInv'
<1> SUFFICES ASSUME TypeInv, ListenName PROVE TypeInv'
  OBVIOUS
<1>1. atnSequence = "HANDLE" /\ deviceRole = "LISTEN" /\ busy = "none" /\ mode = "browse"
  BY DEF ListenName, Handling, Updating
<1>2. CMD \in Channels /\ channels \in [Channels -> ChannelRecords]
  BY DEF Channels, TypeInv, TypeOK
<1>3. channels' \in [Channels -> ChannelRecords]
  BY <1>2, ClosedType DEF ListenName
<1>4. ~receivedCommand
  BY <1>1 DEF TypeInv, Sequencing
<1>5. TypeOK'
  <2>1. busy' \in Loops /\ cmdBuffer' \in Requests \union {NoRequest}
    BY DEF ListenName, Loops
  <2>2. /\ atn' = atn /\ clock' = clock /\ reset' = reset /\ frame' = frame
        /\ opened' = opened /\ said' = said /\ heard' = heard
        /\ atnSequence' = atnSequence /\ deviceRole' = deviceRole
        /\ commandCode' = commandCode /\ secondaryAddress' = secondaryAddress
        /\ receivedCommand' = receivedCommand /\ sendIdx' = sendIdx
        /\ remaining' = remaining /\ error' = error
        /\ selectedImage' = selectedImage /\ mode' = mode /\ fs' = fs
    BY DEF ListenName, hostVars, fsVars
  <2> QED BY <1>3, <2>1, <2>2, Zenon DEF TypeInv, TypeOK
<1>6. Sequencing'
  BY <1>1, <1>4 DEF ListenName, TypeInv, Sequencing, Transfers, hostVars, fsVars
<1> QED BY <1>5, <1>6 DEF TypeInv

LEMMA TypeListenData ==
  ASSUME TypeInv, NEW ok \in OpenOutcomes, ListenData(ok)
  PROVE  TypeInv'
<1> DEFINE o == Opened(secondaryAddress, ok)
<1>1. atnSequence = "HANDLE" /\ deviceRole = "LISTEN" /\ busy = "none" /\ mode = "browse"
  BY DEF ListenData, Handling, Updating
<1>2. secondaryAddress # CMD
  BY DEF ListenData
<1>3. secondaryAddress \in DataChannels /\ ok \in BOOLEAN
  BY <1>1, <1>2, Served, IecAssumption
<1>4. o.ch \in ChannelRecords /\ o.fs \in FileSystems /\ o.error \in Errors
  BY <1>3, OpenedType DEF TypeInv
<1>5. /\ channels' = [channels EXCEPT ![secondaryAddress] = o.ch]
      /\ fs' = o.fs /\ error' = o.error
      /\ \/ busy' = "save" /\ atnSequence' = "HANDLE"
         \/ busy' = "none" /\ atnSequence' = "COMPLETE"
  BY DEF ListenData
<1> HIDE DEF o
<1>6. ~receivedCommand
  BY <1>1 DEF TypeInv, Sequencing
<1>7. channels' \in [Channels -> ChannelRecords]
  BY <1>3, <1>4, <1>5 DEF TypeInv, TypeOK
<1>8. /\ atn' = atn /\ clock' = clock /\ reset' = reset /\ frame' = frame
      /\ opened' = opened /\ said' = said /\ heard' = heard
      /\ deviceRole' = deviceRole /\ commandCode' = commandCode
      /\ secondaryAddress' = secondaryAddress /\ receivedCommand' = receivedCommand
      /\ cmdBuffer' = cmdBuffer /\ sendIdx' = sendIdx /\ remaining' = remaining
      /\ selectedImage' = selectedImage /\ mode' = mode
  BY DEF ListenData, hostVars
<1>9. busy' \in Loops /\ atnSequence' \in AtnSequences
  BY <1>5 DEF Loops, AtnSequences
<1>10. TypeOK'
  BY <1>4, <1>5, <1>7, <1>8, <1>9, Zenon DEF TypeInv, TypeOK
<1>11. Sequencing'
  BY <1>1, <1>3, <1>5, <1>6, <1>8 DEF TypeInv, Sequencing, Transfers, Channels
<1> QED BY <1>10, <1>11 DEF TypeInv

\* A talk, and the block it reads: what Load does is the same for a file and
\* behind a boot sector.
LEMMA TypeLoading ==
  ASSUME TypeInv, NEW ch \in ChannelRecords, NEW f \in FileSystems, NEW e \in Errors,
         Load(secondaryAddress, ch, f, e), secondaryAddress \in DataChannels,
         atnSequence = "HANDLE", deviceRole # "PASSIVE", mode = "browse", ~receivedCommand,
         atn' = atn, clock' = clock, reset' = reset, frame' = frame, opened' = opened,
         said' = said, heard' = heard, deviceRole' = deviceRole,
         commandCode' = commandCode, secondaryAddress' = secondaryAddress,
         receivedCommand' = receivedCommand, cmdBuffer' = cmdBuffer,
         selectedImage' = selectedImage, mode' = mode
  PROVE  TypeInv'
<1>1. /\ fs' \in FileSystems /\ error' \in Errors
      /\ sendIdx' = 0 /\ remaining' \in Int
      /\ channels' \in [Channels -> ChannelRecords]
      /\ \/ busy' = "none" /\ atnSequence' = "COMPLETE"
         \/ /\ busy' = "load" /\ atnSequence' = "HANDLE"
            /\ 0 < Len(channels'[secondaryAddress].buf)
  BY LoadType
<1>2. busy' \in Loops /\ atnSequence' \in AtnSequences /\ sendIdx' \in Nat
  BY <1>1 DEF Loops, AtnSequences
<1>3. TypeOK'
  BY <1>1, <1>2, Zenon DEF TypeInv, TypeOK
<1>4. Sequencing'
  BY <1>1 DEF TypeInv, Sequencing, Transfers, Channels
<1> QED BY <1>3, <1>4 DEF TypeInv

LEMMA TypeTalkFile ==
  ASSUME TypeInv, NEW ok \in OpenOutcomes, TalkFile(ok)
  PROVE  TypeInv'
<1> DEFINE o == Opened(secondaryAddress, ok)
<1>1. /\ atnSequence = "HANDLE" /\ deviceRole = "TALK" /\ busy = "none"
      /\ mode = "browse" /\ secondaryAddress # CMD
  BY DEF TalkFile, Talking, Handling, Updating
<1>2. secondaryAddress \in DataChannels /\ ok \in BOOLEAN
  BY <1>1, Served, IecAssumption
<1>3. o.ch \in ChannelRecords /\ o.fs \in FileSystems /\ o.error \in Errors
  BY <1>2, OpenedType DEF TypeInv
<1>4. ~receivedCommand
  BY <1>1 DEF TypeInv, Sequencing
<1>5. /\ atn' = atn /\ clock' = clock /\ reset' = reset /\ frame' = frame
      /\ opened' = opened /\ said' = said /\ heard' = heard
      /\ deviceRole' = deviceRole /\ commandCode' = commandCode
      /\ secondaryAddress' = secondaryAddress /\ receivedCommand' = receivedCommand
      /\ cmdBuffer' = cmdBuffer /\ selectedImage' = selectedImage /\ mode' = mode
  BY DEF TalkFile, Talking, hostVars
<1>6. Load(secondaryAddress, o.ch, o.fs, o.error)
  BY DEF TalkFile
<1> QED BY <1>1, <1>2, <1>3, <1>4, <1>5, <1>6, TypeLoading

LEMMA TypeSendBootSector == TypeInv /\ SendBootSector => TypeInv'
<1> SUFFICES ASSUME TypeInv, SendBootSector PROVE TypeInv'
  OBVIOUS
<1> DEFINE ch == IF atn THEN channels[secondaryAddress] ELSE Sent(secondaryAddress)
<1>1. /\ busy = "boot" /\ atnSequence = "HANDLE" /\ secondaryAddress \in DataChannels
      /\ mode = "browse" /\ ~receivedCommand /\ deviceRole # "PASSIVE"
  BY DEF SendBootSector, TypeInv, TypeOK, Sequencing, Transfers
<1>2. channels[secondaryAddress] \in ChannelRecords
  BY <1>1 DEF TypeInv, TypeOK, Channels
<1>3. ch \in ChannelRecords
  <2>1. Sent(secondaryAddress) \in ChannelRecords
    <3> DEFINE old == channels[secondaryAddress]
    <3>1. <<>> \in Contents /\ old.sent + Len(old.buf) \in Nat
      BY <1>2 DEF ChannelRecords, Contents
    <3> QED BY <1>2, <3>1, Zenon DEF Sent, ChannelRecords
  <2> QED BY <1>2, <2>1
<1>4. /\ atn' = atn /\ clock' = clock /\ reset' = reset /\ frame' = frame
      /\ opened' = opened /\ said' = said /\ heard' = heard
      /\ deviceRole' = deviceRole /\ commandCode' = commandCode
      /\ secondaryAddress' = secondaryAddress /\ receivedCommand' = receivedCommand
      /\ cmdBuffer' = cmdBuffer /\ selectedImage' = selectedImage /\ mode' = mode
  BY DEF SendBootSector, hostVars
<1>5. Load(secondaryAddress, ch, fs, error) /\ fs \in FileSystems /\ error \in Errors
  BY DEF SendBootSector, TypeInv, TypeOK
<1> HIDE DEF ch
<1> QED BY <1>1, <1>3, <1>4, <1>5, TypeLoading

\* A listing or a boot sector is put into a buffer, and a listing sent from it.
LEMMA TypeBlocks ==
  TypeInv /\ (TalkDirectory \/ TalkBootSector \/ SendDirectory) => TypeInv'
<1> SUFFICES ASSUME TypeInv, TalkDirectory \/ TalkBootSector \/ SendDirectory
             PROVE  TypeInv'
  OBVIOUS
<1>1. /\ atnSequence = "HANDLE" /\ deviceRole # "PASSIVE" /\ mode = "browse"
      /\ busy \in {"none", "dir"} /\ ~receivedCommand
  BY DEF TalkDirectory, TalkBootSector, SendDirectory, Talking, Handling, Updating,
     TypeInv, TypeOK, Sequencing, Transfers
<1>2. secondaryAddress \in Channels /\ 0 \in Channels
  BY <1>1, Served, IecAssumption DEF Channels
<1>3. channels \in [Channels -> ChannelRecords]
  BY DEF TypeInv, TypeOK
<1>4. ASSUME NEW c \in Channels
      PROVE  [channels[c] EXCEPT !.buf = Block] \in ChannelRecords
  BY <1>3, IecAssumption, Zenon DEF ChannelRecords
<1>5. Sent(0) \in ChannelRecords
  <2> DEFINE old == channels[0]
  <2>1. old \in ChannelRecords
    BY <1>2, <1>3
  <2>2. <<>> \in Contents /\ old.sent + Len(old.buf) \in Nat
    BY <2>1 DEF ChannelRecords, Contents
  <2> QED BY <2>1, <2>2, Zenon DEF Sent, ChannelRecords
<1>6. channels' \in [Channels -> ChannelRecords]
  <2>1. CASE TalkDirectory
    <3>1. channels' = [channels EXCEPT ![0] = [channels[0] EXCEPT !.buf = Block]]
      BY <2>1, Zenon DEF TalkDirectory
    <3>2. [channels[0] EXCEPT !.buf = Block] \in ChannelRecords
      BY <1>2, <1>4
    <3> QED BY <1>3, <3>1, <3>2
  <2>2. CASE TalkBootSector
    <3>1. channels' = [channels EXCEPT ![secondaryAddress] =
                                  [channels[secondaryAddress] EXCEPT !.buf = Block]]
      BY <2>2, Zenon DEF TalkBootSector
    <3>2. [channels[secondaryAddress] EXCEPT !.buf = Block] \in ChannelRecords
      BY <1>2, <1>4
    <3> QED BY <1>3, <3>1, <3>2
  <2>3. CASE SendDirectory
    <3>1. channels' = [channels EXCEPT ![0] = Sent(0)]
      BY <2>3 DEF SendDirectory
    <3> QED BY <1>3, <1>5, <3>1
  <2> QED BY <2>1, <2>2, <2>3
<1>7. /\ \/ busy' = "dir" /\ atnSequence' = "HANDLE"
         \/ busy' = "boot" /\ atnSequence' = "HANDLE" /\ secondaryAddress \in DataChannels
         \/ busy' = "none" /\ atnSequence' = "COMPLETE"
  BY <1>1, <1>2 DEF TalkDirectory, TalkBootSector, SendDirectory, Channels
<1>8. /\ atn' = atn /\ clock' = clock /\ reset' = reset /\ frame' = frame
      /\ opened' = opened /\ said' = said /\ heard' = heard
      /\ deviceRole' = deviceRole /\ commandCode' = commandCode
      /\ secondaryAddress' = secondaryAddress /\ receivedCommand' = receivedCommand
      /\ cmdBuffer' = cmdBuffer /\ sendIdx' = sendIdx /\ remaining' = remaining
      /\ error' = error /\ selectedImage' = selectedImage /\ mode' = mode /\ fs' = fs
  BY DEF TalkDirectory, TalkBootSector, SendDirectory, Talking, hostVars, fsVars
<1>9. busy' \in Loops /\ atnSequence' \in AtnSequences
  BY <1>7 DEF Loops, AtnSequences
<1>10. TypeOK'
  BY <1>6, <1>8, <1>9, Zenon DEF TypeInv, TypeOK
<1>11. Sequencing'
  BY <1>1, <1>2, <1>7, <1>8 DEF Sequencing, Transfers
<1> QED BY <1>10, <1>11 DEF TypeInv

\* Bytes that come in.
LEMMA TypeListenRequest ==
  ASSUME TypeInv, NEW r \in Requests, ListenRequest(r) \/ ListenPart(r)
  PROVE  TypeInv'
<1>1. /\ busy = "listen" /\ atnSequence = "HANDLE" /\ deviceRole # "PASSIVE"
      /\ secondaryAddress \in Channels /\ ~receivedCommand
      /\ cmdBuffer' = r /\ receivedCommand' \in BOOLEAN
  BY DEF ListenRequest, ListenPart, TypeInv, TypeOK, Sequencing, Transfers
<1>2. /\ atn' = atn /\ clock' = clock /\ reset' = reset /\ frame' = frame
      /\ atnSequence' = atnSequence /\ busy' = busy /\ deviceRole' = deviceRole
      /\ commandCode' = commandCode /\ secondaryAddress' = secondaryAddress
      /\ channels' = channels /\ sendIdx' = sendIdx /\ remaining' = remaining
      /\ error' = error /\ selectedImage' = selectedImage /\ mode' = mode /\ fs' = fs
  BY DEF ListenRequest, ListenPart, hostVars, atnVars, fsVars
<1>3. \A S : <<>> \in Seq(S)
  OBVIOUS
<1>4. /\ opened' \subseteq DataChannels
      /\ said' \in [DataChannels -> Seq(Bytes)]
      /\ heard' \in [DataChannels -> Seq(Heard)]
  <2>1. \/ opened' = opened /\ said' = said /\ heard' = heard
        \/ /\ secondaryAddress # CMD
           /\ opened' = opened \union {secondaryAddress}
           /\ said' = [said EXCEPT ![secondaryAddress] = <<>>]
           /\ heard' = [heard EXCEPT ![secondaryAddress] = <<>>]
    BY DEF ListenRequest, ListenPart, hostVars
  <2>2. /\ opened \subseteq DataChannels
        /\ said \in [DataChannels -> Seq(Bytes)]
        /\ heard \in [DataChannels -> Seq(Heard)]
    BY DEF TypeInv, TypeOK
  <2>3. said' \in [DataChannels -> Seq(Bytes)]
    BY <2>1, <2>2, <1>3
  <2>4. heard' \in [DataChannels -> Seq(Heard)]
    BY <2>1, <2>2, <1>3
  <2>5. opened' \subseteq DataChannels
    BY <1>1, <2>1, <2>2 DEF Channels
  <2> QED BY <2>3, <2>4, <2>5
<1>5. TypeOK'
  BY <1>1, <1>2, <1>4, Zenon DEF TypeInv, TypeOK
<1>6. Sequencing'
  BY <1>1, <1>2 DEF TypeInv, Sequencing, Transfers
<1> QED BY <1>5, <1>6 DEF TypeInv

LEMMA TypeSaveByte ==
  ASSUME TypeInv, NEW b \in Bytes, SaveByte(b)
  PROVE  TypeInv'
<1> DEFINE c == secondaryAddress
<1>1. c \in DataChannels /\ busy = "save"
  BY DEF SaveByte, TypeInv, Sequencing
<1>2. channels \in [Channels -> ChannelRecords] /\ c \in Channels
  BY <1>1 DEF TypeInv, TypeOK, Channels
<1>3. /\ channels' = [channels EXCEPT ![c] = Buffered(channels[c], b)]
      /\ said' = [said EXCEPT ![c] = Append(said[c], b)]
  BY DEF SaveByte
<1>4. channels' \in [Channels -> ChannelRecords]
  BY <1>2, <1>3, BufferedType
<1>5. said' \in [DataChannels -> Seq(Bytes)]
  <2>1. said[c] \in Seq(Bytes) /\ said \in [DataChannels -> Seq(Bytes)]
    BY <1>1 DEF TypeInv, TypeOK
  <2>2. Append(said[c], b) \in Seq(Bytes)
    BY <2>1
  <2> QED BY <1>3, <2>1, <2>2
<1>6. /\ atn' = atn /\ clock' = clock /\ reset' = reset /\ frame' = frame
      /\ opened' = opened /\ heard' = heard /\ atnSequence' = atnSequence
      /\ busy' = busy /\ deviceRole' = deviceRole
      /\ commandCode' = commandCode /\ secondaryAddress' = secondaryAddress
      /\ receivedCommand' = receivedCommand /\ cmdBuffer' = cmdBuffer
      /\ sendIdx' = sendIdx /\ remaining' = remaining /\ error' = error
      /\ selectedImage' = selectedImage /\ mode' = mode /\ fs' = fs
  BY DEF SaveByte, atnVars, fsVars
<1>7. TypeOK'
  BY <1>4, <1>5, <1>6, Zenon DEF TypeInv, TypeOK
<1>8. Sequencing'
  BY <1>1, <1>6 DEF TypeInv, Sequencing
<1> QED BY <1>7, <1>8 DEF TypeInv

\* A byte that goes out, and the block read behind the last one of the buffer.
LEMMA TypeLoadByte == TypeInv /\ LoadByte => TypeInv'
<1> SUFFICES ASSUME TypeInv, LoadByte PROVE TypeInv'
  OBVIOUS
<1> DEFINE c    == secondaryAddress
           ch   == channels[c]
           sent == [ch EXCEPT !.sent = @ + 1]
           next == NextBlock(ch, fs)
           read == [sent EXCEPT !.buf = next, !.pos = @ + Len(next)]
           said1 == [byte |-> ch.buf[sendIdx + 1], eoi |-> LastByte(ch)]
<1>1. /\ busy = "load" /\ c \in DataChannels /\ c \in Channels
      /\ atnSequence = "HANDLE" /\ deviceRole # "PASSIVE" /\ ~receivedCommand
      /\ sendIdx < Len(ch.buf) /\ mode = "browse"
  BY DEF LoadByte, TypeInv, TypeOK, Sequencing, Transfers, Channels
<1>2. ch \in ChannelRecords /\ fs \in FileSystems /\ sendIdx \in Nat /\ remaining \in Int
  BY <1>1 DEF TypeInv, TypeOK
<1>3. ch.buf \in Seq(Bytes) /\ ch.sent + 1 \in Nat /\ ch.pos \in Nat
  BY <1>2 DEF ChannelRecords, Contents
<1>4. next \in Contents /\ Len(next) \in Nat /\ ch.pos + Len(next) \in Nat
  BY <1>2, <1>3, NextBlockType DEF Contents
<1>5. said1 \in Heard
  <2>1. ch.buf[sendIdx + 1] \in Bytes
    BY <1>1, <1>2, <1>3
  <2>2. LastByte(ch) \in BOOLEAN
    BY DEF LastByte
  <2> QED BY <2>1, <2>2, Zenon DEF Heard
<1>6. sent \in ChannelRecords /\ sent.buf = ch.buf
  BY <1>2, <1>3, Zenon DEF ChannelRecords
<1>7. read \in ChannelRecords /\ read.buf = next
  <2>1. sent.pos = ch.pos
    BY <1>2, Zenon DEF ChannelRecords
  <2> DEFINE n == sent.pos + Len(next)
  <2>2. n \in Nat
    BY <1>4, <2>1
  <2>3. read = [sent EXCEPT !.buf = next, !.pos = n]
    OBVIOUS
  <2> HIDE DEF sent, next, ch, n, read
  <2> QED BY <1>4, <1>6, <2>2, <2>3, Zenon DEF ChannelRecords
<1>8. heard' \in [DataChannels -> Seq(Heard)]
  <2>1. heard' = [heard EXCEPT ![c] = Append(heard[c], said1)]
    BY DEF LoadByte
  <2>2. heard \in [DataChannels -> Seq(Heard)]
    BY DEF TypeInv, TypeOK
  <2> HIDE DEF said1
  <2>3. Append(heard[c], said1) \in Seq(Heard)
    BY <1>1, <1>5, <2>2
  <2> QED BY <2>1, <2>2, <2>3
<1>9. \/ /\ sendIdx + 1 < Len(ch.buf)
         /\ sendIdx' = sendIdx + 1 /\ channels' = [channels EXCEPT ![c] = sent]
         /\ remaining' = remaining /\ busy' = "load" /\ atnSequence' = "HANDLE"
      \/ /\ sendIdx' = 0 /\ channels' = [channels EXCEPT ![c] = read]
         /\ remaining' = remaining - Len(next)
         /\ \/ busy' = "none" /\ atnSequence' = "COMPLETE"
            \/ next # <<>> /\ busy' = "load" /\ atnSequence' = "HANDLE"
  BY <1>1 DEF LoadByte
<1>10. /\ atn' = atn /\ clock' = clock /\ reset' = reset /\ frame' = frame
       /\ opened' = opened /\ said' = said /\ deviceRole' = deviceRole
       /\ commandCode' = commandCode /\ secondaryAddress' = secondaryAddress
       /\ receivedCommand' = receivedCommand /\ cmdBuffer' = cmdBuffer
       /\ error' = error /\ selectedImage' = selectedImage /\ mode' = mode /\ fs' = fs
  BY DEF LoadByte, fsVars
<1>11. channels \in [Channels -> ChannelRecords]
  BY DEF TypeInv, TypeOK
<1> HIDE DEF sent, next, read, ch, said1
<1>12. /\ sendIdx' \in Nat /\ remaining' \in Int
       /\ channels' \in [Channels -> ChannelRecords]
       /\ busy' = "load" => sendIdx' < Len(channels'[c].buf)
  <2>1. next # <<>> => 0 < Len(next)
    BY <1>4 DEF Contents
  <2>2. CASE channels' = [channels EXCEPT ![c] = sent] /\ sendIdx' = sendIdx + 1
             /\ sendIdx + 1 < Len(ch.buf) /\ remaining' = remaining
    <3>1. channels'[c] = sent /\ channels' \in [Channels -> ChannelRecords]
      BY <1>1, <1>6, <1>11, <2>2
    <3> QED BY <1>2, <1>6, <2>2, <3>1
  <2>3. CASE channels' = [channels EXCEPT ![c] = read] /\ sendIdx' = 0
             /\ remaining' = remaining - Len(next)
             /\ (busy' = "load" => next # <<>>)
    <3>1. channels'[c] = read /\ channels' \in [Channels -> ChannelRecords]
      BY <1>1, <1>7, <1>11, <2>3
    <3> QED BY <1>2, <1>4, <1>7, <2>1, <2>3, <3>1
  <2> QED BY <1>9, <2>2, <2>3
<1>13. /\ \/ busy' = "load" /\ atnSequence' = "HANDLE"
          \/ busy' = "none" /\ atnSequence' = "COMPLETE"
       /\ busy' \in Loops /\ atnSequence' \in AtnSequences
  BY <1>9 DEF Loops, AtnSequences
<1>14. TypeOK'
  BY <1>8, <1>10, <1>12, <1>13, Zenon DEF TypeInv, TypeOK
<1>15. Sequencing'
  BY <1>1, <1>10, <1>12, <1>13 DEF Sequencing, Transfers
<1> QED BY <1>14, <1>15 DEF TypeInv

LEMMA TypeComplete == TypeInv /\ Complete => TypeInv'
<1> SUFFICES ASSUME TypeInv, Complete PROVE TypeInv'
  OBVIOUS
<1>1. atnSequence = "COMPLETE" /\ busy = "none" /\ mode = "browse"
  BY DEF Complete, Updating
<1>2. fs' \in FileSystems /\ error' \in Errors /\ selectedImage' \in Names \union {NoName}
  <2>1. CASE receivedCommand /\ secondaryAddress = CMD
    <3> DEFINE o == ProcessCommand(cmdBuffer, fs, Blank)
    <3>1. cmdBuffer \in RequestRecords /\ fs \in FileSystems /\ Blank \in Contents
      BY <2>1, IecAssumption DEF TypeInv, TypeOK, Sequencing
    <3>2. o \in Outcomes
      BY <3>1, ProcessCommandType
    <3>3. /\ fs' = o.fs /\ error' = o.error
          /\ selectedImage' = IF o.selected # NoName THEN o.selected ELSE selectedImage
      BY <2>1 DEF Complete
    <3> HIDE DEF o
    <3> QED BY <3>2, <3>3 DEF Outcomes, TypeInv, TypeOK
  <2>2. CASE ~(receivedCommand /\ secondaryAddress = CMD)
    BY <2>2 DEF Complete, TypeInv, TypeOK
  <2> QED BY <2>1, <2>2
<1>3. channels' \in [Channels -> ChannelRecords]
  <2>1. channels \in [Channels -> ChannelRecords] /\ cmdBuffer \in Requests \union {NoRequest}
    BY DEF TypeInv, TypeOK
  <2>2. CASE receivedCommand /\ secondaryAddress # CMD
    <3> DEFINE ch == channels[secondaryAddress]
    <3>1. ch \in ChannelRecords
      BY <2>1, <2>2 DEF TypeInv, Sequencing
    <3>2. [ch EXCEPT !.command = cmdBuffer] \in ChannelRecords
      BY <2>1, <3>1, Zenon DEF ChannelRecords
    <3>3. channels' = [channels EXCEPT ![secondaryAddress] =
                         [channels[secondaryAddress] EXCEPT !.command = cmdBuffer]]
      BY <2>2, Zenon DEF Complete
    <3> QED BY <2>1, <3>2, <3>3
  <2>3. CASE ~(receivedCommand /\ secondaryAddress # CMD)
    BY <2>1, <2>3, Zenon DEF Complete
  <2> QED BY <2>2, <2>3
<1>4. /\ atn' = atn /\ clock' = clock /\ reset' = reset /\ frame' = frame
      /\ opened' = opened /\ said' = said /\ heard' = heard
      /\ busy' = busy /\ deviceRole' = deviceRole /\ commandCode' = commandCode
      /\ secondaryAddress' = secondaryAddress /\ cmdBuffer' = cmdBuffer
      /\ sendIdx' = sendIdx /\ remaining' = remaining /\ mode' = mode
      /\ atnSequence' = "IDLE" /\ receivedCommand' = FALSE
  BY DEF Complete, hostVars
<1>5. atnSequence' \in AtnSequences /\ receivedCommand' \in BOOLEAN
  BY <1>4 DEF AtnSequences
<1>6. TypeOK'
  BY <1>2, <1>3, <1>4, <1>5, Zenon DEF TypeInv, TypeOK
<1>7. Sequencing'
  BY <1>1, <1>4 DEF Sequencing, Transfers
<1> QED BY <1>6, <1>7 DEF TypeInv

LEMMA TypeNext == TypeInv /\ [Next]_vars => TypeInv'
<1> SUFFICES ASSUME TypeInv, [Next]_vars PROVE TypeInv'
  OBVIOUS
<1>1. CASE HostNext
  BY <1>1, TypeHost
<1>2. CASE SequenceNext
  BY <1>2, TypeReset, TypeQuiet, TypeComplete, TypeReceive DEF SequenceNext
<1>3. CASE HandleNext
  BY <1>3, TypeQuiet, TypeListenName, TypeBlocks, TypeListenData, TypeTalkFile DEF HandleNext
<1>4. CASE TransferNext
  BY <1>4, TypeListenRequest, TypeSaveByte, TypeLoadByte, TypeBlocks, TypeQuiet,
     TypeSendBootSector DEF TransferNext
<1>5. CASE CallerNext
  BY <1>5, TypeQuiet, TypeReset DEF CallerNext
<1>6. CASE UNCHANGED vars
  BY <1>6 DEF vars, hostVars, atnVars, dataVars, fsVars, TypeInv, TypeOK, Sequencing
<1> QED BY <1>1, <1>2, <1>3, <1>4, <1>5, <1>6 DEF Next

\* Whatever the host and the card do, the state of the drive keeps its types,
\* and nothing is read outside a buffer while it is sent.
THEOREM TypeCorrect == Spec => []TypeOK
<1>1. Init => TypeInv
  BY TypeInit
<1>2. TypeInv /\ [Next]_vars => TypeInv'
  BY TypeNext
<1>3. TypeInv => TypeOK
  BY DEF TypeInv
<1> QED BY <1>1, <1>2, <1>3, PTL DEF Spec

\* The drive is in a transfer only while it handles a frame, on a channel that
\* frame named, and a request waits for COMPLETE and nothing else.
THEOREM SequenceKept == Spec => []Sequencing
<1>1. TypeInv => Sequencing
  BY DEF TypeInv
<1> QED BY <1>1, TypeInit, TypeNext, PTL DEF Spec

-----------------------------------------------------------------------------
(* What the computer keeps to and the drive remembers.  Most theorems below  *)
(* are about a computer that opens a file on one channel at a time to write  *)
(* it and leaves the files it has open alone, and does not reset.            *)

\* A name has arrived for channel c, or a command, and waits for COMPLETE.
Pending(c) == receivedCommand /\ secondaryAddress = c
\* What the host asked of channel c last.
Asked(c) == IF Pending(c) THEN cmdBuffer ELSE channels[c].command

\* The role is the one the frame gave, or none after an emulation in between.
RoleInv ==
  atnSequence = "RECEIVE" =>
    /\ frame = "listen" => deviceRole # "TALK"
    /\ frame = "talk" => deviceRole # "LISTEN"

\* What is handled is data of an opened channel, or an open of one that is not.
HandleInv ==
  atnSequence = "HANDLE" /\ deviceRole # "PASSIVE" =>
    \/ /\ commandCode.kind = "data" /\ secondaryAddress \in opened \union {CMD}
       /\ deviceRole = "TALK" /\ OpOf(cmdBuffer) = "dir" => secondaryAddress \in {0, CMD}
    \/ /\ commandCode.kind = "open" /\ deviceRole = "LISTEN"
       /\ receivedCommand \/ secondaryAddress \notin opened

\* A transfer is the one its channel was opened for.
TransferInv ==
  /\ busy = "listen" => secondaryAddress = CMD \/ commandCode.kind = "open"
  /\ busy = "save" => channels[secondaryAddress].open /\ channels[secondaryAddress].writing
  /\ busy = "load" => channels[secondaryAddress].open /\ ~channels[secondaryAddress].writing
  /\ busy = "dir" => deviceRole = "TALK" /\ OpOf(cmdBuffer) = "dir" /\ secondaryAddress # CMD
  /\ busy = "boot" => OpOf(channels[secondaryAddress].command) = "direct"

\* A listing that may be asked for is channel 0's.
ListingInv ==
  OpOf(cmdBuffer) = "dir" =>
    ~channels[0].open /\ (Pending(0) \/ OpOf(channels[0].command) = "dir")

\* An open channel serves the request sent last, the only one for its file if one
\* of them writes; what is left in the buffer of another is of no file.
OpenInv(c) ==
  channels[c].open =>
    /\ c \in opened /\ ~Pending(c)
    /\ OpOf(channels[c].command) = "file"
    /\ channels[c].file = channels[c].command.name
    /\ channels[c].writing = Writes(c, channels[c].command)
ClosedInv(c) ==
  ~channels[c].open =>
    /\ c \in opened => said[c] = <<>>
    /\ channels[c].buf # <<>> =>
         c \in opened /\ ~Pending(c) /\ OpOf(channels[c].command) # "file"
ChannelInv ==
  \A c \in DataChannels : OpenInv(c) /\ ClosedInv(c) /\ (Pending(c) => c \in opened)
ShareInv ==
  \A c, d \in opened :
    /\ c # d /\ OpOf(Asked(c)) = "file" /\ OpOf(Asked(d)) = "file"
    /\ Asked(c).name = Asked(d).name
    => ~Writes(c, Asked(c))

\* A command that waits leaves the files in use alone, and an image is selected
\* when there are none.
CommandInv ==
  Pending(CMD) =>
    /\ \A n \in NamesOf(cmdBuffer), d \in DataChannels : ~InUse(d, n)
    /\ cmdBuffer.op \in {"cd", "new"} => opened = {}
ImageInv == selectedImage # NoName \/ mode = "emulate" => opened = {} /\ busy = "none"

KeptInv ==
  /\ ~reset /\ ~channels[CMD].open /\ RoleInv /\ HandleInv /\ TransferInv /\ ListingInv
  /\ ChannelInv /\ ShareInv /\ CommandInv /\ ImageInv

ChannelFields == {"open", "writing", "file", "fil", "pos", "buf", "sent", "command"}

LEMMA ChannelDomain ==
  ASSUME NEW ch \in ChannelRecords
  PROVE  DOMAIN ch = ChannelFields
BY DEF ChannelRecords, ChannelFields

\* Who changes no channel, no file and no request keeps what is remembered of them.
LEMMA NothingTouched ==
  ASSUME TypeInv, KeptInv,
         opened' = opened, said' = said, fs' = fs, receivedCommand' = receivedCommand,
         \A c \in DataChannels : channels'[c] = channels[c],
         receivedCommand => secondaryAddress' = secondaryAddress /\ cmdBuffer' = cmdBuffer,
         cmdBuffer' = cmdBuffer \/ OpOf(cmdBuffer)' # "dir"
  PROVE  /\ ListingInv' /\ ChannelInv' /\ ShareInv' /\ CommandInv'
         /\ NothingLost => NothingLost'
<1>1. \A c : Pending(c)' <=> Pending(c)
  BY DEF Pending
<1>2. \A c \in DataChannels : Asked(c)' = Asked(c)
  BY <1>1 DEF Asked, Pending
<1>3. 0 \in DataChannels /\ opened \subseteq DataChannels
  BY IecAssumption DEF TypeInv, TypeOK
<1>4. ListingInv'
  BY <1>1, <1>3 DEF KeptInv, ListingInv, OpOf
<1>5. ChannelInv'
  <2> SUFFICES ASSUME NEW c \in DataChannels
               PROVE  OpenInv(c)' /\ ClosedInv(c)' /\ (Pending(c)' => c \in opened')
    BY DEF ChannelInv
  <2>1. OpenInv(c) /\ ClosedInv(c) /\ (Pending(c) => c \in opened)
    BY DEF KeptInv, ChannelInv
  <2>2. channels'[c] = channels[c]
    OBVIOUS
  <2>3. OpenInv(c)'
    BY <1>1, <2>1, <2>2 DEF OpenInv
  <2>4. ClosedInv(c)'
    BY <1>1, <2>1, <2>2 DEF ClosedInv
  <2>5. QED
    BY <1>1, <2>1, <2>3, <2>4
<1>6. ShareInv'
  BY <1>2, <1>3 DEF KeptInv, ShareInv
<1>7. CommandInv'
  <2>1. CASE Pending(CMD)
    <3>1. cmdBuffer' = cmdBuffer
      BY <2>1 DEF Pending
    <3>2. \A n : \A d \in DataChannels : InUse(d, n)' <=> InUse(d, n)
      BY DEF InUse
    <3>3. QED
      BY <2>1, <3>1, <3>2 DEF KeptInv, CommandInv, NamesOf
  <2>2. CASE ~Pending(CMD)
    BY <1>1, <2>2 DEF CommandInv
  <2>3. QED
    BY <2>1, <2>2
<1>8. NothingLost => NothingLost'
  BY DEF NothingLost, Exists
<1>9. QED
  BY <1>4, <1>5, <1>6, <1>7, <1>8

\* Who changes one channel, and no request, has that channel to look after.
LEMMA OneChannel ==
  ASSUME TypeInv, KeptInv, NEW c \in DataChannels,
         opened' = opened, ~receivedCommand, ~receivedCommand', cmdBuffer' = cmdBuffer,
         \A d \in DataChannels \ {c} : channels'[d] = channels[d] /\ said'[d] = said[d],
         channels'[c].command = channels[c].command,
         OpenInv(c)', ClosedInv(c)',
         OpOf(cmdBuffer) = "dir" /\ c = 0 => ~channels'[c].open
  PROVE  ListingInv' /\ ChannelInv' /\ ShareInv' /\ CommandInv'
<1>1. \A d : ~Pending(d) /\ ~Pending(d)'
  BY DEF Pending
<1>2. \A d \in DataChannels : Asked(d)' = Asked(d)
  BY <1>1 DEF Asked
<1>3. 0 \in DataChannels /\ opened \subseteq DataChannels
  BY IecAssumption DEF TypeInv, TypeOK
<1>4. ListingInv'
  BY <1>1, <1>3 DEF KeptInv, ListingInv, OpOf
<1>5. ChannelInv'
  <2> SUFFICES ASSUME NEW d \in DataChannels, d # c
               PROVE  OpenInv(d)' /\ ClosedInv(d)'
    BY <1>1 DEF ChannelInv
  <2>1. OpenInv(d) /\ ClosedInv(d)
    BY DEF KeptInv, ChannelInv
  <2>2. channels'[d] = channels[d] /\ said'[d] = said[d]
    OBVIOUS
  <2>3. OpenInv(d)'
    BY <1>1, <2>1, <2>2 DEF OpenInv
  <2>4. ClosedInv(d)'
    BY <1>1, <2>1, <2>2 DEF ClosedInv
  <2>5. QED
    BY <2>3, <2>4
<1>6. ShareInv'
  BY <1>2, <1>3 DEF KeptInv, ShareInv
<1>7. CommandInv'
  BY <1>1 DEF CommandInv
<1>8. QED
  BY <1>4, <1>5, <1>6, <1>7

-----------------------------------------------------------------------------
(* The host's steps, and those of the sequence that touch nothing *)

LEMMA HostKeeps ==
  ASSUME TypeInv, KeptInv, ~Resets, HostNext
  PROVE  KeptInv' /\ (NothingLost => NothingLost')
<1>1. HostAttention \/ HostClock \/ HostRelease
  BY DEF HostNext
<1>2. /\ opened' = opened /\ said' = said /\ reset' = reset /\ UNCHANGED <<atnVars, dataVars, fsVars>>
      /\ frame' \in {frame, "start", "none"}
  BY <1>1 DEF HostAttention, HostClock, HostRelease
<1>3. /\ atnSequence' = atnSequence /\ busy' = busy /\ deviceRole' = deviceRole
      /\ commandCode' = commandCode /\ secondaryAddress' = secondaryAddress
      /\ receivedCommand' = receivedCommand /\ cmdBuffer' = cmdBuffer
      /\ channels' = channels /\ selectedImage' = selectedImage
      /\ mode' = mode /\ fs' = fs
  BY <1>2 DEF atnVars, dataVars, fsVars
<1>4. /\ ListingInv' /\ ChannelInv' /\ ShareInv' /\ CommandInv'
      /\ NothingLost => NothingLost'
  BY <1>2, <1>3, NothingTouched
<1>5. RoleInv'
  BY <1>2, <1>3 DEF KeptInv, RoleInv
<1>6. HandleInv'
  BY <1>2, <1>3 DEF KeptInv, HandleInv, OpOf
<1>7. TransferInv'
  BY <1>2, <1>3 DEF KeptInv, TransferInv, OpOf
<1>8. ImageInv'
  BY <1>2, <1>3 DEF KeptInv, ImageInv
<1>9. QED
  BY <1>2, <1>3, <1>4, <1>5, <1>6, <1>7, <1>8 DEF KeptInv

LEMMA QuietKeeps ==
  ASSUME TypeInv, KeptInv, StrictHost,
         \/ Idle \/ Attention \/ ClockSeen \/ Released \/ ReceiveNothing
         \/ HandlePassive \/ TalkError \/ SendError \/ Interrupted \/ LeaveBrowse
  PROVE  KeptInv' /\ (NothingLost => NothingLost')
<1>1. /\ UNCHANGED hostVars /\ UNCHANGED dataVars /\ fs' = fs
      /\ secondaryAddress' = secondaryAddress /\ selectedImage' = selectedImage
      /\ busy' \in {busy, "none", "clock", "error"}
      /\ deviceRole' \in {deviceRole, "PASSIVE"}
      /\ mode' = "emulate" => opened = {} /\ busy' = "none"
  <2>1. CASE Idle \/ Attention \/ ReceiveNothing \/ HandlePassive \/ TalkError
    <3>1. mode = "browse" /\ busy = "none"
      BY <2>1 DEF Idle, Attention, ReceiveNothing, HandlePassive, TalkError, Talking, Updating,
                  Handling
    <3>2. QED
      BY <2>1, <3>1 DEF Idle, Attention, ReceiveNothing, HandlePassive, TalkError, Talking,
                        dataVars, fsVars
  <2>2. CASE ClockSeen \/ Released \/ SendError \/ Interrupted
    <3>1. mode # "emulate"
      BY <2>2 DEF ClockSeen, Released, SendError, Interrupted, Watching, TypeInv, Sequencing
    <3>2. QED
      BY <2>2, <3>1 DEF ClockSeen, Released, SendError, Interrupted, fsVars
  <2>3. CASE LeaveBrowse
    BY <2>3 DEF LeaveBrowse, atnVars
  <2>4. QED
    BY <2>1, <2>2, <2>3
<1>2. /\ opened' = opened /\ said' = said /\ reset' = reset /\ frame' = frame
      /\ receivedCommand' = receivedCommand /\ cmdBuffer' = cmdBuffer
      /\ channels' = channels
  BY <1>1 DEF hostVars, dataVars
<1>3. /\ ListingInv' /\ ChannelInv' /\ ShareInv' /\ CommandInv'
      /\ NothingLost => NothingLost'
  BY <1>1, <1>2, NothingTouched
<1>4. /\ atnSequence' = "RECEIVE" => deviceRole' = "PASSIVE" \/ atnSequence = "RECEIVE"
      /\ atnSequence' = "HANDLE" /\ deviceRole' # "PASSIVE" =>
           atnSequence = "HANDLE" /\ commandCode' = commandCode
      /\ selectedImage # NoName => busy' = "none"
  <2>1. CASE Idle \/ Attention \/ ReceiveNothing \/ HandlePassive \/ TalkError
    BY <2>1 DEF Idle, Attention, ReceiveNothing, HandlePassive, TalkError, Talking, Updating,
                Handling, TypeInv, TypeOK
  <2>2. CASE ClockSeen \/ Released \/ SendError \/ Interrupted \/ LeaveBrowse
    BY <2>2 DEF ClockSeen, Released, SendError, Interrupted, LeaveBrowse, atnVars
  <2>3. QED
    BY <2>1, <2>2
<1>5. RoleInv'
  BY <1>1, <1>2, <1>4 DEF KeptInv, RoleInv
<1>6. HandleInv'
  BY <1>1, <1>2, <1>4 DEF KeptInv, HandleInv, OpOf
<1>7. TransferInv'
  <2>1. busy' \in {"listen", "save", "load", "dir", "boot"} => busy' = busy
    BY <1>1
  <2>2. busy' = "dir" => deviceRole' = deviceRole
    BY DEF Idle, Attention, ClockSeen, Released, ReceiveNothing, HandlePassive, TalkError,
           SendError, Interrupted, LeaveBrowse, Talking, atnVars
  <2>3. busy' = "listen" => commandCode' = commandCode
    BY DEF Idle, Attention, ClockSeen, Released, ReceiveNothing, HandlePassive, TalkError,
           SendError, Interrupted, LeaveBrowse, Talking, Updating, Handling, atnVars
  <2>4. QED
    BY <1>1, <1>2, <2>1, <2>2, <2>3 DEF KeptInv, TransferInv, OpOf
<1>8. ImageInv'
  BY <1>1, <1>2, <1>4 DEF KeptInv, ImageInv
<1>9. QED
  BY <1>2, <1>3, <1>5, <1>6, <1>7, <1>8 DEF KeptInv

\* When the drive gives up its channels, the host has none open.
LEMMA ClosedIs ==
  ASSUME NEW ch \in ChannelRecords
  PROVE  /\ ~Closed(ch).open /\ Closed(ch).buf = <<>>
         /\ Closed(ch).command = ch.command
BY ChannelDomain DEF Closed, ChannelFields

LEMMA ResetKeeps ==
  ASSUME TypeInv, KeptInv, DeviceReset \/ MountFails \/ EnterBrowse
  PROVE  KeptInv' /\ (NothingLost => NothingLost')
<1>1. ResetState /\ opened = {} /\ busy = "none"
  BY DEF DeviceReset, MountFails, EnterBrowse, KeptInv, ImageInv
<1>2. /\ opened' = {} /\ reset' = reset /\ busy' = "none" /\ ~receivedCommand'
      /\ atnSequence' = "IDLE" /\ cmdBuffer' = cmdBuffer /\ channels' = AllClosed
      /\ selectedImage' = NoName
  BY <1>1 DEF ResetState, hostVars
<1>3. ASSUME NEW c \in DataChannels
      PROVE  ~channels'[c].open /\ channels'[c].buf = <<>> /\ channels'[c].command = channels[c].command
  <2>1. channels'[c] = Closed(channels[c])
    BY <1>2, IecAssumption DEF AllClosed, Channels, CMD
  <2>2. channels[c] \in ChannelRecords
    BY DEF TypeInv, TypeOK, Channels
  <2>3. QED
    BY <2>1, <2>2, ClosedIs
<1>4. \A c : ~Pending(c)'
  BY <1>2 DEF Pending
<1>5. ListingInv'
  <2>1. OpOf(cmdBuffer) = "dir" => OpOf(channels[0].command) = "dir"
    BY <1>1, IecAssumption DEF KeptInv, ListingInv, ChannelInv, Pending
  <2>2. QED
    BY <1>2, <1>3, <2>1, IecAssumption DEF ListingInv, OpOf
<1>6. ChannelInv' /\ ShareInv' /\ CommandInv'
  BY <1>2, <1>3, <1>4 DEF ChannelInv, OpenInv, ClosedInv, ShareInv, CommandInv
<1>7. NothingLost'
  BY <1>3 DEF NothingLost
<1>8. RoleInv' /\ HandleInv' /\ TransferInv' /\ ImageInv'
  BY <1>2 DEF RoleInv, HandleInv, TransferInv, ImageInv
<1>9. ~channels'[CMD].open
  BY <1>2 DEF AllClosed, Channels, KeptInv
<1>10. QED
  BY <1>2, <1>5, <1>6, <1>7, <1>8, <1>9 DEF KeptInv

-----------------------------------------------------------------------------
(* Codes, names and commands *)

\* Where the code that is handled comes from.
LEMMA CodeIs ==
  ASSUME TypeInv, KeptInv, StrictHost, NEW code \in HostCodes, ReceiveCode(code)
  PROVE  RoleInv' /\ HandleInv' /\ TransferInv' /\ ImageInv'
<1>1. /\ atnSequence = "RECEIVE" /\ busy = "none" /\ mode = "browse" /\ selectedImage = NoName
      /\ LegalCode(code) /\ commandCode' = code /\ cmdBuffer' = cmdBuffer
      /\ deviceRole' = NextRole(code.kind) /\ atnSequence' = NextSequence(code.kind)
      /\ busy' \in {"release", "none"} /\ selectedImage' = selectedImage /\ mode' = mode
      /\ frame' = IF code.kind \in {"listen", "talk"} THEN code.kind ELSE "done"
      /\ code.kind \in {"data", "open", "close"} => secondaryAddress' = code.sa
      /\ code.kind # "close" => opened' = opened
  BY DEF ReceiveCode, Updating
<1>2. RoleInv /\ (frame = "start" => deviceRole = "PASSIVE")
  BY <1>1 DEF KeptInv, TypeInv, Sequencing
<1>3. RoleInv'
  BY <1>1 DEF RoleInv, NextRole
<1>4. HandleInv'
  <2> SUFFICES ASSUME atnSequence' = "HANDLE", deviceRole' # "PASSIVE"
               PROVE  \/ /\ commandCode'.kind = "data" /\ secondaryAddress' \in opened' \union {CMD}
                         /\ deviceRole' = "TALK" /\ OpOf(cmdBuffer') = "dir"
                              => secondaryAddress' \in {0, CMD}
                      \/ /\ commandCode'.kind = "open" /\ deviceRole' = "LISTEN"
                         /\ receivedCommand' \/ secondaryAddress' \notin opened'
    BY DEF HandleInv, OpOf
  <2>1. code.kind \in CodeKinds \ {"zero", "listen", "talk", "close", "other"}
    BY <1>1 DEF NextSequence, HostCodes
  <2>2. CASE code.kind \in {"unlisten", "untalk"}
    <3>1. frame = "start"
      BY <1>1, <2>2 DEF LegalCode
    <3>2. QED
      BY <1>1, <1>2, <2>2, <3>1 DEF NextRole
  <2>3. CASE code.kind = "data"
    <3>1. /\ frame \in {"listen", "talk"} /\ code.sa \in opened \union {CMD}
          /\ deviceRole' = deviceRole
      BY <1>1, <2>3 DEF LegalCode, NextRole
    <3>2. deviceRole = "TALK" => frame = "talk"
      BY <1>1, <1>2, <3>1 DEF RoleInv
    <3>3. QED
      BY <1>1, <2>3, <3>1, <3>2 DEF LegalCode
  <2>4. CASE code.kind = "open"
    <3>1. frame = "listen" /\ code.sa \in Channels \ opened /\ deviceRole' = deviceRole
      BY <1>1, <2>4 DEF LegalCode, NextRole
    <3>2. deviceRole = "LISTEN"
      BY <1>1, <1>2, <3>1 DEF RoleInv, TypeInv, TypeOK, Roles
    <3>3. QED
      BY <1>1, <2>4, <3>1, <3>2
  <2>5. QED
    BY <2>1, <2>2, <2>3, <2>4 DEF CodeKinds
<1>5. TransferInv' /\ ImageInv'
  BY <1>1 DEF TransferInv, ImageInv
<1>6. QED
  BY <1>3, <1>4, <1>5

\* Closing a channel stores its file and leaves the files of the others alone.
LEMMA CloseKeeps ==
  ASSUME TypeInv, KeptInv, StrictHost, NEW code \in HostCodes, ReceiveCode(code),
         code.kind = "close"
  PROVE  KeptInv' /\ (NothingLost => NothingLost')
<1> DEFINE c == code.sa
           ch == channels[c]
<1>1. /\ atnSequence = "RECEIVE" /\ c \in Channels /\ fs' = Synced(fs, ch)
      /\ channels' = [channels EXCEPT ![c] = Closed(channels[c])]
      /\ opened' = opened \ {c} /\ reset' = reset
      /\ receivedCommand' = receivedCommand /\ cmdBuffer' = cmdBuffer
      /\ said' = [d \in DataChannels |-> IF d = c THEN <<>> ELSE said[d]]
  BY DEF ReceiveCode, LegalCode
<1>2. channels \in [Channels -> ChannelRecords] /\ ch \in ChannelRecords
  BY <1>1 DEF TypeInv, TypeOK
<1>3. ~receivedCommand /\ \A d : ~Pending(d) /\ ~Pending(d)'
  BY <1>1 DEF TypeInv, Sequencing, Transfers, Pending
<1>4. /\ channels'[c] = Closed(ch)
      /\ \A d \in Channels \ {c} : channels'[d] = channels[d]
      /\ \A d \in DataChannels \ {c} : said'[d] = said[d]
  BY <1>1, <1>2
<1>5. ~channels'[c].open /\ channels'[c].buf = <<>> /\ channels'[c].command = ch.command
  BY <1>2, <1>4, ClosedIs
<1>6. DataChannels \subseteq Channels /\ CMD \in Channels /\ CMD \notin DataChannels
      /\ 0 \in DataChannels
  BY IecAssumption DEF Channels, CMD
<1>7. ~channels'[CMD].open
  BY <1>4, <1>5, <1>6 DEF KeptInv
<1>8. ListingInv'
  <2>1. OpOf(cmdBuffer) = "dir" => ~channels[0].open /\ OpOf(channels[0].command) = "dir"
    BY <1>3 DEF KeptInv, ListingInv
  <2>2. channels'[0].command = channels[0].command
    BY <1>4, <1>5, <1>6
  <2>3. channels'[0].open => channels[0].open
    BY <1>4, <1>5, <1>6
  <2>4. QED
    BY <1>1, <2>1, <2>2, <2>3 DEF ListingInv, OpOf
<1>9. ChannelInv'
  <2> SUFFICES ASSUME NEW d \in DataChannels PROVE OpenInv(d)' /\ ClosedInv(d)'
    BY <1>3 DEF ChannelInv
  <2>1. OpenInv(d) /\ ClosedInv(d)
    BY DEF KeptInv, ChannelInv
  <2>2. CASE d = c
    BY <1>1, <1>5, <2>2 DEF OpenInv, ClosedInv
  <2>3. CASE d # c
    <3>1. channels'[d] = channels[d] /\ said'[d] = said[d] /\ (d \in opened' <=> d \in opened)
      BY <1>1, <1>4, <1>6, <2>3
    <3>2. OpenInv(d)'
      BY <1>3, <2>1, <3>1 DEF OpenInv
    <3>3. ClosedInv(d)'
      BY <1>3, <2>1, <3>1 DEF ClosedInv
    <3>4. QED
      BY <3>2, <3>3
  <2>4. QED
    BY <2>2, <2>3
<1>10. ShareInv'
  <2>1. \A d \in Channels : Asked(d)' = Asked(d)
    BY <1>3, <1>4, <1>5 DEF Asked
  <2>2. opened \subseteq Channels /\ opened' \subseteq opened
    BY <1>1, <1>6 DEF TypeInv, TypeOK
  <2>3. QED
    BY <2>1, <2>2 DEF KeptInv, ShareInv
<1>11. CommandInv'
  BY <1>3 DEF CommandInv
<1>12. ASSUME NothingLost PROVE NothingLost'
  <2> SUFFICES ASSUME NEW d \in DataChannels, channels'[d].open, channels'[d].writing
               PROVE  /\ Exists(fs', channels'[d].file)
                      /\ channels'[d].fil \o channels'[d].buf = fs'[channels'[d].file] \o said'[d]
    BY DEF NothingLost, Exists
  <2>1. d # c /\ channels'[d] = channels[d] /\ said'[d] = said[d]
    BY <1>4, <1>5, <1>6
  <2>2. /\ Exists(fs, channels[d].file)
        /\ channels[d].fil \o channels[d].buf = fs[channels[d].file] \o said[d]
    BY <1>12, <2>1 DEF NothingLost
  <2>3. ch.open /\ ch.writing => ch.file # channels[d].file
    <3> SUFFICES ASSUME ch.open, ch.writing, ch.file = channels[d].file PROVE FALSE
      OBVIOUS
    <3>1. c \in DataChannels
      BY <1>1 DEF KeptInv, Channels
    <3>2. OpenInv(c) /\ OpenInv(d) /\ Asked(c) = ch.command /\ Asked(d) = channels[d].command
      BY <1>3, <3>1 DEF KeptInv, ChannelInv, Asked
    <3>3. /\ c \in opened /\ d \in opened
          /\ OpOf(ch.command) = "file" /\ OpOf(channels[d].command) = "file"
          /\ ch.command.name = channels[d].command.name /\ Writes(c, ch.command)
      BY <2>1, <3>2 DEF OpenInv
    <3>4. QED
      BY <2>1, <3>2, <3>3 DEF KeptInv, ShareInv
  <2>4. fs'[channels[d].file] = fs[channels[d].file]
    <3>1. fs \in FileSystems
      BY DEF TypeInv, TypeOK
    <3>2. QED
      BY <1>1, <2>2, <2>3, <3>1 DEF Synced, Exists, FileSystems
  <2>5. QED
    BY <2>1, <2>2, <2>4 DEF Exists
<1>13. QED
  BY <1>1, <1>7, <1>8, <1>9, <1>10, <1>11, <1>12, CodeIs DEF KeptInv

LEMMA ReceiveKeeps ==
  ASSUME TypeInv, KeptInv, StrictHost, NEW code \in HostCodes, ReceiveCode(code)
  PROVE  KeptInv' /\ (NothingLost => NothingLost')
<1>1. CASE code.kind # "close"
  <2>1. /\ opened' = opened /\ said' = said /\ fs' = fs /\ channels' = channels
        /\ receivedCommand' = receivedCommand /\ cmdBuffer' = cmdBuffer /\ reset' = reset
        /\ atnSequence = "RECEIVE"
    BY <1>1 DEF ReceiveCode
  <2>2. ~receivedCommand
    BY <2>1 DEF TypeInv, Sequencing, Transfers
  <2>3. /\ ListingInv' /\ ChannelInv' /\ ShareInv' /\ CommandInv'
        /\ NothingLost => NothingLost'
    BY <2>1, <2>2, NothingTouched
  <2>4. QED
    BY <2>1, <2>3, CodeIs DEF KeptInv
<1>2. CASE code.kind = "close"
  BY <1>2, CloseKeeps
<1>3. QED
  BY <1>1, <1>2

LEMMA ListenNameKeeps ==
  ASSUME TypeInv, KeptInv, ListenName
  PROVE  KeptInv' /\ (NothingLost => NothingLost')
<1>1. /\ opened' = opened /\ said' = said /\ fs' = fs /\ reset' = reset
      /\ receivedCommand' = receivedCommand /\ cmdBuffer' = NoRequest
      /\ atnSequence = "HANDLE" /\ atnSequence' = atnSequence /\ deviceRole = "LISTEN"
      /\ busy' = "listen" /\ deviceRole' = deviceRole /\ commandCode' = commandCode
      /\ secondaryAddress' = secondaryAddress /\ selectedImage' = selectedImage
      /\ selectedImage = NoName /\ mode' = mode /\ mode = "browse" /\ busy = "none"
      /\ secondaryAddress = CMD \/ commandCode.kind = "open"
      /\ channels' = [channels EXCEPT ![CMD] = Closed(channels[CMD])]
  BY DEF ListenName, Handling, Updating, hostVars, fsVars
<1>2. ~receivedCommand
  BY <1>1 DEF TypeInv, Sequencing
<1>3. /\ channels \in [Channels -> ChannelRecords] /\ CMD \in Channels
      /\ DataChannels \subseteq Channels /\ CMD \notin DataChannels
  BY IecAssumption DEF TypeInv, TypeOK, Channels, CMD
<1>4. \A c \in DataChannels : channels'[c] = channels[c]
  BY <1>1, <1>3
<1>5. ~channels'[CMD].open
  BY <1>1, <1>3, ClosedIs
<1>6. OpOf(cmdBuffer)' # "dir" /\ OpOf(cmdBuffer') # "dir"
  BY <1>1 DEF OpOf
<1>7. /\ ListingInv' /\ ChannelInv' /\ ShareInv' /\ CommandInv'
      /\ NothingLost => NothingLost'
  BY <1>1, <1>2, <1>4, <1>6, NothingTouched
<1>8. RoleInv' /\ TransferInv' /\ ImageInv'
  BY <1>1 DEF RoleInv, TransferInv, ImageInv
<1>9. HandleInv'
  BY <1>1, <1>6 DEF KeptInv, HandleInv
<1>10. QED
  BY <1>1, <1>5, <1>7, <1>8, <1>9 DEF KeptInv

\* A name or a command arrives.
LEMMA RequestKeeps ==
  ASSUME TypeInv, KeptInv, StrictHost, NEW r \in Requests, ListenRequest(r)
  PROVE  KeptInv' /\ (NothingLost => NothingLost')
<1> DEFINE c == secondaryAddress
<1>1. /\ busy = "listen" /\ ~receivedCommand /\ receivedCommand' /\ cmdBuffer' = r
      /\ reset' = reset /\ frame' = frame /\ atnSequence' = atnSequence /\ busy' = busy
      /\ deviceRole' = deviceRole /\ commandCode' = commandCode /\ secondaryAddress' = c
      /\ channels' = channels /\ selectedImage' = selectedImage /\ mode' = mode /\ fs' = fs
      /\ LegalRequest(c, r)
  BY DEF ListenRequest, atnVars, fsVars
<1>2. /\ atnSequence = "HANDLE" /\ deviceRole # "PASSIVE" /\ c \in Channels
      /\ selectedImage = NoName /\ mode # "emulate"
      /\ c = CMD \/ commandCode.kind = "open"
  BY <1>1 DEF TypeInv, Sequencing, Transfers, KeptInv, ImageInv, TransferInv
<1>3. /\ DataChannels \subseteq Channels /\ CMD \in Channels /\ CMD \notin DataChannels
      /\ 0 \in DataChannels /\ opened \subseteq DataChannels
  BY IecAssumption DEF Channels, CMD, TypeInv, TypeOK
<1>4. OpOf(r) = r.op
  BY IecAssumption DEF OpOf
<1>5. \A d : ~Pending(d) /\ (Pending(d)' <=> d = c)
  BY <1>1 DEF Pending
<1>6. RoleInv' /\ ImageInv'
  BY <1>1, <1>2 DEF KeptInv, RoleInv, ImageInv
<1>7. TransferInv'
  BY <1>1, <1>2 DEF TransferInv
<1>8. CASE c = CMD
  <2>1. LegalCommand(r) /\ opened' = opened /\ said' = said
    BY <1>1, <1>8 DEF LegalRequest, ListenRequest
  <2>2. HandleInv'
    <3>1. commandCode.kind \in {"data", "open"}
      BY <1>2 DEF KeptInv, HandleInv
    <3>2. commandCode.kind = "open" => commandCode.kind # "data"
      OBVIOUS
    <3>3. commandCode.kind = "open" => deviceRole = "LISTEN"
      BY <1>2, <3>2 DEF KeptInv, HandleInv
    <3>4. QED
      BY <1>1, <1>8, <3>1, <3>3 DEF HandleInv
  <2>3. ListingInv'
    BY <1>1, <1>4, <2>1 DEF ListingInv, LegalCommand, OpOf
  <2>4. ChannelInv'
    <3> SUFFICES ASSUME NEW d \in DataChannels PROVE OpenInv(d)' /\ ClosedInv(d)'
      BY <1>3, <1>5, <1>8 DEF ChannelInv
    <3>1. OpenInv(d) /\ ClosedInv(d) /\ ~Pending(d)'
      BY <1>3, <1>5, <1>8 DEF KeptInv, ChannelInv
    <3>2. OpenInv(d)'
      BY <1>1, <2>1, <3>1 DEF OpenInv
    <3>3. ClosedInv(d)'
      BY <1>1, <2>1, <3>1 DEF ClosedInv
    <3>4. QED
      BY <3>2, <3>3
  <2>5. ShareInv'
    <3>1. \A d \in DataChannels : Asked(d)' = Asked(d)
      BY <1>1, <1>3, <1>5, <1>8 DEF Asked
    <3>2. QED
      BY <1>3, <2>1, <3>1 DEF KeptInv, ShareInv
  <2>6. CommandInv'
    <3>1. \A n : \A d \in DataChannels : InUse(d, n)' <=> InUse(d, n)
      BY <1>1, <2>1 DEF InUse
    <3>2. NamesOf(cmdBuffer)' = NamesOf(r)
      BY <1>1 DEF NamesOf
    <3>3. /\ \A n \in NamesOf(r), d \in DataChannels : ~InUse(d, n)
          /\ r.op \in {"cd", "new"} => opened = {}
      BY <2>1 DEF LegalCommand
    <3> HIDE <1>1
    <3>4. \A n \in NamesOf(cmdBuffer)', d \in DataChannels : ~InUse(d, n)'
      BY <3>1, <3>2, <3>3
    <3>5. QED
      BY <1>1, <2>1, <3>3, <3>4 DEF CommandInv
  <2>7. NothingLost => NothingLost'
    BY <1>1, <2>1 DEF NothingLost, Exists
  <2>8. QED
    BY <1>1, <1>6, <1>7, <2>2, <2>3, <2>4, <2>5, <2>6, <2>7 DEF KeptInv
<1>9. CASE c # CMD
  <2>1. /\ c \in DataChannels /\ LegalName(c, r) /\ opened' = opened \union {c}
        /\ said' = [said EXCEPT ![c] = <<>>] /\ said \in [DataChannels -> Seq(Bytes)]
    BY <1>1, <1>2, <1>9 DEF LegalRequest, ListenRequest, Channels, TypeInv, TypeOK
  <2>2. commandCode.kind = "open" /\ deviceRole = "LISTEN" /\ c \notin opened
    <3>1. commandCode.kind = "open" /\ commandCode.kind # "data"
      BY <1>2, <1>9
    <3>2. QED
      BY <1>1, <1>2, <3>1 DEF KeptInv, HandleInv
  <2>3. ~channels[c].open /\ channels[c].buf = <<>>
    BY <2>1, <2>2 DEF KeptInv, ChannelInv, OpenInv, ClosedInv
  <2>4. HandleInv'
    BY <1>1, <2>2 DEF HandleInv
  <2>5. ListingInv'
    <3>1. r.op = "dir" => c = 0
      BY <2>1 DEF LegalName
    <3>2. OpOf(cmdBuffer)' = r.op
      BY <1>1, <1>4 DEF OpOf
    <3>3. QED
      BY <1>1, <1>5, <2>3, <3>1, <3>2 DEF ListingInv
  <2>6. said'[c] = <<>> /\ \A d \in DataChannels \ {c} : said'[d] = said[d]
    BY <2>1
  <2>7. ChannelInv'
    <3> SUFFICES ASSUME NEW d \in DataChannels
                 PROVE  OpenInv(d)' /\ ClosedInv(d)' /\ (Pending(d)' => d \in opened')
      BY DEF ChannelInv
    <3>1. OpenInv(d) /\ ClosedInv(d)
      BY DEF KeptInv, ChannelInv
    <3>2. CASE d = c
      BY <1>1, <2>1, <2>3, <2>6, <3>2 DEF OpenInv, ClosedInv
    <3>3. CASE d # c
      <4>1. ~Pending(d)' /\ said'[d] = said[d] /\ (d \in opened' <=> d \in opened)
        BY <1>5, <2>1, <2>6, <3>3
      <4>2. OpenInv(d)'
        BY <1>1, <3>1, <4>1 DEF OpenInv
      <4>3. ClosedInv(d)'
        BY <1>1, <3>1, <4>1 DEF ClosedInv
      <4>4. QED
        BY <4>1, <4>2, <4>3
    <3>4. QED
      BY <3>2, <3>3
  <2>8. ShareInv'
    <3>1. \A d : Asked(d)' = IF d = c THEN r ELSE channels[d].command
      BY <1>1, <1>5 DEF Asked
    <3>2. \A d \in opened : d # c /\ Asked(d) = channels[d].command
      BY <1>5, <2>2 DEF Asked
    <3>3. \A d \in opened :
            OpOf(r) = "file" /\ OpOf(channels[d].command) = "file"
              /\ r.name = channels[d].command.name
            => ~Writes(c, r) /\ ~Writes(d, channels[d].command)
      BY <1>3, <1>4, <2>1, <2>2 DEF LegalName, InUse
    <3> SUFFICES ASSUME NEW d \in opened', NEW e \in opened', d # e,
                        OpOf(Asked(d)') = "file", OpOf(Asked(e)') = "file",
                        Asked(d)'.name = Asked(e)'.name
                 PROVE  ~Writes(d, Asked(d)')
      BY DEF ShareInv, OpOf, Writes, OpenMode
    <3>4. CASE d = c
      <4>1. e \in opened
        BY <2>1, <3>4
      <4>2. QED
        BY <3>1, <3>2, <3>3, <3>4, <4>1
    <3>5. CASE e = c
      <4>1. d \in opened
        BY <2>1, <3>5
      <4>2. QED
        BY <3>1, <3>2, <3>3, <3>5, <4>1
    <3>6. CASE d # c /\ e # c
      <4>1. d \in opened /\ e \in opened
        BY <2>1, <3>6
      <4>2. QED
        BY <3>1, <3>2, <3>6, <4>1 DEF KeptInv, ShareInv
    <3>7. QED
      BY <3>4, <3>5, <3>6
  <2>9. CommandInv'
    BY <1>5, <1>9 DEF CommandInv
  <2>10. NothingLost => NothingLost'
    <3>1. \A d \in DataChannels : channels[d].open => said'[d] = said[d]
      BY <2>3, <2>6
    <3>2. QED
      BY <1>1, <3>1 DEF NothingLost, Exists
  <2>11. QED
    BY <1>1, <1>6, <1>7, <2>4, <2>5, <2>7, <2>8, <2>9, <2>10 DEF KeptInv
<1>10. QED
  BY <1>8, <1>9

\* A command leaves the files alone that it does not name, and selects an image
\* only if it is one of the two that do.
LEMMA CommandTouches ==
  ASSUME NEW r \in RequestRecords, NEW f \in FileSystems, NEW blank \in Contents
  PROVE  /\ \A n \in Names \ NamesOf(r) : ProcessCommand(r, f, blank).fs[n] = f[n]
         /\ ProcessCommand(r, f, blank).selected # NoName => r.op \in {"cd", "new"}
<1> USE NamesAssumption DEF Result, FileSystems, RequestRecords, NamesOf
<1>1. CASE r.op = "scratch"
  BY <1>1 DEF ProcessCommand, Scratch
<1>2. CASE r.op = "rename"
  BY <1>2 DEF ProcessCommand, Rename
<1>3. CASE r.op = "copy"
  <2> DEFINE first == IF Exists(f, r.name2)
                      THEN CopyFile(f, r.name, r.name2, FALSE) ELSE f
             second == IF Exists(first, r.name3)
                       THEN CopyFile(first, r.name, r.name3, TRUE) ELSE first
  <2>1. DOMAIN first = Names /\ \A n \in Names \ {r.name} : first[n] = f[n]
    BY DEF CopyFile
  <2>2. \A n \in Names \ {r.name} : second[n] = f[n]
    <3> HIDE DEF first
    <3>1. QED
      BY <2>1 DEF CopyFile
  <2> HIDE DEF first, second
  <2>3. \/ Copy(r, f) \in {Result(f, 34, NoName), Result(f, 63, NoName), Result(f, 0, NoName)}
        \/ Copy(r, f) \in {Result(second, 62, NoName), Result(second, 0, NoName)}
    BY DEF Copy, first, second
  <2>4. QED
    BY <1>3, <2>2, <2>3 DEF ProcessCommand
<1>4. CASE r.op = "cd"
  BY <1>4 DEF ProcessCommand, CD
<1>5. CASE r.op = "new"
  BY <1>5 DEF ProcessCommand, New
<1>6. CASE r.op \notin {"scratch", "rename", "copy", "cd", "new"}
  BY <1>6 DEF ProcessCommand
<1>7. QED
  BY <1>1, <1>2, <1>3, <1>4, <1>5, <1>6

LEMMA CompleteKeeps ==
  ASSUME TypeInv, KeptInv, Complete
  PROVE  KeptInv' /\ (NothingLost => NothingLost')
<1> DEFINE c == secondaryAddress
<1>1. /\ atnSequence = "COMPLETE" /\ busy = "none" /\ selectedImage = NoName /\ mode = "browse"
      /\ atnSequence' = "IDLE" /\ ~receivedCommand' /\ UNCHANGED hostVars /\ busy' = busy
      /\ deviceRole' = deviceRole /\ commandCode' = commandCode /\ secondaryAddress' = c
      /\ cmdBuffer' = cmdBuffer /\ mode' = mode
  BY DEF Complete, Updating
<1>2. opened' = opened /\ said' = said /\ reset' = reset
  BY <1>1 DEF hostVars
<1>3. RoleInv' /\ HandleInv' /\ TransferInv'
  BY <1>1 DEF RoleInv, HandleInv, TransferInv
<1>4. \A d : ~Pending(d)'
  BY <1>1 DEF Pending
<1>5. CommandInv'
  BY <1>4 DEF CommandInv
<1>6. /\ DataChannels \subseteq Channels /\ CMD \in Channels /\ CMD \notin DataChannels
      /\ 0 \in DataChannels /\ opened \subseteq DataChannels
      /\ channels \in [Channels -> ChannelRecords] /\ fs \in FileSystems
  BY IecAssumption DEF Channels, CMD, TypeInv, TypeOK
<1>7. CASE receivedCommand /\ c # CMD
  <2> DEFINE new == [channels[c] EXCEPT !.command = cmdBuffer]
  <2>1. /\ c \in DataChannels /\ channels' = [channels EXCEPT ![c] = new]
        /\ fs' = fs /\ selectedImage' = selectedImage
    <3>1. c \in Channels
      BY <1>7 DEF TypeInv, Sequencing
    <3>2. channels' = [channels EXCEPT ![c] = new]
      BY <1>7, Zenon DEF Complete
    <3>3. QED
      BY <1>7, <3>1, <3>2 DEF Complete, Channels
  <2>2. DOMAIN channels[c] = ChannelFields
    BY <1>6, <2>1, ChannelDomain
  <2>3. new.command = cmdBuffer /\ \A f \in ChannelFields \ {"command"} : new[f] = channels[c][f]
    BY <2>2 DEF ChannelFields
  <2> HIDE DEF new
  <2>4. channels'[c] = new /\ \A d \in Channels \ {c} : channels'[d] = channels[d]
    BY <1>6, <2>1
  <2>5. /\ new.open = channels[c].open /\ new.buf = channels[c].buf
        /\ new.writing = channels[c].writing /\ new.file = channels[c].file
        /\ new.fil = channels[c].fil
    BY <2>3 DEF ChannelFields
  <2>6. /\ Pending(c) /\ ~channels[c].open /\ channels[c].buf = <<>>
        /\ c \in opened => said[c] = <<>>
    BY <1>7, <2>1 DEF Pending, KeptInv, ChannelInv, OpenInv, ClosedInv
  <2>7. ListingInv'
    <3>1. CASE c = 0
      BY <1>1, <2>3, <2>4, <2>5, <2>6, <3>1 DEF ListingInv, OpOf
    <3>2. CASE c # 0
      <4>1. ~Pending(0)
        BY <3>2 DEF Pending
      <4>2. channels'[0] = channels[0]
        BY <1>6, <2>4, <3>2
      <4>3. QED
        BY <1>1, <4>1, <4>2 DEF KeptInv, ListingInv, OpOf
    <3>3. QED
      BY <3>1, <3>2
  <2>8. ChannelInv'
    <3> SUFFICES ASSUME NEW d \in DataChannels PROVE OpenInv(d)' /\ ClosedInv(d)'
      BY <1>4 DEF ChannelInv
    <3>1. CASE d = c
      BY <1>2, <2>4, <2>5, <2>6, <3>1 DEF OpenInv, ClosedInv
    <3>2. CASE d # c
      <4>1. OpenInv(d) /\ ClosedInv(d) /\ channels'[d] = channels[d] /\ ~Pending(d)
        BY <1>6, <2>4, <3>2 DEF KeptInv, ChannelInv, Pending
      <4>2. OpenInv(d)'
        BY <1>2, <1>4, <4>1 DEF OpenInv
      <4>3. ClosedInv(d)'
        BY <1>2, <1>4, <4>1 DEF ClosedInv
      <4>4. QED
        BY <4>2, <4>3
    <3>3. QED
      BY <3>1, <3>2
  <2>9. ShareInv'
    <3>1. \A d \in DataChannels : Asked(d)' = Asked(d)
      <4> SUFFICES ASSUME NEW d \in DataChannels PROVE Asked(d)' = Asked(d)
        OBVIOUS
      <4>1. Asked(d)' = channels'[d].command
        BY <1>4 DEF Asked
      <4>2. CASE d = c
        BY <2>3, <2>4, <2>6, <4>1, <4>2 DEF Asked
      <4>3. CASE d # c
        BY <1>6, <2>4, <4>1, <4>3 DEF Asked, Pending
      <4>4. QED
        BY <4>2, <4>3
    <3>2. QED
      BY <1>2, <1>6, <3>1 DEF KeptInv, ShareInv
  <2>10. NothingLost => NothingLost'
    BY <1>2, <1>6, <2>1, <2>4, <2>5, <2>6 DEF NothingLost, Exists
  <2>11. ImageInv' /\ ~channels'[CMD].open
    BY <1>1, <1>6, <1>7, <2>1, <2>4 DEF KeptInv, ImageInv
  <2>12. QED
    BY <1>2, <1>3, <1>5, <2>7, <2>8, <2>9, <2>10, <2>11 DEF KeptInv
<1>8. CASE ~(receivedCommand /\ c # CMD)
  <2>1. channels' = channels
    BY <1>8 DEF Complete
  <2>2. ListingInv'
    <3>1. ~Pending(0)
      BY <1>6, <1>8 DEF Pending
    <3>2. QED
      BY <1>1, <2>1, <3>1 DEF KeptInv, ListingInv, OpOf
  <2>3. \A d \in DataChannels : ~Pending(d)
    BY <1>6, <1>8 DEF Pending
  <2>4. ChannelInv'
    <3> SUFFICES ASSUME NEW d \in DataChannels PROVE OpenInv(d)' /\ ClosedInv(d)'
      BY <1>4 DEF ChannelInv
    <3>1. OpenInv(d) /\ ClosedInv(d) /\ ~Pending(d)
      BY <2>3 DEF KeptInv, ChannelInv
    <3>2. OpenInv(d)'
      BY <1>2, <1>4, <2>1, <3>1 DEF OpenInv
    <3>3. ClosedInv(d)'
      BY <1>2, <1>4, <2>1, <3>1 DEF ClosedInv
    <3>4. QED
      BY <3>2, <3>3
  <2>5. ShareInv'
    <3>1. \A d \in DataChannels : Asked(d)' = Asked(d)
      BY <1>4, <2>1, <2>3 DEF Asked
    <3>2. QED
      BY <1>2, <1>6, <3>1 DEF KeptInv, ShareInv
  <2>6. CASE receivedCommand
    <3> DEFINE o == ProcessCommand(cmdBuffer, fs, Blank)
    <3>1. c = CMD /\ Pending(CMD)
      BY <1>8, <2>6 DEF Pending
    <3>2. fs' = o.fs /\ selectedImage' = IF o.selected # NoName THEN o.selected ELSE selectedImage
      BY <2>6, <3>1 DEF Complete
    <3>3. cmdBuffer \in RequestRecords /\ Blank \in Contents
      BY <2>6, IecAssumption DEF TypeInv, Sequencing
    <3>4. /\ \A n \in Names \ NamesOf(cmdBuffer) : o.fs[n] = fs[n]
          /\ o.selected # NoName => cmdBuffer.op \in {"cd", "new"}
      BY <1>6, <3>3, CommandTouches
    <3> HIDE DEF o
    <3>5. ImageInv'
      BY <1>1, <1>2, <3>1, <3>2, <3>4 DEF KeptInv, CommandInv, ImageInv
    <3>6. ASSUME NothingLost PROVE NothingLost'
      <4> SUFFICES ASSUME NEW d \in DataChannels, channels[d].open, channels[d].writing
                   PROVE  /\ Exists(fs', channels[d].file)
                          /\ channels[d].fil \o channels[d].buf = fs'[channels[d].file] \o said[d]
        BY <1>2, <2>1 DEF NothingLost, Exists
      <4>1. /\ Exists(fs, channels[d].file)
            /\ channels[d].fil \o channels[d].buf = fs[channels[d].file] \o said[d]
        BY <3>6 DEF NothingLost
      <4>2. InUse(d, channels[d].file)
        BY DEF KeptInv, ChannelInv, OpenInv, InUse
      <4>3. channels[d].file \notin NamesOf(cmdBuffer)
        BY <3>1, <4>2 DEF KeptInv, CommandInv
      <4>4. fs'[channels[d].file] = fs[channels[d].file]
        BY <3>2, <3>4, <4>1, <4>3 DEF Exists
      <4>5. QED
        BY <4>1, <4>4 DEF Exists
    <3>7. QED
      BY <1>2, <1>3, <1>5, <2>1, <2>2, <2>4, <2>5, <3>5, <3>6 DEF KeptInv
  <2>7. CASE ~receivedCommand
    <3>1. fs' = fs /\ selectedImage' = selectedImage
      BY <2>7 DEF Complete
    <3>2. ImageInv' /\ (NothingLost => NothingLost')
      BY <1>1, <1>2, <2>1, <3>1 DEF KeptInv, ImageInv, NothingLost, Exists
    <3>3. QED
      BY <1>2, <1>3, <1>5, <2>1, <2>2, <2>4, <2>5, <3>2 DEF KeptInv
  <2>8. QED
    BY <2>6, <2>7
<1>9. QED
  BY <1>7, <1>8

-----------------------------------------------------------------------------
(* Bytes written *)

LEMMA AppendBehind ==
  \A s \in Seq(Bytes), t \in Seq(Bytes), e \in Bytes :
         /\ s \o Append(t, e) = Append(s \o t, e)
         /\ (s \o Append(t, e)) \o <<>> = Append(s \o t, e)
<1> SUFFICES ASSUME NEW s \in Seq(Bytes), NEW t \in Seq(Bytes), NEW e \in Bytes
             PROVE  /\ s \o Append(t, e) = Append(s \o t, e)
                    /\ (s \o Append(t, e)) \o <<>> = Append(s \o t, e)
  OBVIOUS
<1>1. <<e>> \in Seq(Bytes) /\ s \o t \in Seq(Bytes)
  OBVIOUS
<1>2. Append(t, e) = t \o <<e>> /\ Append(s \o t, e) = (s \o t) \o <<e>>
  BY <1>1, AppendIsConcat
<1>3. (s \o t) \o <<e>> = s \o (t \o <<e>>)
  BY <1>1, ConcatAssociative
<1>4. Append(s \o t, e) \in Seq(Bytes)
  BY <1>1
<1>5. Append(s \o t, e) \o <<>> = Append(s \o t, e)
  BY <1>4, ConcatEmptySeq
<1>6. QED
  BY <1>2, <1>3, <1>5

\* A byte goes to the end of what the file will hold, whether the buffer is full
\* or not.
LEMMA BufferedHolds ==
  ASSUME NEW ch \in ChannelRecords, NEW b \in Bytes
  PROVE  /\ Buffered(ch, b).fil \o Buffered(ch, b).buf = Append(ch.fil \o ch.buf, b)
         /\ Buffered(ch, b).open = ch.open /\ Buffered(ch, b).writing = ch.writing
         /\ Buffered(ch, b).file = ch.file /\ Buffered(ch, b).command = ch.command
<1>1. DOMAIN ch = ChannelFields /\ ch.fil \in Seq(Bytes) /\ ch.buf \in Seq(Bytes)
  BY ChannelDomain DEF ChannelRecords, Contents
<1> DEFINE full == [ch EXCEPT !.fil = ch.fil \o Append(ch.buf, b), !.buf = <<>>]
           more == [ch EXCEPT !.buf = Append(ch.buf, b)]
<1>2. Buffered(ch, b) = full \/ Buffered(ch, b) = more
  BY DEF Buffered
<1>3. (ch.fil \o Append(ch.buf, b)) \o <<>> = Append(ch.fil \o ch.buf, b)
  BY <1>1, AppendBehind
<1>4. ch.fil \o Append(ch.buf, b) = Append(ch.fil \o ch.buf, b)
  BY <1>1, AppendBehind
<1>5. /\ full.fil \o full.buf = Append(ch.fil \o ch.buf, b)
      /\ full.open = ch.open /\ full.writing = ch.writing /\ full.file = ch.file
      /\ full.command = ch.command
  BY <1>1, <1>3 DEF ChannelFields
<1>6. /\ more.fil \o more.buf = Append(ch.fil \o ch.buf, b)
      /\ more.open = ch.open /\ more.writing = ch.writing /\ more.file = ch.file
      /\ more.command = ch.command
  BY <1>1, <1>4 DEF ChannelFields
<1> HIDE DEF full, more
<1>7. QED
  BY <1>2, <1>5, <1>6

LEMMA SaveKeeps ==
  ASSUME TypeInv, KeptInv, NEW b \in Bytes, SaveByte(b)
  PROVE  KeptInv' /\ (NothingLost => NothingLost')
<1>0. PICK c \in DataChannels : c = secondaryAddress
  BY DEF SaveByte, TypeInv, Sequencing
<1> DEFINE ch == channels[c]
           new == Buffered(ch, b)
<1>1. /\ busy = "save" /\ c \in opened /\ channels' = [channels EXCEPT ![c] = Buffered(channels[c], b)]
      /\ said' = [said EXCEPT ![c] = Append(said[c], b)] /\ UNCHANGED atnVars /\ fs' = fs
      /\ reset' = reset /\ frame' = frame /\ opened' = opened /\ receivedCommand' = receivedCommand
      /\ cmdBuffer' = cmdBuffer /\ UNCHANGED fsVars
  BY <1>0 DEF SaveByte, fsVars
<1>2. /\ atnSequence' = atnSequence /\ busy' = busy /\ deviceRole' = deviceRole
      /\ commandCode' = commandCode /\ secondaryAddress' = secondaryAddress
      /\ selectedImage' = selectedImage /\ mode' = mode
  BY <1>1 DEF atnVars, fsVars
<1>3. /\ DataChannels \subseteq Channels /\ CMD \in Channels /\ CMD \notin DataChannels
      /\ channels \in [Channels -> ChannelRecords]
      /\ said \in [DataChannels -> Seq(Bytes)] /\ fs \in FileSystems
  BY <1>1, IecAssumption DEF Channels, CMD, TypeInv, TypeOK
<1>4. ~receivedCommand /\ ch.open /\ ch.writing /\ ch \in ChannelRecords
  BY <1>0, <1>1, <1>3 DEF TypeInv, Sequencing, KeptInv, TransferInv
<1>5. /\ new.fil \o new.buf = Append(ch.fil \o ch.buf, b)
      /\ new.open = ch.open /\ new.writing = ch.writing /\ new.file = ch.file
      /\ new.command = ch.command
  BY <1>4, BufferedHolds
<1>6. channels'[c] = new /\ \A d \in Channels \ {c} : channels'[d] = channels[d]
  BY <1>1, <1>3
<1>7. said'[c] = Append(said[c], b) /\ \A d \in DataChannels \ {c} : said'[d] = said[d]
  BY <1>1, <1>3
<1> HIDE DEF new
<1>8. OpenInv(c)' /\ ClosedInv(c)'
  <2>1. OpenInv(c)
    BY <1>3 DEF KeptInv, ChannelInv
  <2>2. ~Pending(c)'
    BY <1>1, <1>4 DEF Pending
  <2>3. QED
    BY <1>1, <1>4, <1>5, <1>6, <2>1, <2>2 DEF OpenInv, ClosedInv
<1>9. OpOf(cmdBuffer) = "dir" => c # 0
  BY <1>4 DEF KeptInv, ListingInv
<1>10. ListingInv' /\ ChannelInv' /\ ShareInv' /\ CommandInv'
  <2>1. channels'[c].command = channels[c].command
    BY <1>5, <1>6
  <2>2. \A d \in DataChannels \ {c} : channels'[d] = channels[d] /\ said'[d] = said[d]
    BY <1>3, <1>6, <1>7
  <2>3. QED
    BY <1>1, <1>3, <1>4, <1>8, <1>9, <2>1, <2>2, OneChannel
<1>11. RoleInv' /\ HandleInv' /\ ImageInv' /\ ~channels'[CMD].open
  BY <1>1, <1>2, <1>3, <1>6 DEF KeptInv, RoleInv, HandleInv, ImageInv, OpOf
<1>12. TransferInv'
  BY <1>0, <1>1, <1>2, <1>4, <1>5, <1>6 DEF TransferInv
<1>13. ASSUME NothingLost PROVE NothingLost'
  <2> SUFFICES ASSUME NEW d \in DataChannels, channels'[d].open, channels'[d].writing
               PROVE  /\ Exists(fs, channels'[d].file)
                      /\ channels'[d].fil \o channels'[d].buf = fs[channels'[d].file] \o said'[d]
    BY <1>1 DEF NothingLost, Exists
  <2>1. CASE d = c
    <3>1. Exists(fs, ch.file) /\ ch.fil \o ch.buf = fs[ch.file] \o said[c]
      BY <1>3, <1>4, <1>13 DEF NothingLost
    <3>2. fs[ch.file] \in Seq(Bytes) /\ said[c] \in Seq(Bytes)
      BY <1>3, <3>1 DEF Exists, FileSystems, Contents
    <3>3. Append(fs[ch.file] \o said[c], b) = fs[ch.file] \o Append(said[c], b)
      BY <3>2, AppendBehind
    <3>4. QED
      BY <1>5, <1>6, <1>7, <2>1, <3>1, <3>3
  <2>2. CASE d # c
    BY <1>3, <1>6, <1>7, <1>13, <2>2 DEF NothingLost
  <2>3. QED
    BY <2>1, <2>2
<1>14. QED
  BY <1>1, <1>10, <1>11, <1>12, <1>13 DEF KeptInv

-----------------------------------------------------------------------------
(* Files opened *)

\* What opening a channel's file changes, whichever way it ends.
LEMMA OpenedIs ==
  ASSUME TypeOK, NEW c \in DataChannels, NEW ok \in BOOLEAN,
         NEW ch, ch = channels[c], NEW o, o = Opened(c, ok)
  PROVE  /\ o.ch.command = ch.command
         /\ ch.open => o.ch = ch /\ o.fs = fs
         /\ ~o.ch.open => o.fs = fs /\ o.ch.buf = ch.buf
         /\ ~ch.open /\ o.ch.open =>
              /\ OpOf(ch.command) = "file" /\ o.ch.file = ch.command.name
              /\ ch.command.name \in Names /\ o.ch.writing = Writes(c, ch.command)
              /\ o.ch.buf \in {ch.buf, <<>>}
              /\ o.ch.writing => /\ Exists(o.fs, ch.command.name)
                                 /\ o.ch.fil = o.fs[ch.command.name]
                                 /\ \A n \in Names \ {ch.command.name} : o.fs[n] = fs[n]
              /\ ~o.ch.writing => o.fs = fs
              /\ ~o.ch.writing => Exists(fs, ch.command.name)
              /\ o.ch.pos = 0 /\ o.ch.fil \in {<<>>, fs[ch.command.name]}
         /\ o.ch.sent = ch.sent
<1>1. ch \in ChannelRecords /\ DOMAIN ch = ChannelFields
  BY ChannelDomain DEF TypeOK, Channels
<1>2. fs \in FileSystems /\ ch.open \in BOOLEAN
  BY <1>1 DEF TypeOK, ChannelRecords
<1>3. CASE ch.open \/ ~IsFile(ch.command)
  <2>1. o = [ch |-> ch, fs |-> fs, error |-> error]
    BY <1>3 DEF Opened
  <2>2. o.ch.open => ch.open
    BY <2>1
  <2>3. QED
    BY <2>1, <2>2
<1>4. CASE ~ch.open /\ IsFile(ch.command)
  <2> DEFINE r  == ch.command
             w  == Writes(c, r)
             base == IF w THEN fs[r.name] ELSE <<>>
             created == [[ch EXCEPT !.writing = w, !.file = r.name]
                           EXCEPT !.open = TRUE, !.buf = <<>>, !.fil = <<>>, !.pos = 0]
             refused == [ch EXCEPT !.writing = w]
             missing == [ch EXCEPT !.writing = w, !.file = NoName]
             failed  == [ch EXCEPT !.writing = w, !.file = r.name]
             found   == [[ch EXCEPT !.writing = w, !.file = r.name]
                           EXCEPT !.open = TRUE, !.pos = 0, !.fil = base]
             truncated == [fs EXCEPT ![r.name] = <<>>]
  <2>1. r \in Requests /\ r.name \in Names \union {NoName} /\ OpOf(r) = "file"
    <3>1. r \in Requests
      BY <1>1, <1>4 DEF IsFile, OpOf, ChannelRecords
    <3>2. r \in RequestRecords
      BY <3>1, IecAssumption
    <3>3. QED
      BY <1>4, <3>1, <3>2 DEF IsFile, RequestRecords
  <2>2. /\ created.open /\ created.buf = <<>> /\ created.fil = <<>> /\ created.file = r.name
        /\ created.writing = w /\ created.command = r /\ created.pos = 0 /\ created.sent = ch.sent
    BY <1>1 DEF ChannelFields
  <2>3. /\ found.open /\ found.buf = ch.buf /\ found.fil = base /\ found.file = r.name
        /\ found.writing = w /\ found.command = r /\ found.pos = 0 /\ found.sent = ch.sent
    BY <1>1 DEF ChannelFields
  <2>4. \A x \in {refused, missing, failed} : ~x.open /\ x.buf = ch.buf /\ x.command = r /\ x.sent = ch.sent
    BY <1>1, <1>4 DEF ChannelFields
  <2>5. \/ /\ o = [ch |-> created, fs |-> truncated, error |-> error]
           /\ OpenMode(c, r) = "W" /\ r.name # NoName
        \/ o = [ch |-> refused, fs |-> fs, error |-> error]
        \/ o = [ch |-> missing, fs |-> fs, error |-> 62]
        \/ o = [ch |-> failed, fs |-> fs, error |-> error]
        \/ Exists(fs, r.name) /\ o = [ch |-> found, fs |-> fs, error |-> error]
    BY <1>4, Zenon DEF Opened
  <2>6. <<>> \in Seq(Bytes) /\ <<>> # NoFile
    <3>1. <<>> \in Seq(Bytes)
      OBVIOUS
    <3>2. QED
      BY <3>1, NamesAssumption
  <2>7. r.name \in Names => /\ truncated[r.name] = <<>>
                            /\ \A n \in Names \ {r.name} : truncated[n] = fs[n]
    BY <1>2 DEF FileSystems
  <2>8. OpenMode(c, r) = "W" => w
    BY DEF Writes
  <2> HIDE DEF created, refused, missing, failed, found, truncated, w
  <2>9. CASE /\ o = [ch |-> created, fs |-> truncated, error |-> error]
             /\ OpenMode(c, r) = "W" /\ r.name # NoName
    BY <1>4, <2>1, <2>2, <2>6, <2>7, <2>8, <2>9 DEF Exists, w
  <2>10. CASE \E x \in {refused, missing, failed} : o.ch = x /\ o.fs = fs
    BY <1>4, <2>4, <2>10
  <2>11. CASE Exists(fs, r.name) /\ o = [ch |-> found, fs |-> fs, error |-> error]
    BY <1>4, <2>1, <2>3, <2>11 DEF Exists, w
  <2>12. QED
    BY <2>5, <2>9, <2>10, <2>11
<1>5. QED
  BY <1>2, <1>3, <1>4

\* What NothingLost says, of one channel after another.
LEMMA AllKept ==
  ASSUME said' = said,
         \A d \in DataChannels :
           channels'[d].open /\ channels'[d].writing =>
             /\ Exists(fs', channels'[d].file)
             /\ channels'[d].fil \o channels'[d].buf = fs'[channels'[d].file] \o said[d]
  PROVE  NothingLost'
BY DEF NothingLost, Exists

\* Opening the file of an opened channel, and reading from it, keeps what is
\* remembered of all of them.
LEMMA OpenKeeps ==
  ASSUME TypeInv, KeptInv, NEW c \in DataChannels, c \in opened, NEW ok \in BOOLEAN,
         ~receivedCommand, ~receivedCommand',
         opened' = opened, said' = said, cmdBuffer' = cmdBuffer,
         NEW o, o = Opened(c, ok), fs' = o.fs,
         NEW new, channels' = [channels EXCEPT ![c] = new],
         new.command = o.ch.command, new.open = o.ch.open, new.writing = o.ch.writing,
         new.file = o.ch.file, new.fil = o.ch.fil,
         new.buf = o.ch.buf \/ (o.ch.open /\ ~o.ch.writing)
  PROVE  /\ ListingInv' /\ ChannelInv' /\ ShareInv' /\ CommandInv'
         /\ NothingLost => NothingLost'
<1>1. PICK ch : ch = channels[c]
  OBVIOUS
<1>2. /\ DataChannels \subseteq Channels /\ channels \in [Channels -> ChannelRecords]
      /\ ch \in ChannelRecords /\ ch.open \in BOOLEAN /\ fs \in FileSystems
  BY <1>1 DEF Channels, TypeInv, TypeOK, ChannelRecords
<1>3. channels'[c] = new /\ \A d \in DataChannels \ {c} : channels'[d] = channels[d]
  BY <1>2
<1>4. /\ o.ch.command = ch.command
      /\ ch.open => o.ch = ch /\ o.fs = fs
      /\ ~o.ch.open => o.fs = fs /\ o.ch.buf = ch.buf
      /\ ~ch.open /\ o.ch.open =>
              /\ OpOf(ch.command) = "file" /\ o.ch.file = ch.command.name
              /\ ch.command.name \in Names /\ o.ch.writing = Writes(c, ch.command)
              /\ o.ch.buf \in {ch.buf, <<>>}
              /\ o.ch.writing => /\ Exists(o.fs, ch.command.name)
                                 /\ o.ch.fil = o.fs[ch.command.name]
                                 /\ \A n \in Names \ {ch.command.name} : o.fs[n] = fs[n]
              /\ ~o.ch.writing => o.fs = fs
  BY <1>1, OpenedIs DEF TypeInv
<1>5. OpenInv(c) /\ ClosedInv(c) /\ \A d : ~Pending(d) /\ ~Pending(d)'
  BY DEF KeptInv, ChannelInv, Pending
<1>6. OpenInv(c)'
  <2> SUFFICES ASSUME new.open
               PROVE  /\ OpOf(ch.command) = "file" /\ new.file = ch.command.name
                      /\ new.writing = Writes(c, ch.command)
    BY <1>3, <1>4, <1>5 DEF OpenInv
  <2>1. CASE ch.open
    BY <1>1, <1>4, <1>5, <2>1 DEF OpenInv
  <2>2. CASE ~ch.open
    BY <1>4, <2>2
  <2>3. QED
    BY <2>1, <2>2
<1>7. ClosedInv(c)'
  <2> SUFFICES ASSUME ~new.open
               PROVE  said[c] = <<>> /\ (new.buf # <<>> => OpOf(ch.command) # "file")
    BY <1>3, <1>4, <1>5 DEF ClosedInv
  <2>1. ~ch.open /\ new.buf = ch.buf
    BY <1>4
  <2>2. QED
    BY <1>1, <1>5, <2>1 DEF ClosedInv
<1>8. OpOf(cmdBuffer) = "dir" /\ c = 0 => ~channels'[c].open
  <2> SUFFICES ASSUME OpOf(cmdBuffer) = "dir", c = 0 PROVE ~new.open
    BY <1>3
  <2>1. ~ch.open /\ OpOf(ch.command) = "dir"
    BY <1>1, <1>5 DEF KeptInv, ListingInv
  <2>2. QED
    BY <1>4, <2>1
<1>9. ListingInv' /\ ChannelInv' /\ ShareInv' /\ CommandInv'
  <2>1. channels'[c].command = channels[c].command
    <3>1. new.command = ch.command
      BY <1>4
    <3>2. QED
      BY <1>1, <1>3, <3>1, Zenon
  <2>2. QED
    BY <1>3, <1>6, <1>7, <1>8, <2>1, OneChannel
<1>10. ASSUME NothingLost PROVE NothingLost'
  <2> SUFFICES ASSUME NEW d \in DataChannels, channels'[d].open, channels'[d].writing
               PROVE  /\ Exists(fs', channels'[d].file)
                      /\ channels'[d].fil \o channels'[d].buf = fs'[channels'[d].file] \o said[d]
    BY AllKept, Zenon
  <2>1. CASE d # c
    <3>1. /\ channels'[d] = channels[d] /\ Exists(fs, channels[d].file)
          /\ channels[d].fil \o channels[d].buf = fs[channels[d].file] \o said[d]
      BY <1>3, <1>10, <2>1 DEF NothingLost
    <3>2. fs'[channels[d].file] = fs[channels[d].file]
      <4>1. CASE ~ch.open /\ o.ch.open /\ o.ch.writing
        <5>1. OpenInv(d) /\ Asked(d) = channels[d].command /\ Asked(c) = ch.command
          BY <1>1, <1>5 DEF KeptInv, ChannelInv, Asked
        <5>2. /\ d \in opened /\ OpOf(channels[d].command) = "file"
              /\ channels[d].file = channels[d].command.name
          BY <3>1, <5>1 DEF OpenInv
        <5>3. OpOf(ch.command) = "file" /\ Writes(c, ch.command)
          BY <1>4, <4>1
        <5>4. channels[d].file # ch.command.name
          BY <2>1, <5>1, <5>2, <5>3 DEF KeptInv, ShareInv
        <5>5. QED
          BY <1>4, <3>1, <4>1, <5>4 DEF Exists
      <4>2. CASE ~(~ch.open /\ o.ch.open /\ o.ch.writing)
        BY <1>2, <1>4, <4>2
      <4>3. QED
        BY <4>1, <4>2
    <3>3. QED
      BY <3>1, <3>2 DEF Exists
  <2>2. CASE d = c /\ ch.open
    <3>1. o.ch = ch /\ o.fs = fs /\ new.buf = ch.buf
      BY <1>3, <1>4, <2>2
    <3>2. ch.writing
      BY <1>3, <2>2, <3>1
    <3>3. /\ Exists(fs, ch.file)
          /\ ch.fil \o ch.buf = fs[ch.file] \o said[c]
      BY <1>1, <1>10, <2>2, <3>2 DEF NothingLost
    <3>4. /\ channels'[d] = new /\ new.file = ch.file /\ new.fil = ch.fil /\ fs' = fs
          /\ said[d] = said[c]
      BY <1>3, <2>2, <3>1
    <3>5. QED
      BY <3>1, <3>3, <3>4, Zenon
  <2>3. CASE d = c /\ ~ch.open
    <3>1. /\ o.ch.open /\ o.ch.writing /\ new.buf = o.ch.buf
      BY <1>3, <2>3
    <3>2. /\ OpOf(ch.command) = "file" /\ new.file = ch.command.name
          /\ Exists(o.fs, ch.command.name) /\ new.fil = o.fs[ch.command.name]
          /\ o.ch.buf \in {ch.buf, <<>>}
      BY <1>4, <2>3, <3>1
    <3>3. said[c] = <<>> /\ ch.buf = <<>>
      BY <1>1, <1>5, <2>3, <3>2 DEF ClosedInv
    <3>4. /\ new.fil = fs'[new.file] /\ new.buf = <<>> /\ said[d] = <<>>
          /\ Exists(fs', new.file) /\ channels'[d] = new
      BY <1>3, <2>3, <3>1, <3>2, <3>3
    <3>5. QED
      BY <3>4
  <2>4. QED
    BY <2>1, <2>2, <2>3, Zenon
<1>11. QED
  BY <1>9, <1>10

\* LoadFile changes the buffer of an open channel only, one that reads.
LEMMA LoadIs ==
  ASSUME NEW c \in DataChannels, NEW ch \in ChannelRecords, NEW f \in FileSystems, NEW e,
         Load(c, ch, f, e)
  PROVE  /\ fs' = f
         /\ \E new : /\ channels' = [channels EXCEPT ![c] = new]
                     /\ new.command = ch.command /\ new.open = ch.open
                     /\ new.writing = ch.writing /\ new.file = ch.file /\ new.fil = ch.fil
                     /\ new.buf = ch.buf \/ (ch.open /\ ~ch.writing)
         /\ \/ busy' = "none" /\ atnSequence' = "COMPLETE"
            \/ busy' = "load" /\ atnSequence' = atnSequence /\ ch.open /\ ~ch.writing
<1> DEFINE block == NextBlock(ch, f)
           read == [ch EXCEPT !.buf = block, !.pos = ch.pos + Len(block)]
<1>1. DOMAIN ch = ChannelFields
  BY ChannelDomain
<1>2. /\ read.command = ch.command /\ read.open = ch.open
      /\ read.writing = ch.writing /\ read.file = ch.file /\ read.fil = ch.fil
  BY <1>1 DEF ChannelFields
<1>3. block # <<>> => ch.open /\ ~ch.writing
  BY DEF NextBlock
<1>4. fs' = f
  BY DEF Load
<1>5. CASE ch.file = NoName \/ block = <<>>
  BY <1>4, <1>5 DEF Load
<1>6. CASE ~(ch.file = NoName \/ block = <<>>)
  <2>1. /\ channels' = [channels EXCEPT ![c] = read]
        /\ busy' = "load" /\ atnSequence' = atnSequence
    BY <1>6 DEF Load
  <2> HIDE DEF read, block
  <2>2. QED
    BY <1>2, <1>3, <1>4, <1>6, <2>1
<1>7. QED
  BY <1>5, <1>6

\* Data asked of, or sent to, a channel the host has opened.
LEMMA DataKeeps ==
  ASSUME TypeInv, KeptInv, NEW c \in DataChannels, c = secondaryAddress, c \in opened,
         NEW ok \in BOOLEAN, atnSequence = "HANDLE", busy = "none", mode = "browse",
         selectedImage = NoName, UNCHANGED hostVars,
         deviceRole' = deviceRole, commandCode' = commandCode,
         secondaryAddress' = secondaryAddress, receivedCommand' = receivedCommand,
         cmdBuffer' = cmdBuffer, selectedImage' = selectedImage, mode' = mode,
         NEW o, o = Opened(c, ok), fs' = o.fs,
         NEW new, channels' = [channels EXCEPT ![c] = new],
         new.command = o.ch.command, new.open = o.ch.open, new.writing = o.ch.writing,
         new.file = o.ch.file, new.fil = o.ch.fil,
         new.buf = o.ch.buf \/ (o.ch.open /\ ~o.ch.writing),
         \/ busy' = "none" /\ atnSequence' = "COMPLETE"
         \/ busy' = "save" /\ atnSequence' = atnSequence /\ o.ch.open /\ o.ch.writing
         \/ busy' = "load" /\ atnSequence' = atnSequence /\ o.ch.open /\ ~o.ch.writing
  PROVE  KeptInv' /\ (NothingLost => NothingLost')
<1>1. opened' = opened /\ said' = said /\ reset' = reset /\ frame' = frame
  BY DEF hostVars
<1>2. ~receivedCommand /\ ~receivedCommand'
  BY DEF TypeInv, Sequencing
<1>3. /\ ListingInv' /\ ChannelInv' /\ ShareInv' /\ CommandInv'
      /\ NothingLost => NothingLost'
  BY <1>1, <1>2, OpenKeeps
<1>4. channels'[c] = new /\ ~channels'[CMD].open
  <2>1. CMD \in Channels /\ CMD # c /\ c \in Channels /\ channels \in [Channels -> ChannelRecords]
    BY IecAssumption DEF Channels, CMD, TypeInv, TypeOK
  <2>2. QED
    BY <2>1 DEF KeptInv
<1>5. RoleInv' /\ HandleInv' /\ ImageInv'
  BY <1>1 DEF KeptInv, RoleInv, HandleInv, ImageInv, OpOf
<1>6. TransferInv'
  BY <1>4 DEF TransferInv
<1>7. QED
  BY <1>1, <1>3, <1>4, <1>5, <1>6 DEF KeptInv

LEMMA ListenDataKeeps ==
  ASSUME TypeInv, KeptInv, NEW ok \in OpenOutcomes, ListenData(ok)
  PROVE  KeptInv' /\ (NothingLost => NothingLost')
<1>1. /\ atnSequence = "HANDLE" /\ deviceRole = "LISTEN" /\ busy = "none" /\ mode = "browse"
      /\ selectedImage = NoName /\ secondaryAddress # CMD /\ commandCode.kind # "open"
  BY DEF ListenData, Handling, Updating
<1>2. secondaryAddress \in DataChannels /\ secondaryAddress \in opened
  BY <1>1 DEF KeptInv, HandleInv, TypeInv, TypeOK
<1>3. PICK c \in DataChannels : c = secondaryAddress
  BY <1>2
<1>4. PICK o : o = Opened(c, ok)
  OBVIOUS
<1>5. /\ channels' = [channels EXCEPT ![c] = o.ch] /\ fs' = o.fs
      /\ \/ busy' = "none" /\ atnSequence' = "COMPLETE"
         \/ busy' = "save" /\ atnSequence' = atnSequence /\ o.ch.open /\ o.ch.writing
  BY <1>1, <1>3, <1>4, Zenon DEF ListenData
<1>6. /\ UNCHANGED hostVars
      /\ deviceRole' = deviceRole /\ commandCode' = commandCode
      /\ secondaryAddress' = secondaryAddress /\ receivedCommand' = receivedCommand
      /\ cmdBuffer' = cmdBuffer /\ selectedImage' = selectedImage /\ mode' = mode
  BY DEF ListenData
<1>7. ok \in BOOLEAN
  BY IecAssumption
<1>8. QED
  BY <1>1, <1>2, <1>3, <1>4, <1>5, <1>6, <1>7, DataKeeps

LEMMA TalkFileKeeps ==
  ASSUME TypeInv, KeptInv, NEW ok \in OpenOutcomes, TalkFile(ok)
  PROVE  KeptInv' /\ (NothingLost => NothingLost')
<1>1. /\ atnSequence = "HANDLE" /\ deviceRole = "TALK" /\ busy = "none" /\ mode = "browse"
      /\ selectedImage = NoName /\ secondaryAddress # CMD
  BY DEF TalkFile, Talking, Handling, Updating
<1>2. secondaryAddress \in DataChannels /\ secondaryAddress \in opened
  BY <1>1 DEF KeptInv, HandleInv, TypeInv, TypeOK
<1>3. PICK c \in DataChannels : c = secondaryAddress
  BY <1>2
<1>4. PICK o : o = Opened(c, ok)
  OBVIOUS
<1>5. Load(c, o.ch, o.fs, o.error)
  BY <1>3, <1>4 DEF TalkFile
<1>6. /\ UNCHANGED hostVars
      /\ deviceRole' = deviceRole /\ commandCode' = commandCode
      /\ secondaryAddress' = secondaryAddress /\ receivedCommand' = receivedCommand
      /\ cmdBuffer' = cmdBuffer /\ selectedImage' = selectedImage /\ mode' = mode
  BY DEF TalkFile, Talking
<1>7. ok \in BOOLEAN
  BY IecAssumption
<1>8. o.ch \in ChannelRecords /\ o.fs \in FileSystems
  BY <1>4, <1>7, OpenedType DEF TypeInv
<1>9. /\ fs' = o.fs
      /\ \E new : /\ channels' = [channels EXCEPT ![c] = new]
                  /\ new.command = o.ch.command /\ new.open = o.ch.open
                  /\ new.writing = o.ch.writing /\ new.file = o.ch.file /\ new.fil = o.ch.fil
                  /\ new.buf = o.ch.buf \/ (o.ch.open /\ ~o.ch.writing)
      /\ \/ busy' = "none" /\ atnSequence' = "COMPLETE"
         \/ busy' = "load" /\ atnSequence' = atnSequence /\ o.ch.open /\ ~o.ch.writing
  BY <1>5, <1>8, LoadIs
<1>10. PICK new : /\ channels' = [channels EXCEPT ![c] = new]
                  /\ new.command = o.ch.command /\ new.open = o.ch.open
                  /\ new.writing = o.ch.writing /\ new.file = o.ch.file /\ new.fil = o.ch.fil
                  /\ new.buf = o.ch.buf \/ (o.ch.open /\ ~o.ch.writing)
  BY <1>9
<1>11. /\ fs' = o.fs /\ c \in opened
       /\ \/ busy' = "none" /\ atnSequence' = "COMPLETE"
          \/ busy' = "save" /\ atnSequence' = atnSequence /\ o.ch.open /\ o.ch.writing
          \/ busy' = "load" /\ atnSequence' = atnSequence /\ o.ch.open /\ ~o.ch.writing
  BY <1>2, <1>3, <1>9
<1>12. QED
  BY <1>1, <1>3, <1>4, <1>6, <1>7, <1>10, <1>11, DataKeeps

-----------------------------------------------------------------------------
(* Listings, boot sectors and bytes read *)

\* What goes through the buffer of a channel that has no file open.
LEMMA BlockKeeps ==
  ASSUME TypeInv, KeptInv, NEW c \in DataChannels, ~channels[c].open,
         ~receivedCommand, ~receivedCommand',
         UNCHANGED hostVars, cmdBuffer' = cmdBuffer, fs' = fs,
         NEW new, channels' = [channels EXCEPT ![c] = new],
         new.command = channels[c].command, ~new.open,
         new.buf # <<>> => c \in opened /\ OpOf(channels[c].command) # "file"
  PROVE  /\ ListingInv' /\ ChannelInv' /\ ShareInv' /\ CommandInv'
         /\ ~channels'[CMD].open /\ ~reset'
         /\ NothingLost => NothingLost'
<1>1. opened' = opened /\ said' = said /\ reset' = reset
  BY DEF hostVars
<1>2. /\ DataChannels \subseteq Channels /\ CMD \in Channels /\ CMD # c
      /\ channels \in [Channels -> ChannelRecords]
  BY IecAssumption DEF Channels, CMD, TypeInv, TypeOK
<1>3. channels'[c] = new /\ \A d \in Channels \ {c} : channels'[d] = channels[d]
  BY <1>2
<1>4. OpenInv(c)'
  BY <1>3 DEF OpenInv
<1>5. ClosedInv(c)'
  <2>1. c \in opened => said[c] = <<>>
    BY DEF KeptInv, ChannelInv, ClosedInv
  <2>2. ~Pending(c)'
    BY DEF Pending
  <2>3. QED
    BY <1>1, <1>3, <2>1, <2>2 DEF ClosedInv
<1>6. ListingInv' /\ ChannelInv' /\ ShareInv' /\ CommandInv'
  <2>1. channels'[c].command = channels[c].command /\ ~channels'[c].open
    BY <1>3
  <2>2. \A d \in DataChannels \ {c} : channels'[d] = channels[d] /\ said'[d] = said[d]
    BY <1>1, <1>2, <1>3
  <2>3. QED
    BY <1>1, <1>4, <1>5, <2>1, <2>2, OneChannel
<1>7. NothingLost => NothingLost'
  BY <1>1, <1>2, <1>3 DEF NothingLost, Exists
<1>8. QED
  BY <1>1, <1>2, <1>3, <1>6, <1>7 DEF KeptInv

\* A listing is channel 0's, and it has no file open.
LEMMA ListingIs ==
  ASSUME TypeInv, KeptInv, atnSequence = "HANDLE", deviceRole = "TALK",
         OpOf(cmdBuffer) = "dir", secondaryAddress # CMD, ~receivedCommand
  PROVE  /\ secondaryAddress = 0 /\ 0 \in opened /\ ~channels[0].open
         /\ OpOf(channels[0].command) = "dir"
<1>1. commandCode.kind = "data" /\ secondaryAddress = 0 /\ 0 \in opened
  BY IecAssumption DEF KeptInv, HandleInv, CMD
<1>2. ~channels[0].open /\ OpOf(channels[0].command) = "dir"
  BY DEF KeptInv, ListingInv, Pending
<1>3. QED
  BY <1>1, <1>2

LEMMA TalkDirectoryKeeps ==
  ASSUME TypeInv, KeptInv, TalkDirectory
  PROVE  KeptInv' /\ (NothingLost => NothingLost')
<1>1. /\ atnSequence = "HANDLE" /\ deviceRole = "TALK" /\ busy = "none" /\ mode = "browse"
      /\ selectedImage = NoName /\ secondaryAddress # CMD /\ OpOf(cmdBuffer) = "dir"
  BY DEF TalkDirectory, Talking, Handling, Updating
<1>2. /\ UNCHANGED hostVars /\ deviceRole' = deviceRole /\ commandCode' = commandCode
      /\ secondaryAddress' = secondaryAddress /\ receivedCommand' = receivedCommand
      /\ cmdBuffer' = cmdBuffer /\ selectedImage' = selectedImage /\ mode' = mode
      /\ busy' = "dir" /\ atnSequence' = atnSequence /\ fs' = fs
      /\ channels' = [channels EXCEPT ![0] = [channels[0] EXCEPT !.buf = Block]]
  BY DEF TalkDirectory, Talking
<1>3. ~receivedCommand
  BY <1>1 DEF TypeInv, Sequencing
<1>4. /\ secondaryAddress = 0 /\ 0 \in opened /\ ~channels[0].open
      /\ OpOf(channels[0].command) = "dir" /\ 0 \in DataChannels
  BY <1>1, <1>3, ListingIs, IecAssumption
<1>5. PICK new : new = [channels[0] EXCEPT !.buf = Block]
  OBVIOUS
<1>6. new.open = channels[0].open /\ new.command = channels[0].command
  <2>1. DOMAIN channels[0] = ChannelFields
    BY <1>4, ChannelDomain DEF TypeInv, TypeOK, Channels
  <2>2. QED
    BY <1>5, <2>1 DEF ChannelFields
<1>7. channels' = [channels EXCEPT ![0] = new] /\ ~new.open /\ ~receivedCommand'
  BY <1>2, <1>3, <1>4, <1>5, <1>6
<1>8. /\ ListingInv' /\ ChannelInv' /\ ShareInv' /\ CommandInv'
      /\ ~channels'[CMD].open /\ ~reset'
      /\ NothingLost => NothingLost'
  BY <1>2, <1>3, <1>4, <1>6, <1>7, BlockKeeps
<1>9. opened' = opened /\ frame' = frame
  BY <1>2 DEF hostVars
<1>10. RoleInv' /\ HandleInv' /\ ImageInv' /\ TransferInv'
  BY <1>1, <1>2, <1>9 DEF KeptInv, RoleInv, HandleInv, ImageInv, TransferInv, OpOf
<1>11. QED
  BY <1>8, <1>10 DEF KeptInv

LEMMA TalkBootSectorKeeps ==
  ASSUME TypeInv, KeptInv, TalkBootSector
  PROVE  KeptInv' /\ (NothingLost => NothingLost')
<1>1. /\ atnSequence = "HANDLE" /\ deviceRole = "TALK" /\ busy = "none" /\ mode = "browse"
      /\ selectedImage = NoName /\ secondaryAddress # CMD
      /\ OpOf(channels[secondaryAddress].command) = "direct"
  BY DEF TalkBootSector, Talking, Handling, Updating
<1>2. secondaryAddress \in DataChannels /\ secondaryAddress \in opened
  BY <1>1 DEF KeptInv, HandleInv, TypeInv, TypeOK
<1>3. PICK c \in DataChannels : c = secondaryAddress
  BY <1>2
<1>4. /\ UNCHANGED hostVars /\ deviceRole' = deviceRole /\ commandCode' = commandCode
      /\ secondaryAddress' = secondaryAddress /\ receivedCommand' = receivedCommand
      /\ cmdBuffer' = cmdBuffer /\ selectedImage' = selectedImage /\ mode' = mode
      /\ busy' = "boot" /\ atnSequence' = atnSequence /\ fs' = fs
      /\ channels' = [channels EXCEPT ![c] = [channels[c] EXCEPT !.buf = Block]]
  BY <1>3 DEF TalkBootSector, Talking
<1>5. ~receivedCommand
  BY <1>1 DEF TypeInv, Sequencing
<1>6. OpOf(channels[c].command) = "direct" /\ ~channels[c].open /\ c \in opened
  BY <1>1, <1>2, <1>3 DEF KeptInv, ChannelInv, OpenInv
<1>7. PICK new : new = [channels[c] EXCEPT !.buf = Block]
  OBVIOUS
<1>8. /\ channels' = [channels EXCEPT ![c] = new] /\ ~new.open
      /\ new.command = channels[c].command
  <2>1. DOMAIN channels[c] = ChannelFields
    BY ChannelDomain DEF TypeInv, TypeOK, Channels
  <2>2. QED
    BY <1>4, <1>6, <1>7, <2>1 DEF ChannelFields
<1>9. ~receivedCommand' /\ channels'[c] = new
  BY <1>4, <1>5, <1>8 DEF Channels, TypeInv, TypeOK
<1>10. /\ ListingInv' /\ ChannelInv' /\ ShareInv' /\ CommandInv'
       /\ ~channels'[CMD].open /\ ~reset'
       /\ NothingLost => NothingLost'
  BY <1>4, <1>5, <1>6, <1>8, <1>9, BlockKeeps
<1>11. opened' = opened /\ frame' = frame
  BY <1>4 DEF hostVars
<1>12. RoleInv' /\ HandleInv' /\ ImageInv'
  BY <1>1, <1>4, <1>11 DEF KeptInv, RoleInv, HandleInv, ImageInv, OpOf
<1>13. TransferInv'
  BY <1>3, <1>4, <1>6, <1>8, <1>9 DEF TransferInv, OpOf
<1>14. QED
  BY <1>10, <1>12, <1>13 DEF KeptInv

LEMMA SentIs ==
  ASSUME TypeOK, NEW c \in DataChannels
  PROVE  /\ Sent(c).open = channels[c].open /\ Sent(c).buf = <<>>
         /\ Sent(c).command = channels[c].command
<1>1. DOMAIN channels[c] = ChannelFields
  BY ChannelDomain DEF TypeOK, Channels
<1>2. QED
  BY <1>1 DEF Sent, ChannelFields

LEMMA SendDirectoryKeeps ==
  ASSUME TypeInv, KeptInv, SendDirectory
  PROVE  KeptInv' /\ (NothingLost => NothingLost')
<1>1. /\ busy = "dir" /\ busy' = "none" /\ atnSequence' = "COMPLETE"
      /\ channels' = [channels EXCEPT ![0] = Sent(0)]
      /\ UNCHANGED hostVars /\ receivedCommand' = receivedCommand /\ fs' = fs
      /\ cmdBuffer' = cmdBuffer /\ selectedImage' = selectedImage /\ mode' = mode
  BY DEF SendDirectory, fsVars
<1>2. /\ atnSequence = "HANDLE" /\ deviceRole = "TALK" /\ OpOf(cmdBuffer) = "dir"
      /\ secondaryAddress # CMD /\ ~receivedCommand
  BY <1>1 DEF TypeInv, Sequencing, Transfers, KeptInv, TransferInv
<1>3. ~channels[0].open /\ 0 \in DataChannels
  BY <1>2, ListingIs, IecAssumption
<1>4. PICK new : new = Sent(0)
  OBVIOUS
<1>5. ~new.open /\ new.buf = <<>> /\ new.command = channels[0].command
  BY <1>3, <1>4, SentIs DEF TypeInv
<1>6. channels' = [channels EXCEPT ![0] = new] /\ ~receivedCommand'
  BY <1>1, <1>2, <1>4
<1>7. /\ ListingInv' /\ ChannelInv' /\ ShareInv' /\ CommandInv'
      /\ ~channels'[CMD].open /\ ~reset'
      /\ NothingLost => NothingLost'
  BY <1>1, <1>2, <1>3, <1>5, <1>6, BlockKeeps
<1>8. RoleInv' /\ HandleInv' /\ TransferInv'
  BY <1>1 DEF RoleInv, HandleInv, TransferInv
<1>9. ImageInv'
  BY <1>1 DEF KeptInv, ImageInv, hostVars
<1>10. QED
  BY <1>7, <1>8, <1>9 DEF KeptInv

LEMMA SendBootSectorKeeps ==
  ASSUME TypeInv, KeptInv, SendBootSector
  PROVE  KeptInv' /\ (NothingLost => NothingLost')
<1>1. /\ busy = "boot" /\ UNCHANGED hostVars /\ receivedCommand' = receivedCommand
      /\ cmdBuffer' = cmdBuffer /\ selectedImage' = selectedImage /\ mode' = mode
  BY DEF SendBootSector
<1>2. PICK c \in DataChannels : c = secondaryAddress
  BY <1>1 DEF TypeInv, Sequencing
<1>3. PICK ch : ch = IF atn THEN channels[c] ELSE Sent(c)
  OBVIOUS
<1>4. Load(c, ch, fs, error)
  BY <1>2, <1>3 DEF SendBootSector
<1>5. /\ OpOf(channels[c].command) = "direct" /\ ~channels[c].open /\ ~receivedCommand
      /\ channels[c] \in ChannelRecords /\ fs \in FileSystems
  BY <1>1, <1>2 DEF KeptInv, TransferInv, ChannelInv, OpenInv, TypeInv, TypeOK, Channels,
                    Sequencing
<1>6. ~ch.open /\ ch.command = channels[c].command /\ ch.buf \in {channels[c].buf, <<>>}
  BY <1>3, <1>5, SentIs DEF TypeInv
<1>7. NextBlock(ch, fs) = <<>>
  BY <1>6 DEF NextBlock
<1>8. /\ fs' = fs /\ busy' = "none" /\ atnSequence' = "COMPLETE"
      /\ channels' = [channels EXCEPT ![c] = ch]
  BY <1>4, <1>7 DEF Load
<1>9. ch.buf # <<>> => c \in opened /\ OpOf(channels[c].command) # "file"
  BY <1>5, <1>6 DEF KeptInv, ChannelInv, ClosedInv
<1>10. ~receivedCommand'
  BY <1>1, <1>5
<1>11. /\ ListingInv' /\ ChannelInv' /\ ShareInv' /\ CommandInv'
       /\ ~channels'[CMD].open /\ ~reset'
       /\ NothingLost => NothingLost'
  BY <1>1, <1>5, <1>6, <1>8, <1>9, <1>10, BlockKeeps
<1>12. RoleInv' /\ HandleInv' /\ TransferInv'
  BY <1>8 DEF RoleInv, HandleInv, TransferInv
<1>13. ImageInv'
  BY <1>1, <1>8 DEF KeptInv, ImageInv, hostVars
<1>14. QED
  BY <1>11, <1>12, <1>13 DEF KeptInv

LEMMA LoadByteKeeps ==
  ASSUME TypeInv, KeptInv, LoadByte
  PROVE  KeptInv' /\ (NothingLost => NothingLost')
<1>1. PICK c \in DataChannels : c = secondaryAddress
  BY DEF LoadByte, TypeInv, Sequencing
<1>2. PICK ch : ch = channels[c]
  OBVIOUS
<1>3. /\ busy = "load" /\ opened' = opened /\ said' = said /\ reset' = reset /\ frame' = frame
      /\ deviceRole' = deviceRole /\ commandCode' = commandCode
      /\ secondaryAddress' = secondaryAddress /\ receivedCommand' = receivedCommand
      /\ cmdBuffer' = cmdBuffer /\ selectedImage' = selectedImage /\ mode' = mode /\ fs' = fs
  BY DEF LoadByte, fsVars
<1>4. /\ ch.open /\ ~ch.writing /\ ~receivedCommand /\ ch \in ChannelRecords
      /\ channels \in [Channels -> ChannelRecords] /\ c \in Channels
  BY <1>1, <1>2, <1>3 DEF KeptInv, TransferInv, TypeInv, TypeOK, Sequencing, Channels
<1> DEFINE sent == [ch EXCEPT !.sent = ch.sent + 1]
           next == NextBlock(ch, fs)
           read == [sent EXCEPT !.buf = next, !.pos = sent.pos + Len(next)]
<1>5. /\ channels' = [channels EXCEPT ![c] = sent] \/ channels' = [channels EXCEPT ![c] = read]
      /\ \/ busy' = "none" /\ atnSequence' = "COMPLETE"
         \/ busy' = busy /\ atnSequence' = atnSequence
  BY <1>1, <1>2 DEF LoadByte
<1>6. DOMAIN ch = ChannelFields
  BY <1>4, ChannelDomain
<1>7. /\ sent.open = ch.open /\ sent.writing = ch.writing /\ sent.file = ch.file
      /\ sent.command = ch.command
      /\ read.open = ch.open /\ read.writing = ch.writing /\ read.file = ch.file
      /\ read.command = ch.command
  BY <1>6 DEF ChannelFields
<1> HIDE DEF sent, read
<1>8. PICK new : /\ channels' = [channels EXCEPT ![c] = new]
                 /\ new.open = ch.open /\ new.writing = ch.writing /\ new.file = ch.file
                 /\ new.command = ch.command
  BY <1>5, <1>7
<1>9. channels'[c] = new /\ \A d \in Channels \ {c} : channels'[d] = channels[d]
  BY <1>4, <1>8
<1>10. DataChannels \subseteq Channels /\ CMD \in Channels /\ CMD # c
  BY IecAssumption DEF Channels, CMD
<1>11. OpenInv(c)' /\ ClosedInv(c)'
  <2>1. OpenInv(c)
    BY DEF KeptInv, ChannelInv
  <2>2. ~Pending(c)'
    BY <1>3, <1>4 DEF Pending
  <2>3. QED
    BY <1>2, <1>3, <1>4, <1>8, <1>9, <2>1, <2>2 DEF OpenInv, ClosedInv
<1>12. OpOf(cmdBuffer) = "dir" => c # 0
  BY <1>2, <1>4 DEF KeptInv, ListingInv
<1>13. ListingInv' /\ ChannelInv' /\ ShareInv' /\ CommandInv'
  <2>1. channels'[c].command = channels[c].command
    BY <1>2, <1>8, <1>9
  <2>2. \A d \in DataChannels \ {c} : channels'[d] = channels[d] /\ said'[d] = said[d]
    BY <1>3, <1>9, <1>10
  <2>3. QED
    BY <1>3, <1>4, <1>11, <1>12, <2>1, <2>2, OneChannel
<1>14. RoleInv' /\ HandleInv' /\ ImageInv' /\ ~channels'[CMD].open
  BY <1>3, <1>5, <1>9, <1>10 DEF KeptInv, RoleInv, HandleInv, ImageInv, OpOf
<1>15. TransferInv'
  BY <1>1, <1>3, <1>4, <1>5, <1>8, <1>9 DEF TransferInv
<1>16. NothingLost => NothingLost'
  BY <1>3, <1>4, <1>8, <1>9, <1>10 DEF NothingLost, Exists
<1>17. QED
  BY <1>3, <1>13, <1>14, <1>15, <1>16 DEF KeptInv

-----------------------------------------------------------------------------
(* What is remembered stays true, and what follows from it *)

LEMMA InitKept == Init => KeptInv /\ NothingLost
<1> SUFFICES ASSUME Init PROVE KeptInv /\ NothingLost
  OBVIOUS
<1>1. /\ ~reset /\ opened = {} /\ atnSequence = "IDLE" /\ busy = "none" /\ ~receivedCommand
      /\ cmdBuffer = NoRequest /\ selectedImage = NoName /\ mode = "browse"
      /\ channels = [c \in Channels |-> ClosedChannel]
  BY DEF Init
<1>2. \A c \in Channels : ~channels[c].open /\ channels[c].buf = <<>>
  BY <1>1 DEF ClosedChannel
<1>3. CMD \in Channels /\ DataChannels \subseteq Channels
  BY DEF Channels
<1>4. ListingInv
  BY <1>1 DEF ListingInv, OpOf
<1>5. ChannelInv
  BY <1>1, <1>2, <1>3 DEF ChannelInv, OpenInv, ClosedInv, Pending
<1>6. ShareInv /\ CommandInv
  BY <1>1 DEF ShareInv, CommandInv, Pending
<1>7. RoleInv /\ HandleInv /\ TransferInv /\ ImageInv
  BY <1>1 DEF RoleInv, HandleInv, TransferInv, ImageInv
<1>8. NothingLost
  BY <1>2, <1>3 DEF NothingLost
<1>9. QED
  BY <1>1, <1>2, <1>3, <1>4, <1>5, <1>6, <1>7, <1>8 DEF KeptInv

LEMMA NextKept ==
  ASSUME StrictHost, ~Resets, TypeInv, KeptInv, [Next]_vars
  PROVE  KeptInv' /\ (NothingLost => NothingLost')
<1>1. CASE HostNext
  BY <1>1, HostKeeps
<1>2. CASE SequenceNext
  BY <1>2, ResetKeeps, QuietKeeps, CompleteKeeps, ReceiveKeeps DEF SequenceNext
<1>3. CASE HandleNext
  BY <1>3, QuietKeeps, ListenNameKeeps, TalkDirectoryKeeps, TalkBootSectorKeeps,
     ListenDataKeeps, TalkFileKeeps DEF HandleNext
<1>4. CASE TransferNext
  <2>1. \A r \in Requests : ~ListenPart(r)
    BY DEF ListenPart
  <2>2. QED
    BY <1>4, <2>1, RequestKeeps, SaveKeeps, LoadByteKeeps, SendDirectoryKeeps,
       SendBootSectorKeeps, QuietKeeps DEF TransferNext
<1>5. CASE CallerNext
  BY <1>5, QuietKeeps, ResetKeeps DEF CallerNext
<1>6. CASE UNCHANGED vars
  <2>1. /\ UNCHANGED hostVars /\ UNCHANGED atnVars /\ UNCHANGED dataVars /\ UNCHANGED fsVars
    BY <1>6 DEF vars
  <2>2. /\ opened' = opened /\ said' = said /\ reset' = reset /\ frame' = frame
        /\ atnSequence' = atnSequence /\ busy' = busy /\ deviceRole' = deviceRole
        /\ commandCode' = commandCode /\ secondaryAddress' = secondaryAddress
        /\ receivedCommand' = receivedCommand /\ cmdBuffer' = cmdBuffer
        /\ channels' = channels /\ selectedImage' = selectedImage /\ mode' = mode /\ fs' = fs
    BY <2>1 DEF hostVars, atnVars, dataVars, fsVars
  <2>3. /\ ListingInv' /\ ChannelInv' /\ ShareInv' /\ CommandInv'
        /\ NothingLost => NothingLost'
    BY <2>2, NothingTouched
  <2>4. RoleInv' /\ HandleInv' /\ ImageInv'
    BY <2>2 DEF KeptInv, RoleInv, HandleInv, ImageInv, OpOf
  <2>5. TransferInv'
    BY <2>2 DEF KeptInv, TransferInv, OpOf
  <2>6. QED
    BY <2>2, <2>3, <2>4, <2>5 DEF KeptInv
<1>7. QED
  BY <1>1, <1>2, <1>3, <1>4, <1>5, <1>6 DEF Next

\* Every byte a computer said on a channel since it opened it is on its way to
\* the file of that channel, in order and once, whatever else it does on the
\* other channels and whenever it interrupts the transfer.
THEOREM BytesAreKept ==
  ASSUME StrictHost, ~Resets
  PROVE  Spec => []NothingLost
<1> DEFINE IInv == TypeInv /\ KeptInv /\ NothingLost
<1>1. Init => IInv
  BY TypeInit, InitKept
<1>2. IInv /\ [Next]_vars => IInv'
  <2> SUFFICES ASSUME TypeInv, KeptInv, NothingLost, [Next]_vars
               PROVE  TypeInv' /\ KeptInv' /\ NothingLost'
    OBVIOUS
  <2>1. TypeInv'
    BY TypeNext
  <2>2. KeptInv' /\ (NothingLost => NothingLost')
    BY NextKept
  <2>3. QED
    BY <2>1, <2>2
<1>3. IInv => NothingLost
  OBVIOUS
<1> HIDE DEF IInv
<1>4. QED
  BY <1>1, <1>2, <1>3, PTL DEF Spec

\* The state behind the next two theorems.
LEMMA KeptAlways ==
  ASSUME StrictHost, ~Resets
  PROVE  Spec => [](TypeInv /\ KeptInv)
<1>1. Init => TypeInv /\ KeptInv
  BY TypeInit, InitKept
<1>2. TypeInv /\ KeptInv /\ [Next]_vars => (TypeInv /\ KeptInv)'
  BY TypeNext, NextKept
<1>3. QED
  BY <1>1, <1>2, PTL DEF Spec

\* The file a channel has open is the one its host asked for last, opened for
\* what was asked.
THEOREM OpenServesItsRequest ==
  ASSUME StrictHost, ~Resets
  PROVE  Spec => []OpenedAsAsked
<1>1. KeptInv => OpenedAsAsked
  BY DEF KeptInv, ChannelInv, OpenInv, OpenedAsAsked
<1>2. QED
  BY <1>1, KeptAlways, PTL

\* A listing is sent on channel 0 only, when it was asked for there, and a file
\* on the channel that was opened for it.
THEOREM TalksServeTheirChannel ==
  ASSUME StrictHost, ~Resets
  PROVE  Spec => []TalkServesItsChannel
<1>1. TypeInv /\ KeptInv => TalkServesItsChannel
  <2> SUFFICES ASSUME TypeInv, KeptInv PROVE TalkServesItsChannel
    OBVIOUS
  <2>1. ASSUME busy = "dir" PROVE OpOf(channels[secondaryAddress].command) # "file"
    <3>1. /\ atnSequence = "HANDLE" /\ deviceRole = "TALK" /\ OpOf(cmdBuffer) = "dir"
          /\ secondaryAddress # CMD /\ ~receivedCommand
      BY <2>1 DEF TypeInv, Sequencing, Transfers, KeptInv, TransferInv
    <3>2. secondaryAddress = 0 /\ OpOf(channels[0].command) = "dir"
      BY <3>1, ListingIs
    <3>3. QED
      BY <3>2
  <2>2. ASSUME busy = "load" PROVE OpOf(channels[secondaryAddress].command) = "file"
    <3>1. secondaryAddress \in DataChannels /\ channels[secondaryAddress].open
      BY <2>2 DEF TypeInv, Sequencing, KeptInv, TransferInv
    <3>2. QED
      BY <3>1 DEF KeptInv, ChannelInv, OpenInv
  <2>3. QED
    BY <2>1, <2>2 DEF TalkServesItsChannel
<1>2. QED
  BY <1>1, KeptAlways, PTL

-----------------------------------------------------------------------------
(* Steps that store and steps that destroy *)

\* Every content a folder holds is still in it, under its own name or another.
Survives(f, g) ==
  \A n \in Names : Exists(f, n) => \E m \in Names : Exists(g, m) /\ g[m] = f[n]

LEMMA CommandSpares ==
  ASSUME NEW r \in RequestRecords, NEW f \in FileSystems, NEW blank \in Contents,
         r.op # "scratch"
  PROVE  Survives(f, ProcessCommand(r, f, blank).fs)
<1>1. Survives(f, f)
  BY DEF Survives
<1>2. /\ r.name \in Names \union {NoName} /\ r.name2 \in Names \union {NoName}
      /\ DOMAIN f = Names /\ \A n \in Names : f[n] # NoFile => Exists(f, n)
  BY DEF RequestRecords, FileSystems, Exists
<1>3. ASSUME NEW g, ~Exists(f, r.name), \A n \in Names \ {r.name} : g[n] = f[n]
      PROVE  Survives(f, g)
  BY <1>3 DEF Survives, Exists
<1>4. CASE r.op = "rename"
  <2>1. \/ Rename(r, f).fs = f
        \/ /\ Rename(r, f).fs = [f EXCEPT ![r.name] = f[r.name2], ![r.name2] = NoFile]
           /\ r.name \in Names /\ ~Exists(f, r.name) /\ Exists(f, r.name2)
    BY <1>2 DEF Rename, Result
  <2>2. CASE /\ Rename(r, f).fs = [f EXCEPT ![r.name] = f[r.name2], ![r.name2] = NoFile]
             /\ r.name \in Names /\ ~Exists(f, r.name) /\ Exists(f, r.name2)
    <3>1. PICK g : g = Rename(r, f).fs
      OBVIOUS
    <3>2. g[r.name] = f[r.name2] /\ \A n \in Names \ {r.name, r.name2} : g[n] = f[n]
      BY <1>2, <2>2, <3>1 DEF Exists
    <3>3. Survives(f, g)
      BY <2>2, <3>2 DEF Survives, Exists
    <3>4. QED
      BY <1>4, <3>1, <3>3 DEF ProcessCommand
  <2>3. QED
    BY <1>1, <1>4, <2>1, <2>2 DEF ProcessCommand
<1>5. CASE r.op = "copy"
  <2> DEFINE first == IF Exists(f, r.name2)
                      THEN CopyFile(f, r.name, r.name2, FALSE) ELSE f
             second == IF Exists(first, r.name3)
                       THEN CopyFile(first, r.name, r.name3, TRUE) ELSE first
  <2>1. DOMAIN first = Names /\ \A n \in Names \ {r.name} : first[n] = f[n]
    BY <1>2 DEF CopyFile
  <2>2. \A n \in Names \ {r.name} : second[n] = f[n]
    <3> HIDE DEF first
    <3>1. QED
      BY <2>1 DEF CopyFile
  <2> HIDE DEF first, second
  <2>3. Copy(r, f).fs = f \/ (~Exists(f, r.name) /\ Copy(r, f).fs = second)
    BY DEF Copy, Result, first, second
  <2>4. QED
    BY <1>1, <1>3, <1>5, <2>2, <2>3 DEF ProcessCommand
<1>6. CASE r.op = "new"
  <2>1. \/ New(r, f, blank).fs = f
        \/ ~Exists(f, r.name) /\ New(r, f, blank).fs = [f EXCEPT ![r.name] = blank]
    BY DEF New, Result
  <2>2. \A n \in Names \ {r.name} : [f EXCEPT ![r.name] = blank][n] = f[n]
    BY <1>2
  <2>3. QED
    BY <1>1, <1>3, <1>6, <2>1, <2>2 DEF ProcessCommand
<1>7. CASE r.op \notin {"rename", "copy", "new"}
  <2>1. ProcessCommand(r, f, blank).fs = f
    BY <1>7 DEF ProcessCommand, CD, Result
  <2>2. QED
    BY <1>1, <2>1
<1>8. QED
  BY <1>4, <1>5, <1>6, <1>7

\* Giving up channels that have nothing open stores nothing.
LEMMA ResetStoresNothing ==
  ASSUME TypeInv, KeptInv, DeviceReset \/ MountFails \/ EnterBrowse
  PROVE  fs' = fs /\ \A c \in DataChannels : ~channels[c].open
<1>1. fs' = AllSynced /\ opened = {}
  BY DEF DeviceReset, MountFails, EnterBrowse, ResetState, KeptInv, ImageInv
<1>2. \A c \in DataChannels : ~channels[c].open
  BY <1>1 DEF KeptInv, ChannelInv, OpenInv
<1>3. \A n : WriterOf(n) = {}
  BY <1>2 DEF WriterOf
<1>4. fs \in FileSystems /\ AllSynced = [n \in Names |-> fs[n]]
  BY <1>3 DEF AllSynced, TypeInv, TypeOK
<1>5. QED
  BY <1>1, <1>2, <1>4 DEF FileSystems

\* No command but SCRATCH destroys what the folder holds, whatever it names
\* and however many files it names.
THEOREM CommandsSpareFiles ==
  ASSUME StrictHost, ~Resets
  PROVE  Spec => OnlyScratchDestroys
<1> DEFINE Spares ==
      (atnSequence = "COMPLETE" /\ atnSequence' = "IDLE" /\ OpOf(cmdBuffer) # "scratch") =>
       \A n \in Names : Exists(fs, n) => \E m \in Names : Exists(fs', m) /\ fs'[m] = fs[n]
<1>1. ASSUME TypeInv, KeptInv, [Next]_vars PROVE [Spares]_vars
  <2> SUFFICES ASSUME Next, atnSequence = "COMPLETE", atnSequence' = "IDLE",
                      OpOf(cmdBuffer) # "scratch"
               PROVE  Survives(fs, fs')
    BY <1>1 DEF Survives
  <2>1. Survives(fs, fs)
    BY DEF Survives
  <2>2. CASE Complete
    <3>1. CASE receivedCommand /\ secondaryAddress = CMD
      <4>1. /\ cmdBuffer \in RequestRecords /\ cmdBuffer.op # "scratch"
            /\ fs \in FileSystems /\ Blank \in Contents
        BY <1>1, <3>1, IecAssumption DEF TypeInv, TypeOK, Sequencing, OpOf
      <4>2. fs' = ProcessCommand(cmdBuffer, fs, Blank).fs
        BY <2>2, <3>1 DEF Complete
      <4>3. QED
        BY <4>1, <4>2, CommandSpares
    <3>2. CASE ~(receivedCommand /\ secondaryAddress = CMD)
      BY <2>1, <2>2, <3>2 DEF Complete
    <3>3. QED
      BY <3>1, <3>2
  <2>3. CASE DeviceReset \/ MountFails \/ EnterBrowse
    BY <1>1, <2>1, <2>3, ResetStoresNothing
  <2>4. Complete \/ DeviceReset \/ MountFails \/ EnterBrowse
    <3>1. ~HostNext
      BY DEF HostNext, HostAttention, HostClock, HostRelease, HostReset, HostResetEnds, atnVars
    <3>2. ~HandleNext
      BY DEF HandleNext, HandlePassive, ListenName, TalkError, TalkDirectory, TalkBootSector,
             ListenData, TalkFile, Talking, Handling
    <3>3. ~TransferNext
      <4>1. \A r \in Requests : ~ListenRequest(r) /\ ~ListenPart(r)
        BY DEF ListenRequest, ListenPart, atnVars
      <4>2. ~(\E b \in Bytes : SaveByte(b))
        BY DEF SaveByte, atnVars
      <4>3. ~LoadByte /\ ~SendDirectory /\ ~SendError /\ ~Interrupted
        BY DEF LoadByte, SendDirectory, SendError, Interrupted
      <4>4. ~SendBootSector
        BY DEF SendBootSector, Load
      <4>5. QED
        BY <4>1, <4>2, <4>3, <4>4 DEF TransferNext
    <3>4. ~LeaveBrowse
      BY DEF LeaveBrowse, atnVars
    <3>5. SequenceNext => Complete \/ DeviceReset
      BY DEF SequenceNext, Idle, Attention, ClockSeen, Released, ReceiveNothing, ReceiveCode,
             NextSequence
    <3>6. QED
      BY <3>1, <3>2, <3>3, <3>4, <3>5 DEF Next, CallerNext
  <2>5. QED
    BY <2>2, <2>3, <2>4
<1>2. QED
  <2>1. (TypeInv /\ KeptInv) /\ [Next]_vars => [Spares]_vars
    BY <1>1
  <2> HIDE DEF Spares
  <2>2. Spec => [][Spares]_vars
    BY <2>1, KeptAlways, PTL DEF Spec
  <2>3. QED
    BY <2>2 DEF OnlyScratchDestroys, Spares

\* What is open stays open unless one step closes it.
StayOpen == \A c \in DataChannels : channels[c].open => channels'[c].open

LEMMA OnePlace ==
  ASSUME TypeInv, NEW x \in Channels, NEW new, channels' = [channels EXCEPT ![x] = new],
         channels[x].open => new.open
  PROVE  StayOpen
<1>1. channels \in [Channels -> ChannelRecords] /\ DataChannels \subseteq Channels
  BY DEF TypeInv, TypeOK, Channels
<1>2. QED
  BY <1>1 DEF StayOpen

LEMMA OnlyClosingCloses ==
  ASSUME TypeInv, Next, ~StayOpen
  PROVE  \/ \E code \in HostCodes : ReceiveCode(code) /\ code.kind = "close"
         \/ ResetState
<1>1. /\ channels \in [Channels -> ChannelRecords] /\ DataChannels \subseteq Channels
      /\ 0 \in DataChannels /\ CMD \in Channels
  BY IecAssumption DEF TypeInv, TypeOK, Channels
<1>2. \A c \in Channels : DOMAIN channels[c] = ChannelFields
  BY <1>1, ChannelDomain
<1>3. channels' # channels
  BY DEF StayOpen
<1>4. ~HostNext /\ ~LeaveBrowse
  BY <1>3 DEF HostNext, HostAttention, HostClock, HostRelease, HostReset, HostResetEnds,
              LeaveBrowse, dataVars
<1>5. ~(\/ Idle \/ Attention \/ ClockSeen \/ Released \/ ReceiveNothing
        \/ HandlePassive \/ TalkError \/ SendError \/ Interrupted)
  BY <1>3 DEF Idle, Attention, ClockSeen, Released, ReceiveNothing, HandlePassive, TalkError,
              SendError, Interrupted, dataVars
<1>6. ~Complete
  <2> SUFFICES ASSUME Complete PROVE FALSE
    OBVIOUS
  <2> DEFINE c == secondaryAddress
             new == [channels[c] EXCEPT !.command = cmdBuffer]
  <2>1. receivedCommand /\ c # CMD /\ c \in Channels
    BY <1>3 DEF Complete, TypeInv, Sequencing
  <2>2. channels' = [channels EXCEPT ![c] = new]
    BY <2>1, Zenon DEF Complete
  <2>3. new.open = channels[c].open
    BY <1>2, <2>1 DEF ChannelFields
  <2> HIDE DEF new
  <2>4. QED
    BY <2>1, <2>2, <2>3, OnePlace
<1>7. \A r \in Requests : ~ListenRequest(r) /\ ~ListenPart(r)
  BY <1>3 DEF ListenRequest, ListenPart
<1>8. ASSUME NEW b \in Bytes, SaveByte(b) PROVE FALSE
  <2>1. /\ secondaryAddress \in Channels
        /\ channels' = [channels EXCEPT ![secondaryAddress] =
                          Buffered(channels[secondaryAddress], b)]
    BY <1>1, <1>8 DEF SaveByte, TypeInv, Sequencing
  <2>2. Buffered(channels[secondaryAddress], b).open = channels[secondaryAddress].open
    BY <1>1, <2>1, BufferedHolds
  <2>3. QED
    BY <2>1, <2>2, OnePlace
<1>9. ~LoadByte
  <2> SUFFICES ASSUME LoadByte PROVE FALSE
    OBVIOUS
  <2> DEFINE c == secondaryAddress
             ch == channels[c]
             sent == [ch EXCEPT !.sent = ch.sent + 1]
             next == NextBlock(ch, fs)
             read == [sent EXCEPT !.buf = next, !.pos = sent.pos + Len(next)]
  <2>1. c \in Channels
    BY <1>1 DEF LoadByte, TypeInv, Sequencing
  <2>2. channels' = [channels EXCEPT ![c] = sent] \/ channels' = [channels EXCEPT ![c] = read]
    BY DEF LoadByte
  <2>3. sent.open = ch.open /\ read.open = ch.open
    BY <1>2, <2>1 DEF ChannelFields
  <2> HIDE DEF sent, read
  <2>4. QED
    BY <2>1, <2>2, <2>3, OnePlace
<1>10. ~SendDirectory
  <2> SUFFICES ASSUME SendDirectory PROVE FALSE
    OBVIOUS
  <2>1. channels' = [channels EXCEPT ![0] = Sent(0)] /\ Sent(0).open = channels[0].open
    BY <1>1, SentIs DEF SendDirectory, TypeInv
  <2>2. QED
    BY <1>1, <2>1, OnePlace
<1>11. ASSUME NEW c \in DataChannels, NEW ch \in ChannelRecords, ch.open = channels[c].open,
              NEW f \in FileSystems, NEW e, Load(c, ch, f, e)
       PROVE  FALSE
  <2>1. \E new : channels' = [channels EXCEPT ![c] = new] /\ new.open = ch.open
    BY <1>11, LoadIs
  <2>2. PICK new : channels' = [channels EXCEPT ![c] = new] /\ new.open = ch.open
    BY <2>1
  <2>3. c \in Channels /\ (channels[c].open => new.open)
    BY <1>1, <1>11, <2>2
  <2>4. QED
    BY <2>2, <2>3, OnePlace
<1>12. ~SendBootSector
  <2> SUFFICES ASSUME SendBootSector PROVE FALSE
    OBVIOUS
  <2>1. PICK c \in DataChannels : c = secondaryAddress
    BY DEF SendBootSector, TypeInv, Sequencing
  <2>2. PICK ch : ch = IF atn THEN channels[c] ELSE Sent(c)
    OBVIOUS
  <2>3. ch.open = channels[c].open /\ Load(c, ch, fs, error)
    BY <2>1, <2>2, SentIs DEF SendBootSector, TypeInv
  <2>4. Sent(c) \in ChannelRecords
    <3> DEFINE sum == channels[c].sent + Len(channels[c].buf)
               none == <<>>
    <3>1. channels[c] \in ChannelRecords
      BY <1>1
    <3>2. sum \in Nat /\ none \in Contents
      BY <3>1 DEF ChannelRecords, Contents
    <3> HIDE DEF sum, none
    <3>3. [channels[c] EXCEPT !.buf = none, !.sent = sum] \in ChannelRecords
      BY <3>1, <3>2, Zenon DEF ChannelRecords
    <3>4. QED
      BY <3>3 DEF Sent, sum, none
  <2>5. ch \in ChannelRecords /\ fs \in FileSystems
    BY <1>1, <2>2, <2>4 DEF TypeInv, TypeOK
  <2>6. QED
    BY <1>11, <2>3, <2>5
<1>13. ~ListenName
  <2> SUFFICES ASSUME ListenName PROVE FALSE
    OBVIOUS
  <2>1. \A c \in DataChannels : channels'[c] = channels[c]
    BY <1>1, IecAssumption DEF ListenName, CMD
  <2>2. QED
    BY <2>1 DEF StayOpen
<1>14. ~TalkDirectory /\ ~TalkBootSector
  <2>1. ASSUME NEW c \in Channels, channels' = [channels EXCEPT ![c].buf = Block] PROVE FALSE
    <3>1. PICK new : new = [channels[c] EXCEPT !.buf = Block]
      OBVIOUS
    <3>2. channels' = [channels EXCEPT ![c] = new] /\ new.open = channels[c].open
      BY <1>2, <2>1, <3>1 DEF ChannelFields
    <3>3. QED
      BY <3>2, OnePlace
  <2>2. TalkBootSector => secondaryAddress \in Channels
    BY DEF TalkBootSector, Talking, Handling, Updating, TypeInv, Sequencing
  <2>3. TalkDirectory => 0 \in Channels /\ channels' = [channels EXCEPT ![0].buf = Block]
    BY <1>1 DEF TalkDirectory
  <2>4. TalkBootSector => channels' = [channels EXCEPT ![secondaryAddress].buf = Block]
    BY DEF TalkBootSector
  <2>5. QED
    BY <2>1, <2>2, <2>3, <2>4
<1>15. ASSUME NEW ok \in OpenOutcomes PROVE ~ListenData(ok) /\ ~TalkFile(ok)
  <2> SUFFICES ASSUME ListenData(ok) \/ TalkFile(ok) PROVE FALSE
    OBVIOUS
  <2>1. secondaryAddress \in DataChannels
    BY DEF ListenData, TalkFile, Talking, Handling, Updating, TypeInv, Sequencing, Channels
  <2>2. PICK c \in DataChannels : c = secondaryAddress
    BY <2>1
  <2>3. PICK o : o = Opened(c, ok)
    OBVIOUS
  <2>4. ok \in BOOLEAN
    BY IecAssumption
  <2>5. PICK ch : ch = channels[c]
    OBVIOUS
  <2>6. ch.open => o.ch = ch
    BY <2>3, <2>4, <2>5, OpenedIs DEF TypeInv
  <2>7. o.ch \in ChannelRecords /\ o.fs \in FileSystems
    BY <2>3, <2>4, OpenedType DEF TypeInv
  <2>8. CASE ListenData(ok)
    <3>1. channels' = [channels EXCEPT ![c] = o.ch] /\ (channels[c].open => o.ch.open)
      BY <2>2, <2>3, <2>5, <2>6, <2>8, Zenon DEF ListenData
    <3>2. QED
      BY <1>1, <3>1, OnePlace
  <2>9. CASE TalkFile(ok)
    <3>1. Load(c, o.ch, o.fs, o.error)
      BY <2>2, <2>3, <2>9 DEF TalkFile
    <3>2. \E new : channels' = [channels EXCEPT ![c] = new] /\ new.open = o.ch.open
      BY <2>7, <3>1, LoadIs
    <3>3. PICK new : channels' = [channels EXCEPT ![c] = new] /\ new.open = o.ch.open
      BY <3>2
    <3>4. channels[c].open => new.open
      BY <2>5, <2>6, <3>3
    <3>5. QED
      BY <1>1, <3>3, <3>4, OnePlace
  <2>10. QED
    BY <2>8, <2>9
<1>16. CASE \E code \in HostCodes : ReceiveCode(code)
  BY <1>3, <1>16 DEF ReceiveCode
<1>17. CASE DeviceReset \/ MountFails \/ EnterBrowse
  BY <1>17 DEF DeviceReset, MountFails, EnterBrowse
<1>18. QED
  BY <1>4, <1>5, <1>6, <1>7, <1>8, <1>9, <1>10, <1>12, <1>13, <1>14, <1>15, <1>16, <1>17
     DEF Next, SequenceNext, HandleNext, TransferNext, CallerNext

\* Closing a channel, or all of them, stores the bytes of a file with one writer.
LEMMA ClosingStores ==
  ASSUME TypeInv, Next, NEW c \in DataChannels, Writer(c), ~channels'[c].open,
         \A d \in WriterOf(channels[c].file) : d = c
  PROVE  fs'[channels[c].file] = channels[c].fil \o channels[c].buf
<1> DEFINE n == channels[c].file
<1>1. channels[c].open /\ channels[c].writing /\ Exists(fs, n) /\ fs \in FileSystems
  BY DEF Writer, TypeInv, TypeOK
<1>2. \/ \E code \in HostCodes : ReceiveCode(code) /\ code.kind = "close"
      \/ ResetState
  BY <1>1, OnlyClosingCloses DEF StayOpen
<1>3. ASSUME NEW code \in HostCodes, ReceiveCode(code), code.kind = "close"
      PROVE  fs'[n] = channels[c].fil \o channels[c].buf
  <2>1. /\ channels' = [channels EXCEPT ![code.sa] = Closed(channels[code.sa])]
        /\ fs' = Synced(fs, channels[code.sa])
    BY <1>3 DEF ReceiveCode
  <2>2. code.sa = c
    BY <1>1, <2>1 DEF TypeInv, TypeOK, Channels
  <2>3. QED
    BY <1>1, <2>1, <2>2 DEF Synced, Exists, FileSystems
<1>4. CASE ResetState
  <2>1. WriterOf(n) = {c}
    BY <1>1 DEF WriterOf
  <2>2. (CHOOSE x \in WriterOf(n) : \A y \in WriterOf(n) : y <= x) = c
    BY <2>1, IecAssumption
  <2>3. fs' = AllSynced /\ n \in Names /\ fs[n] # NoFile /\ WriterOf(n) # {}
    <3>1. fs' = AllSynced
      BY <1>4 DEF ResetState
    <3>2. n \in Names /\ fs[n] # NoFile
      BY <1>1 DEF Exists
    <3>3. QED
      BY <2>1, <3>1, <3>2
  <2>4. fs'[n] = LET d == CHOOSE x \in WriterOf(n) : \A y \in WriterOf(n) : y <= x
                 IN  channels[d].fil \o channels[d].buf
    BY <2>3 DEF AllSynced
  <2>5. QED
    BY <2>2, <2>4
<1>5. QED
  BY <1>2, <1>3, <1>4

\* Whatever the host does, and whenever it resets: when the drive closes the
\* only channel that writes a file, every byte taken so far is in the folder.
THEOREM LoneWriterKeepsBytes ==
  Spec => [][\A c \in DataChannels :
               (/\ Writer(c) /\ ~channels'[c].open
                /\ \A d \in WriterOf(channels[c].file) : d = c)
               => fs'[channels[c].file] = channels[c].fil \o channels[c].buf]_vars
<1> DEFINE Stores == \A c \in DataChannels :
               (/\ Writer(c) /\ ~channels'[c].open
                /\ \A d \in WriterOf(channels[c].file) : d = c)
               => fs'[channels[c].file] = channels[c].fil \o channels[c].buf
<1>1. TypeInv /\ [Next]_vars => [Stores]_vars
  BY ClosingStores
<1> HIDE DEF Stores
<1>2. Spec => [][Stores]_vars
  BY <1>1, TypeInit, TypeNext, PTL DEF Spec
<1>3. QED
  BY <1>2 DEF Stores

\* With one channel in use any computer keeps its bytes; with more, one that
\* writes a file through one of them at a time.
THEOREM ClosingKeeps ==
  ASSUME (\A c, d \in DataChannels : c = d) \/ (StrictHost /\ ~Resets)
  PROVE  Spec => ClosingKeepsBytes
<1> DEFINE Keeps == \A c \in DataChannels : (Writer(c) /\ ~channels'[c].open) =>
                      fs'[channels[c].file] = channels[c].fil \o channels[c].buf
<1>1. CASE \A c, d \in DataChannels : c = d
  <2>1. TypeInv /\ [Next]_vars => [Keeps]_vars
    <3>1. \A c \in DataChannels : \A d \in WriterOf(channels[c].file) : d = c
      BY <1>1 DEF WriterOf
    <3>2. QED
      BY <3>1, ClosingStores
  <2> HIDE DEF Keeps
  <2>2. Spec => [][Keeps]_vars
    BY <2>1, TypeInit, TypeNext, PTL DEF Spec
  <2>3. QED
    BY <2>2 DEF ClosingKeepsBytes, Keeps
<1>2. CASE StrictHost /\ ~Resets
  <2>1. (TypeInv /\ KeptInv) /\ [Next]_vars => [Keeps]_vars
    <3> SUFFICES ASSUME TypeInv, KeptInv, Next, NEW c \in DataChannels, Writer(c),
                        ~channels'[c].open
                 PROVE  fs'[channels[c].file] = channels[c].fil \o channels[c].buf
      OBVIOUS
    <3>1. ASSUME NEW d \in WriterOf(channels[c].file), d # c PROVE FALSE
      <4>1. d \in DataChannels /\ channels[d].open /\ channels[d].file = channels[c].file
        BY <3>1 DEF WriterOf
      <4>2. channels[c].open /\ channels[c].writing
        BY DEF Writer
      <4>3. OpenInv(c) /\ OpenInv(d)
        BY <4>1 DEF KeptInv, ChannelInv
      <4>4. /\ Asked(c) = channels[c].command /\ Asked(d) = channels[d].command
            /\ c \in opened /\ d \in opened /\ Writes(c, channels[c].command)
            /\ OpOf(channels[c].command) = "file" /\ OpOf(channels[d].command) = "file"
            /\ channels[c].command.name = channels[d].command.name
        BY <4>1, <4>2, <4>3 DEF OpenInv, Asked
      <4>5. QED
        BY <3>1, <4>4 DEF KeptInv, ShareInv
    <3>2. QED
      BY <3>1, ClosingStores
  <2> HIDE DEF Keeps
  <2>2. Spec => [][Keeps]_vars
    BY <1>2, <2>1, KeptAlways, PTL DEF Spec
  <2>3. QED
    BY <2>2 DEF ClosingKeepsBytes, Keeps
<1>3. QED
  BY <1>1, <1>2

-----------------------------------------------------------------------------
(* The promise of FileService: where reading has got to, and what the host   *)
(* has heard of a file.                                                      *)

\* A talk is going on, on channel c.
Loading(c) == busy = "load" /\ secondaryAddress = c

\* What is read of a file, and what is heard of it, of a channel that reads: at
\* the place the next byte comes from, or behind it for the rest of the file.
ReadInv(c) ==
  channels[c].open /\ ~channels[c].writing =>
    /\ Exists(fs, channels[c].file)
    /\ channels[c].pos <= Len(fs[channels[c].file])
    /\ Len(heard[c]) <= ReadPlace(c)
    /\ Len(heard[c]) = ReadPlace(c) /\ ~Loading(c) =>
         channels[c].pos \in {0, Len(fs[channels[c].file])}

\* During a talk the buffer holds the bytes before the place the FIL has read to.
LoadInv(c) ==
  Loading(c) =>
    /\ Len(channels[c].buf) <= channels[c].pos
    /\ \A i \in 1 .. Len(channels[c].buf) :
         channels[c].buf[i] =
           fs[channels[c].file][channels[c].pos - Len(channels[c].buf) + i]
    /\ Len(heard[c]) = ReadPlace(c) =>
         remaining = Len(fs[channels[c].file]) - channels[c].pos

\* bytesSent counts what is heard of a file; what else it counts is gone before
\* a file is opened.
SentInv(c) ==
  /\ channels[c].open => channels[c].sent = Len(heard[c])
  /\ ~channels[c].open =>
       /\ c \in opened => heard[c] = <<>>
       /\ channels[c].sent # 0 =>
            c \in opened /\ ~Pending(c) /\ OpOf(channels[c].command) # "file"

PlaceOf(c) == ReadInv(c) /\ LoadInv(c) /\ SentInv(c)
PlaceInv == \A c \in DataChannels : PlaceOf(c)

\* What one channel shows, and the invariant, depend on that channel, its file
\* and the talk on it.
LEMMA PlaceStays ==
  ASSUME TypeInv, KeptInv, NEW c \in DataChannels, PlaceOf(c),
         channels'[c] = channels[c], heard'[c] = heard[c],
         c \in opened' <=> c \in opened, Pending(c)' => Pending(c),
         Loading(c)' <=> Loading(c), Loading(c) => sendIdx' = sendIdx /\ remaining' = remaining,
         channels[c].open /\ ~channels[c].writing =>
           fs'[channels[c].file] = fs[channels[c].file]
  PROVE  PlaceOf(c)' /\ StreamOf(c)' = StreamOf(c)
<1>1. Loading(c) => channels[c].open /\ ~channels[c].writing
  BY DEF Loading, KeptInv, TransferInv
<1>2. channels[c].open /\ ~channels[c].writing => ReadPlace(c)' = ReadPlace(c)
  BY DEF ReadPlace, Loading
<1>3. ReadInv(c)'
  <2>1. ReadInv(c)
    BY DEF PlaceOf
  <2>2. QED
    BY <1>2, <2>1 DEF ReadInv, Exists
<1>4. LoadInv(c)'
  <2>1. LoadInv(c)
    BY DEF PlaceOf
  <2>2. QED
    BY <1>1, <1>2, <2>1 DEF LoadInv
<1>5. SentInv(c)'
  <2>1. SentInv(c)
    BY DEF PlaceOf
  <2>2. QED
    BY <2>1 DEF SentInv
<1>6. StreamOf(c)' = StreamOf(c)
  BY <1>2 DEF StreamOf
<1>7. QED
  BY <1>3, <1>4, <1>5, <1>6 DEF PlaceOf

LEMMA ClosedPlace ==
  ASSUME KeptInv', NEW c \in DataChannels, ~channels[c].open, ~channels'[c].open, SentInv(c)'
  PROVE  PlaceOf(c)' /\ StreamOf(c)' = StreamOf(c)
<1>1. ~Loading(c)'
  BY DEF Loading, KeptInv, TransferInv
<1>2. ReadInv(c)' /\ LoadInv(c)'
  BY <1>1 DEF ReadInv, LoadInv
<1>3. QED
  BY <1>2 DEF PlaceOf, StreamOf

\* A file that a channel writes, or is about to, is open on no other.
LEMMA NotShared ==
  ASSUME KeptInv, NEW c \in opened, NEW d \in DataChannels, c # d, channels[d].open,
         OpOf(Asked(c)) = "file", Asked(c).name = channels[d].file
  PROVE  ~Writes(c, Asked(c))
<1>1. OpenInv(d)
  BY DEF KeptInv, ChannelInv
<1>2. /\ d \in opened /\ Asked(d) = channels[d].command
      /\ OpOf(Asked(d)) = "file" /\ Asked(d).name = channels[d].file
  BY <1>1 DEF OpenInv, Asked
<1>3. QED
  BY <1>2 DEF KeptInv, ShareInv

-----------------------------------------------------------------------------
(* Steps of the streams *)

LEMMA ShowsNothing ==
  ASSUME \A c \in DataChannels : StreamOf(c)' = StreamOf(c), fs' = fs, heard' = heard
  PROVE  UNCHANGED Promise!vars
BY DEF Promise!vars

LEMMA ShowsOne ==
  ASSUME NEW c \in DataChannels, NEW s, StreamOf(c)' = s,
         \A d \in DataChannels \ {c} : StreamOf(d)' = StreamOf(d)
  PROVE  [d \in DataChannels |-> StreamOf(d)]' = [[d \in DataChannels |-> StreamOf(d)] EXCEPT ![c] = s]
OBVIOUS

LEMMA ShowsWriting ==
  ASSUME NEW c \in DataChannels, \A d \in DataChannels \ {c} : StreamOf(d)' = StreamOf(d),
         heard' = heard, StreamOf(c).state = "closed",
         NEW n \in Names, NEW base \in {<<>>, fs[n]}, base # NoFile,
         fs' = [fs EXCEPT ![n] = base],
         StreamOf(c)' = [state |-> "writing", name |-> n, data |-> base, at |-> 0]
  PROVE  Promise!StartWriting(c)
BY ShowsOne DEF Promise!StartWriting

LEMMA ShowsReading ==
  ASSUME NEW c \in DataChannels, \A d \in DataChannels \ {c} : StreamOf(d)' = StreamOf(d),
         heard' = heard, fs' = fs, StreamOf(c).state = "closed",
         NEW n \in Names, fs[n] # NoFile,
         StreamOf(c)' = [state |-> "reading", name |-> n, data |-> <<>>, at |-> 0]
  PROVE  Promise!StartReading(c)
BY ShowsOne DEF Promise!StartReading

LEMMA ShowsPut ==
  ASSUME NEW c \in DataChannels, \A d \in DataChannels \ {c} : StreamOf(d)' = StreamOf(d),
         heard' = heard, fs' = fs, StreamOf(c).state = "writing", NEW b \in Bytes,
         StreamOf(c)' = [StreamOf(c) EXCEPT !.data = Append(StreamOf(c).data, b)]
  PROVE  Promise!Put(c)
BY ShowsOne DEF Promise!Put

LEMMA ShowsSkip ==
  ASSUME NEW c \in DataChannels, \A d \in DataChannels \ {c} : StreamOf(d)' = StreamOf(d),
         heard' = heard, fs' = fs, StreamOf(c).state = "reading", NEW at, at > StreamOf(c).at,
         NEW s, s = StreamOf(c), StreamOf(c)' = [s EXCEPT !.at = at],
         s = [state |-> s.state, name |-> s.name, data |-> s.data, at |-> s.at]
  PROVE  Promise!Skip(c)
BY ShowsOne DEF Promise!Skip

LEMMA ShowsGet ==
  ASSUME NEW c \in DataChannels, \A d \in DataChannels \ {c} : StreamOf(d)' = StreamOf(d),
         fs' = fs, heard \in [DataChannels -> Seq(Heard)],
         StreamOf(c).state = "reading", NEW content, content = fs[StreamOf(c).name],
         StreamOf(c).at + 1 <= Len(content),
         NEW eoi \in BOOLEAN, eoi <=> Len(heard[c]) + 1 = Len(content),
         content[StreamOf(c).at + 1] \in Bytes,
         heard' = [heard EXCEPT ![c] = Append(heard[c],
                     [byte |-> content[StreamOf(c).at + 1], eoi |-> eoi])],
         StreamOf(c)' = [StreamOf(c) EXCEPT !.at = StreamOf(c).at + 1]
  PROVE  Promise!Get(c)
<1>1. Len(heard'[c]) = Len(heard[c]) + 1
  <2>1. [byte |-> content[StreamOf(c).at + 1], eoi |-> eoi] \in Heard
    BY DEF Heard
  <2>2. QED
    BY <2>1, AppendProperties
<1>2. QED
  BY <1>1, ShowsOne DEF Promise!Get

LEMMA ShowsClosing ==
  ASSUME NEW c \in DataChannels, \A d \in DataChannels \ {c} : StreamOf(d)' = StreamOf(d),
         StreamOf(c).state # "closed", StreamOf(c)' = Promise!Idle,
         heard' = [d \in DataChannels |-> IF d = c THEN <<>> ELSE heard[d]],
         fs' = [n \in Names |-> IF StreamOf(c).state = "writing" /\ StreamOf(c).name = n
                                THEN StreamOf(c).data ELSE fs[n]]
  PROVE  Promise!Close({c})
BY DEF Promise!Close

LEMMA ShowsForgetting ==
  ASSUME NEW c \in DataChannels, \A d \in DataChannels : StreamOf(d)' = StreamOf(d),
         StreamOf(c).state = "closed", fs' = fs, heard' = [heard EXCEPT ![c] = <<>>]
  PROVE  Promise!Forget(c)
BY DEF Promise!Forget

-----------------------------------------------------------------------------
(* Each step of the drive is a step of its streams, or none *)

StreamStep == Promise!Next \/ UNCHANGED Promise!vars

LEMMA AnyStream ==
  ASSUME NEW c \in DataChannels,
         \/ Promise!StartWriting(c) \/ Promise!StartReading(c) \/ Promise!Put(c)
         \/ Promise!Get(c) \/ Promise!Skip(c) \/ Promise!Forget(c)
  PROVE  StreamStep
BY DEF StreamStep, Promise!Next

LEMMA NothingShows ==
  ASSUME TypeInv, KeptInv, PlaceInv,
         \A c \in DataChannels : channels'[c] = channels[c],
         heard' = heard, opened' = opened, fs' = fs,
         receivedCommand' = receivedCommand, sendIdx' = sendIdx, remaining' = remaining,
         busy' = "load" <=> busy = "load",
         \/ secondaryAddress' = secondaryAddress
         \/ ~receivedCommand /\ busy # "load"
  PROVE  PlaceInv' /\ StreamStep
<1>1. ASSUME NEW c \in DataChannels PROVE PlaceOf(c)' /\ StreamOf(c)' = StreamOf(c)
  <2>1. PlaceOf(c) /\ (Pending(c)' => Pending(c)) /\ (Loading(c)' <=> Loading(c))
    BY DEF PlaceInv, Pending, Loading
  <2>2. QED
    BY <2>1, PlaceStays
<1>2. QED
  BY <1>1, ShowsNothing DEF PlaceInv, StreamStep

LEMMA QuietShows ==
  ASSUME TypeInv, KeptInv, PlaceInv, ~Resets,
         \/ HostNext \/ Idle \/ Attention \/ ClockSeen \/ Released \/ ReceiveNothing
         \/ HandlePassive \/ TalkError \/ SendError \/ LeaveBrowse
         \/ Interrupted /\ busy # "load"
  PROVE  PlaceInv' /\ StreamStep
<1>1. /\ UNCHANGED dataVars /\ heard' = heard /\ opened' = opened /\ fs' = fs
      /\ secondaryAddress' = secondaryAddress
      /\ busy' = "load" <=> busy = "load"
  <2>1. CASE HostNext
    BY <2>1 DEF HostNext, HostAttention, HostClock, HostRelease, atnVars, fsVars
  <2>2. CASE Idle \/ Attention \/ ReceiveNothing \/ HandlePassive \/ TalkError
    BY <2>2 DEF Idle, Attention, ReceiveNothing, HandlePassive, TalkError, Talking, Updating,
                Handling, dataVars, fsVars, hostVars
  <2>3. CASE ClockSeen \/ Released \/ SendError \/ LeaveBrowse \/ (Interrupted /\ busy # "load")
    BY <2>3 DEF ClockSeen, Released, SendError, LeaveBrowse, Interrupted, fsVars, hostVars, atnVars
  <2>4. QED
    BY <2>1, <2>2, <2>3
<1>2. QED
  BY <1>1, NothingShows DEF dataVars

\* A talk that is broken off passes over what is left in the buffer.
LEMMA InterruptedShows ==
  ASSUME TypeInv, KeptInv, PlaceInv, Interrupted, busy = "load"
  PROVE  PlaceInv' /\ StreamStep
<1>1. PICK c \in DataChannels : c = secondaryAddress
  BY DEF TypeInv, Sequencing
<1>2. PICK ch : ch = channels[c]
  OBVIOUS
<1>3. /\ busy' = "none" /\ secondaryAddress' = secondaryAddress /\ receivedCommand' = receivedCommand
      /\ channels' = channels /\ heard' = heard /\ opened' = opened /\ fs' = fs
      /\ sendIdx' = sendIdx /\ remaining' = remaining
  BY DEF Interrupted, hostVars, dataVars, fsVars
<1>4. /\ ch.open /\ ~ch.writing /\ ch \in ChannelRecords /\ Loading(c) /\ PlaceOf(c)
      /\ sendIdx \in Nat /\ sendIdx < Len(ch.buf) /\ heard[c] \in Seq(Heard)
  BY <1>1, <1>2 DEF KeptInv, TransferInv, TypeInv, TypeOK, Sequencing, Channels, Loading, PlaceInv
<1>5. /\ Len(ch.buf) \in Nat /\ ch.pos \in Nat /\ Len(heard[c]) \in Nat
      /\ ReadPlace(c) = ch.pos - Len(ch.buf) + sendIdx /\ ReadPlace(c)' = ch.pos
      /\ Len(ch.buf) <= ch.pos
  BY <1>1, <1>2, <1>3, <1>4 DEF ChannelRecords, Contents, ReadPlace, PlaceOf, LoadInv
<1>6. ReadPlace(c) < ReadPlace(c)' /\ Len(heard[c]) <= ReadPlace(c)
  BY <1>2, <1>4, <1>5 DEF PlaceOf, ReadInv
<1>7. ASSUME NEW d \in DataChannels, d # c PROVE PlaceOf(d)' /\ StreamOf(d)' = StreamOf(d)
  <2>1. PlaceOf(d) /\ (Pending(d)' => Pending(d)) /\ ~Loading(d) /\ ~Loading(d)'
    BY <1>1, <1>3, <1>7 DEF PlaceInv, Pending, Loading
  <2>2. QED
    BY <1>3, <2>1, PlaceStays
<1>8. PlaceOf(c)'
  <2>1. ReadInv(c)'
    <3>1. Len(heard[c]) # ReadPlace(c)' /\ Len(heard[c]) <= ReadPlace(c)'
      BY <1>4, <1>5, <1>6
    <3>2. QED
      BY <1>2, <1>3, <1>4, <3>1 DEF ReadInv, PlaceOf, Exists
  <2>2. LoadInv(c)'
    BY <1>3 DEF LoadInv, Loading
  <2>3. SentInv(c)'
    BY <1>2, <1>3, <1>4 DEF SentInv, PlaceOf, Pending
  <2>4. QED
    BY <2>1, <2>2, <2>3 DEF PlaceOf
<1>9. StreamStep
  <2>1. PICK s : s = StreamOf(c)
    OBVIOUS
  <2>2. s = [state |-> "reading", name |-> ch.file, data |-> <<>>, at |-> ReadPlace(c)]
    BY <1>2, <1>4, <2>1 DEF StreamOf
  <2>3. StreamOf(c)' = [state |-> "reading", name |-> ch.file, data |-> <<>>, at |-> ReadPlace(c)']
    BY <1>2, <1>3, <1>4 DEF StreamOf
  <2>4. PICK at : at = ReadPlace(c)'
    OBVIOUS
  <2>5. at > s.at /\ StreamOf(c)' = [s EXCEPT !.at = at]
    BY <1>5, <1>6, <2>2, <2>3, <2>4
  <2>6. StreamOf(c).state = "reading" /\ at > StreamOf(c).at
        /\ s = [state |-> s.state, name |-> s.name, data |-> s.data, at |-> s.at]
    BY <2>1, <2>2, <2>5
  <2>7. \A d \in DataChannels \ {c} : StreamOf(d)' = StreamOf(d)
    BY <1>7
  <2>8. Promise!Skip(c)
    BY <1>3, <2>1, <2>5, <2>6, <2>7, ShowsSkip
  <2>9. QED
    BY <2>8, AnyStream
<1>10. QED
  BY <1>7, <1>8, <1>9 DEF PlaceInv

LEMMA ListenNameShows ==
  ASSUME TypeInv, KeptInv, PlaceInv, ListenName
  PROVE  PlaceInv' /\ StreamStep
<1>1. /\ channels' = [channels EXCEPT ![CMD] = Closed(channels[CMD])] /\ heard' = heard
      /\ opened' = opened /\ fs' = fs /\ receivedCommand' = receivedCommand
      /\ sendIdx' = sendIdx /\ remaining' = remaining /\ busy = "none" /\ busy' = "listen"
      /\ secondaryAddress' = secondaryAddress
  BY DEF ListenName, Handling, Updating, hostVars, fsVars
<1>2. \A c \in DataChannels : channels'[c] = channels[c]
  BY <1>1, IecAssumption DEF TypeInv, TypeOK, Channels, CMD
<1>3. QED
  BY <1>1, <1>2, NothingShows

\* When the drive gives up its channels, none is in use.
LEMMA ResetShows ==
  ASSUME TypeInv, KeptInv, PlaceInv, KeptInv', DeviceReset \/ MountFails \/ EnterBrowse
  PROVE  PlaceInv' /\ StreamStep
<1>1. /\ channels' = AllClosed /\ heard' = heard /\ opened' = {} /\ fs' = fs
      /\ \A c \in DataChannels : ~channels[c].open
  BY ResetStoresNothing DEF DeviceReset, MountFails, EnterBrowse, ResetState, hostVars,
                            KeptInv, ImageInv
<1>2. ASSUME NEW c \in DataChannels PROVE PlaceOf(c)' /\ StreamOf(c)' = StreamOf(c)
  <2>1. channels'[c] = Closed(channels[c]) /\ channels[c] \in ChannelRecords
    BY <1>1, IecAssumption DEF AllClosed, Channels, CMD, TypeInv, TypeOK
  <2>2. ~channels'[c].open /\ channels'[c].sent = 0
    BY <2>1, ChannelDomain DEF Closed, ChannelFields
  <2>3. SentInv(c)'
    BY <1>1, <2>2 DEF SentInv
  <2>4. QED
    BY <1>1, <2>2, <2>3, ClosedPlace
<1>3. QED
  BY <1>1, <1>2, ShowsNothing DEF PlaceInv, StreamStep

LEMMA CloseShows ==
  ASSUME TypeInv, KeptInv, NothingLost, PlaceInv, KeptInv', NEW code \in HostCodes, ReceiveCode(code),
         code.kind = "close"
  PROVE  PlaceInv' /\ StreamStep
<1>1. /\ code.sa \in Channels /\ fs' = Synced(fs, channels[code.sa])
      /\ channels' = [channels EXCEPT ![code.sa] = Closed(channels[code.sa])]
      /\ opened' = opened \ {code.sa} /\ atnSequence = "RECEIVE" /\ busy = "none"
      /\ heard' = [d \in DataChannels |-> IF d = code.sa THEN <<>> ELSE heard[d]]
      /\ receivedCommand' = receivedCommand /\ busy' = "none"
  BY DEF ReceiveCode, LegalCode, Updating
<1>2. /\ channels \in [Channels -> ChannelRecords] /\ fs \in FileSystems
      /\ heard \in [DataChannels -> Seq(Heard)] /\ opened \subseteq DataChannels
      /\ DataChannels \subseteq Channels /\ CMD \notin DataChannels
  BY IecAssumption DEF TypeInv, TypeOK, Channels, CMD
<1>3. ~receivedCommand /\ \A d : ~Pending(d) /\ ~Pending(d)' /\ ~Loading(d) /\ ~Loading(d)'
  BY <1>1 DEF TypeInv, Sequencing, Transfers, Pending, Loading
<1>4. ASSUME NEW d \in DataChannels, d # code.sa
      PROVE  PlaceOf(d)' /\ StreamOf(d)' = StreamOf(d)
  <2>1. /\ channels'[d] = channels[d] /\ heard'[d] = heard[d] /\ PlaceOf(d)
        /\ d \in opened' <=> d \in opened
    BY <1>1, <1>2, <1>4 DEF PlaceInv
  <2>2. channels[d].open /\ ~channels[d].writing => fs'[channels[d].file] = fs[channels[d].file]
    <3> SUFFICES ASSUME channels[d].open, ~channels[d].writing, channels[code.sa].open,
                        channels[code.sa].writing, Exists(fs, channels[code.sa].file)
                 PROVE  fs'[channels[d].file] = fs[channels[d].file]
      BY <1>1 DEF Synced
    <3>1. code.sa \in DataChannels
      BY <1>1 DEF KeptInv, Channels
    <3>2. OpenInv(code.sa)
      BY <3>1 DEF KeptInv, ChannelInv
    <3>3. /\ code.sa \in opened /\ Asked(code.sa) = channels[code.sa].command
          /\ OpOf(Asked(code.sa)) = "file" /\ Asked(code.sa).name = channels[code.sa].file
          /\ Writes(code.sa, Asked(code.sa))
      BY <1>3, <3>2 DEF OpenInv, Asked
    <3>4. channels[code.sa].file # channels[d].file
      BY <1>4, <3>3, NotShared
    <3>5. Exists(fs, channels[d].file)
      BY <2>1 DEF PlaceOf, ReadInv
    <3>6. QED
      BY <1>1, <1>2, <3>4, <3>5 DEF Synced, Exists, FileSystems
  <2>3. QED
    BY <1>3, <2>1, <2>2, PlaceStays
<1>5. CASE code.sa = CMD
  <2>1. fs' = fs /\ heard' = heard
    BY <1>1, <1>2, <1>5 DEF KeptInv, Synced
  <2>2. \A d \in DataChannels : d # code.sa
    BY <1>2, <1>5
  <2>3. QED
    BY <1>4, <2>1, <2>2, ShowsNothing DEF PlaceInv, StreamStep
<1>6. CASE code.sa # CMD
  <2>1. PICK c \in DataChannels : c = code.sa
    BY <1>1, <1>6 DEF Channels
  <2>2. PICK ch : ch = channels[c]
    OBVIOUS
  <2>3. /\ channels'[c] = Closed(ch) /\ ch \in ChannelRecords /\ heard'[c] = <<>>
        /\ c \notin opened'
    BY <1>1, <1>2, <2>1, <2>2
  <2>4. ~channels'[c].open /\ channels'[c].sent = 0
    BY <2>3, ChannelDomain DEF Closed, ChannelFields
  <2>5. SentInv(c)'
    BY <2>3, <2>4 DEF SentInv
  <2>6. PlaceOf(c)'
    <3>1. ReadInv(c)' /\ LoadInv(c)'
      BY <1>3, <2>4 DEF ReadInv, LoadInv
    <3>2. QED
      BY <2>5, <3>1 DEF PlaceOf
  <2>7. PlaceInv' /\ \A d \in DataChannels \ {c} : StreamOf(d)' = StreamOf(d)
    BY <1>4, <2>1, <2>6 DEF PlaceInv
  <2>8. CASE ~ch.open
    <3>1. StreamOf(c).state = "closed" /\ StreamOf(c)' = StreamOf(c) /\ fs' = fs
      BY <1>1, <2>1, <2>2, <2>4, <2>8 DEF StreamOf, Synced
    <3>2. heard' = [heard EXCEPT ![c] = <<>>]
      BY <1>1, <1>2, <2>1
    <3>3. Promise!Forget(c)
      BY <2>7, <3>1, <3>2, ShowsForgetting
    <3>4. QED
      BY <2>7, <3>3, AnyStream
  <2>9. CASE ch.open
    <3>1. /\ StreamOf(c)' = Promise!Idle /\ StreamOf(c).state # "closed"
          /\ StreamOf(c).state = "writing" <=> ch.writing
          /\ StreamOf(c).name = ch.file
          /\ ch.writing => StreamOf(c).data = ch.fil \o ch.buf
      BY <2>2, <2>4, <2>9 DEF StreamOf, Promise!Idle
    <3>2. ch.writing => ch.file \in Names \union {NoName}
      BY <2>3 DEF ChannelRecords
    <3>3. fs' = [n \in Names |-> IF StreamOf(c).state = "writing" /\ StreamOf(c).name = n
                                 THEN StreamOf(c).data ELSE fs[n]]
      <4>1. CASE ch.writing /\ Exists(fs, ch.file)
        <5>1. fs' = [fs EXCEPT ![ch.file] = ch.fil \o ch.buf]
          BY <1>1, <2>1, <2>2, <2>9, <4>1 DEF Synced
        <5>2. QED
          BY <1>2, <3>1, <4>1, <5>1 DEF FileSystems
      <4>2. CASE ~ch.writing
        BY <1>1, <1>2, <2>1, <2>2, <3>1, <4>2 DEF Synced, FileSystems
      <4>3. CASE ch.writing /\ ~Exists(fs, ch.file)
        BY <2>1, <2>2, <2>9, <4>3 DEF NothingLost
      <4>4. QED
        BY <4>1, <4>2, <4>3
    <3>4. Promise!Close({c})
      BY <1>1, <2>1, <2>7, <3>1, <3>3, ShowsClosing
    <3>5. QED
      BY <2>7, <3>4 DEF StreamStep, Promise!Next
  <2>10. QED
    BY <2>8, <2>9
<1>7. QED
  BY <1>5, <1>6

LEMMA ReceiveShows ==
  ASSUME TypeInv, KeptInv, NothingLost, PlaceInv, KeptInv', NEW code \in HostCodes, ReceiveCode(code)
  PROVE  PlaceInv' /\ StreamStep
<1>1. CASE code.kind # "close"
  <2>1. /\ channels' = channels /\ heard' = heard /\ opened' = opened /\ fs' = fs
        /\ receivedCommand' = receivedCommand /\ atnSequence = "RECEIVE"
        /\ sendIdx' = sendIdx /\ remaining' = remaining /\ busy = "none" /\ busy' # "load"
    BY <1>1 DEF ReceiveCode, Updating
  <2>2. ~receivedCommand
    BY <2>1 DEF TypeInv, Sequencing, Transfers
  <2>3. QED
    BY <2>1, <2>2, NothingShows
<1>2. CASE code.kind = "close"
  BY <1>2, CloseShows
<1>3. QED
  BY <1>1, <1>2

LEMMA RequestShows ==
  ASSUME TypeInv, KeptInv, PlaceInv, KeptInv', NEW r \in Requests, ListenRequest(r)
  PROVE  PlaceInv' /\ StreamStep
<1>1. /\ busy = "listen" /\ ~receivedCommand /\ busy' = busy
      /\ secondaryAddress' = secondaryAddress
      /\ channels' = channels /\ fs' = fs /\ sendIdx' = sendIdx /\ remaining' = remaining
      /\ secondaryAddress = CMD => opened' = opened /\ heard' = heard
      /\ secondaryAddress # CMD =>
           /\ opened' = opened \union {secondaryAddress}
           /\ heard' = [heard EXCEPT ![secondaryAddress] = <<>>]
  BY DEF ListenRequest, atnVars, fsVars
<1>2. /\ heard \in [DataChannels -> Seq(Heard)] /\ CMD \notin DataChannels
      /\ secondaryAddress \in Channels
  BY <1>1, IecAssumption DEF TypeInv, TypeOK, Sequencing, Transfers, CMD
<1>3. ASSUME NEW d \in DataChannels, d # secondaryAddress
      PROVE  PlaceOf(d)' /\ StreamOf(d)' = StreamOf(d)
  <2>1. /\ PlaceOf(d) /\ ~Pending(d)' /\ ~Loading(d) /\ ~Loading(d)'
        /\ heard'[d] = heard[d] /\ (d \in opened' <=> d \in opened)
    BY <1>1, <1>2, <1>3 DEF PlaceInv, Pending, Loading
  <2>2. QED
    BY <1>1, <2>1, PlaceStays
<1>4. CASE secondaryAddress = CMD
  BY <1>1, <1>2, <1>3, <1>4, ShowsNothing DEF PlaceInv, StreamStep
<1>5. CASE secondaryAddress # CMD
  <2>1. PICK c \in DataChannels : c = secondaryAddress
    BY <1>2, <1>5 DEF Channels
  <2>2. commandCode.kind = "open" /\ commandCode.kind # "data"
    BY <1>1, <1>5 DEF KeptInv, TransferInv
  <2>3. c \notin opened
    BY <1>1, <2>1, <2>2 DEF KeptInv, HandleInv, TypeInv, Sequencing, Transfers
  <2>4. ~channels[c].open /\ channels[c].sent = 0
    <3>1. OpenInv(c) /\ SentInv(c)
      BY DEF KeptInv, ChannelInv, PlaceInv, PlaceOf
    <3>2. QED
      BY <2>3, <3>1 DEF OpenInv, SentInv
  <2>5. heard'[c] = <<>>
    BY <1>1, <1>2, <1>5, <2>1
  <2>6. PlaceOf(c)' /\ StreamOf(c)' = StreamOf(c)
    <3>1. SentInv(c)'
      BY <1>1, <2>4, <2>5 DEF SentInv
    <3>2. QED
      BY <1>1, <2>4, <3>1, ClosedPlace
  <2>7. StreamOf(c).state = "closed"
    BY <2>4 DEF StreamOf
  <2>8. \A d \in DataChannels : PlaceOf(d)' /\ StreamOf(d)' = StreamOf(d)
    BY <1>3, <2>1, <2>6
  <2>9. heard' = [heard EXCEPT ![c] = <<>>]
    BY <1>1, <1>5, <2>1
  <2>10. Promise!Forget(c)
    BY <1>1, <2>7, <2>8, <2>9, ShowsForgetting
  <2>11. QED
    BY <2>8, <2>10, AnyStream DEF PlaceInv
<1>6. QED
  BY <1>4, <1>5

LEMMA CompleteShows ==
  ASSUME TypeInv, TypeInv', KeptInv, NothingLost, PlaceInv, KeptInv', Complete
  PROVE  PlaceInv' /\ StreamStep
<1>1. /\ busy = "none" /\ busy' = busy /\ secondaryAddress' = secondaryAddress
      /\ heard' = heard /\ opened' = opened /\ sendIdx' = sendIdx /\ remaining' = remaining
      /\ ~receivedCommand'
  BY DEF Complete, Updating, hostVars
<1>2. \A d : ~Pending(d)' /\ ~Loading(d) /\ ~Loading(d)'
  BY <1>1 DEF Pending, Loading
<1>3. /\ channels \in [Channels -> ChannelRecords] /\ fs \in FileSystems /\ fs' \in FileSystems
      /\ DataChannels \subseteq Channels /\ CMD \notin DataChannels
  BY IecAssumption DEF TypeInv, TypeOK, Channels, CMD
<1>4. ASSUME NEW d \in DataChannels, channels[d].open, Exists(fs, channels[d].file)
      PROVE  fs'[channels[d].file] = fs[channels[d].file]
  <2>1. CASE receivedCommand /\ secondaryAddress = CMD
    <3> DEFINE o == ProcessCommand(cmdBuffer, fs, Blank)
    <3>1. fs' = o.fs /\ Pending(CMD)
      BY <2>1 DEF Complete, Pending
    <3>2. cmdBuffer \in RequestRecords /\ Blank \in Contents
      BY <2>1, IecAssumption DEF TypeInv, Sequencing
    <3>3. \A n \in Names \ NamesOf(cmdBuffer) : o.fs[n] = fs[n]
      BY <1>3, <3>2, CommandTouches
    <3> HIDE DEF o
    <3>4. InUse(d, channels[d].file)
      BY <1>4 DEF KeptInv, ChannelInv, OpenInv, InUse
    <3>5. channels[d].file \notin NamesOf(cmdBuffer)
      BY <3>1, <3>4 DEF KeptInv, CommandInv
    <3>6. QED
      BY <1>4, <3>1, <3>3, <3>5 DEF Exists
  <2>2. CASE ~(receivedCommand /\ secondaryAddress = CMD)
    BY <2>2 DEF Complete
  <2>3. QED
    BY <2>1, <2>2
<1>5. ASSUME NEW d \in DataChannels PROVE PlaceOf(d)' /\ StreamOf(d)' = StreamOf(d)
  <2>1. PlaceOf(d) /\ OpenInv(d)
    BY DEF PlaceInv, KeptInv, ChannelInv
  <2>2. CASE Pending(d)
    <3>1. ~channels[d].open /\ channels[d].sent = 0 /\ (d \in opened => heard[d] = <<>>)
      BY <2>1, <2>2 DEF OpenInv, PlaceOf, SentInv
    <3>2. PICK new : new = [channels[d] EXCEPT !.command = cmdBuffer]
      OBVIOUS
    <3>3. channels' = [channels EXCEPT ![d] = new]
      BY <1>3, <2>2, <3>2, Zenon DEF Complete, Pending
    <3>4. DOMAIN channels[d] = ChannelFields
      BY <1>3, ChannelDomain
    <3>5. new.open = channels[d].open /\ new.sent = channels[d].sent
      BY <3>2, <3>4 DEF ChannelFields
    <3>6. channels'[d] = new
      BY <1>3, <3>3
    <3>7. SentInv(d)'
      BY <1>1, <3>1, <3>5, <3>6 DEF SentInv
    <3>8. QED
      BY <3>1, <3>5, <3>6, <3>7, ClosedPlace
  <2>3. CASE ~Pending(d)
    <3>1. channels'[d] = channels[d]
      <4>1. CASE receivedCommand /\ secondaryAddress # CMD
        <5>1. secondaryAddress # d
          BY <2>3, <4>1 DEF Pending
        <5>2. PICK new : new = [channels[secondaryAddress] EXCEPT !.command = cmdBuffer]
          OBVIOUS
        <5>3. channels' = [channels EXCEPT ![secondaryAddress] = new]
          BY <4>1, <5>2, Zenon DEF Complete
        <5>4. QED
          BY <1>3, <5>1, <5>3
      <4>2. CASE ~(receivedCommand /\ secondaryAddress # CMD)
        BY <4>2 DEF Complete
      <4>3. QED
        BY <4>1, <4>2
    <3>2. channels[d].open /\ ~channels[d].writing =>
            fs'[channels[d].file] = fs[channels[d].file]
      BY <1>4, <2>1 DEF PlaceOf, ReadInv
    <3>3. QED
      BY <1>1, <1>2, <2>1, <3>1, <3>2, PlaceStays
  <2>4. QED
    BY <2>2, <2>3
<1>6. Promise!Manage
  <2>1. ASSUME NEW d \in DataChannels, StreamOf(d).state # "closed"
        PROVE  fs'[StreamOf(d).name] = fs[StreamOf(d).name]
    <3>1. channels[d].open /\ StreamOf(d).name = channels[d].file
      BY <2>1 DEF StreamOf
    <3>2. Exists(fs, channels[d].file)
      BY <3>1 DEF NothingLost, PlaceInv, PlaceOf, ReadInv
    <3>3. QED
      BY <1>4, <3>1, <3>2
  <2>2. fs' \in [Names -> Seq(Bytes) \union {NoFile}]
    BY <1>3 DEF FileSystems, Contents
  <2>3. QED
    BY <1>1, <1>5, <2>1, <2>2 DEF Promise!Manage
<1>7. QED
  BY <1>5, <1>6 DEF PlaceInv, StreamStep, Promise!Next

-----------------------------------------------------------------------------
(* Bytes written and read *)

LEMMA SaveShows ==
  ASSUME TypeInv, KeptInv, PlaceInv, NEW b \in Bytes, SaveByte(b)
  PROVE  PlaceInv' /\ StreamStep
<1>1. PICK c \in DataChannels : c = secondaryAddress
  BY DEF SaveByte, TypeInv, Sequencing
<1>2. PICK ch : ch = channels[c]
  OBVIOUS
<1>3. /\ busy = "save" /\ busy' = busy /\ secondaryAddress' = secondaryAddress
      /\ channels' = [channels EXCEPT ![c] = Buffered(ch, b)] /\ heard' = heard
      /\ opened' = opened /\ fs' = fs /\ receivedCommand' = receivedCommand
  BY <1>1, <1>2 DEF SaveByte, atnVars, fsVars
<1>4. /\ channels \in [Channels -> ChannelRecords] /\ DataChannels \subseteq Channels
      /\ ch \in ChannelRecords /\ ch.open /\ ch.writing
  BY <1>1, <1>2, <1>3 DEF TypeInv, TypeOK, Channels, KeptInv, TransferInv
<1>5. PICK new : new = Buffered(ch, b)
  OBVIOUS
<1>6. /\ new.fil \o new.buf = Append(ch.fil \o ch.buf, b)
      /\ new.open /\ new.writing /\ new.file = ch.file
  BY <1>4, <1>5, BufferedHolds
<1>7. new.sent = ch.sent
  BY <1>4, <1>5, ChannelDomain DEF Buffered, ChannelFields
<1>8. channels'[c] = new /\ \A d \in DataChannels \ {c} : channels'[d] = channels[d]
  BY <1>3, <1>4, <1>5
<1>9. ASSUME NEW d \in DataChannels, d # c PROVE PlaceOf(d)' /\ StreamOf(d)' = StreamOf(d)
  <2>1. PlaceOf(d) /\ (Pending(d)' => Pending(d)) /\ ~Loading(d) /\ ~Loading(d)'
    BY <1>3 DEF PlaceInv, Pending, Loading
  <2>2. QED
    BY <1>3, <1>8, <1>9, <2>1, PlaceStays
<1>10. PlaceOf(c)'
  <2>1. SentInv(c)
    BY DEF PlaceInv, PlaceOf
  <2>2. SentInv(c)'
    BY <1>2, <1>3, <1>4, <1>6, <1>7, <1>8, <2>1 DEF SentInv
  <2>3. ReadInv(c)' /\ LoadInv(c)'
    BY <1>3, <1>6, <1>8 DEF ReadInv, LoadInv, Loading
  <2>4. QED
    BY <2>2, <2>3 DEF PlaceOf
<1>11. /\ StreamOf(c) = [state |-> "writing", name |-> ch.file, data |-> ch.fil \o ch.buf, at |-> 0]
       /\ StreamOf(c)' = [state |-> "writing", name |-> ch.file,
                          data |-> Append(ch.fil \o ch.buf, b), at |-> 0]
  BY <1>2, <1>4, <1>6, <1>8 DEF StreamOf
<1>12. /\ StreamOf(c).state = "writing"
       /\ StreamOf(c)' = [StreamOf(c) EXCEPT !.data = Append(StreamOf(c).data, b)]
  <2>1. PICK data : data = ch.fil \o ch.buf
    OBVIOUS
  <2>2. PICK more : more = Append(data, b)
    OBVIOUS
  <2>3. /\ StreamOf(c) = [state |-> "writing", name |-> ch.file, data |-> data, at |-> 0]
        /\ StreamOf(c)' = [state |-> "writing", name |-> ch.file, data |-> more, at |-> 0]
    BY <1>11, <2>1, <2>2
  <2>4. PICK s : s = StreamOf(c)
    OBVIOUS
  <2>5. s = [state |-> "writing", name |-> ch.file, data |-> data, at |-> 0]
    BY <2>3, <2>4
  <2>6. s.state = "writing" /\ s.data = data
    BY <2>5
  <2>7. [s EXCEPT !.data = more] = [state |-> "writing", name |-> ch.file, data |-> more, at |-> 0]
    BY <2>5
  <2>8. more = Append(s.data, b)
    BY <2>2, <2>6
  <2>9. QED
    BY <2>3, <2>4, <2>6, <2>7, <2>8
<1>13. \A d \in DataChannels \ {c} : StreamOf(d)' = StreamOf(d)
  BY <1>9
<1>14. Promise!Put(c)
  BY <1>3, <1>12, <1>13, ShowsPut
<1>15. QED
  BY <1>9, <1>10, <1>14, AnyStream DEF PlaceInv

\* The elements of a sequence after the first m, up to the nth.
LEMMA PartOf ==
  ASSUME NEW S, NEW s \in Seq(S), NEW m \in Nat, NEW n \in Nat, m <= n, n <= Len(s)
  PROVE  /\ SubSeq(s, m + 1, n) \in Seq(S)
         /\ Len(SubSeq(s, m + 1, n)) = n - m
         /\ \A i \in 1 .. n - m : SubSeq(s, m + 1, n)[i] = s[m + i]
<1> DEFINE part == SubSeq(s, m + 1, n)
<1>1. /\ m + 1 \in Int /\ n \in Int /\ n - (m + 1) + 1 = n - m
      /\ (IF m + 1 <= n THEN n - (m + 1) + 1 ELSE 0) = n - m
      /\ \A i \in Int : (m + 1) + i - 1 = m + i
  OBVIOUS
<1>2. \A i \in (m + 1) .. n : s[i] \in S
  OBVIOUS
<1>3. /\ part \in Seq(S)
      /\ Len(part) = IF m + 1 <= n THEN n - (m + 1) + 1 ELSE 0
      /\ \A i \in 1 .. n - (m + 1) + 1 : part[i] = s[(m + 1) + i - 1]
  BY <1>1, <1>2, SubSeqProperties
<1> HIDE DEF part
<1>4. Len(part) = n - m /\ \A i \in 1 .. n - m : part[i] = s[m + i]
  BY <1>1, <1>3
<1>5. QED
  BY <1>3, <1>4 DEF part

\* What f_read returns of the file of a channel that reads.
LEMMA BlockIs ==
  ASSUME NEW ch \in ChannelRecords, NEW f \in FileSystems, ch.open, ~ch.writing,
         Exists(f, ch.file), ch.pos <= Len(f[ch.file]), NEW block, block = NextBlock(ch, f)
  PROVE  /\ block \in Seq(Bytes) /\ f[ch.file] \in Seq(Bytes)
         /\ ch.pos + Len(block) <= Len(f[ch.file])
         /\ \A i \in 1 .. Len(block) : block[i] = f[ch.file][ch.pos + i]
         /\ block = <<>> => ch.pos = Len(f[ch.file])
<1> DEFINE s == f[ch.file]
           last == IF ch.pos + BufSize < Len(s) THEN ch.pos + BufSize ELSE Len(s)
<1>1. s \in Seq(Bytes) /\ ch.pos \in Nat /\ BufSize \in Nat \ {0}
  BY IecAssumption DEF Exists, FileSystems, Contents, ChannelRecords
<1>2. Len(s) \in Nat /\ last \in Nat /\ last <= Len(s) /\ ch.pos <= last
      /\ (ch.pos = last => ch.pos = Len(s))
  BY <1>1
<1>3. block = SubSeq(s, ch.pos + 1, last)
  BY DEF NextBlock
<1> HIDE DEF last
<1>4. /\ block \in Seq(Bytes)
      /\ Len(block) = last - ch.pos
      /\ \A i \in 1 .. Len(block) : block[i] = s[ch.pos + i]
  <2>1. /\ SubSeq(s, ch.pos + 1, last) \in Seq(Bytes)
        /\ Len(SubSeq(s, ch.pos + 1, last)) = last - ch.pos
        /\ \A i \in 1 .. last - ch.pos : SubSeq(s, ch.pos + 1, last)[i] = s[ch.pos + i]
    <3>1. PICK m : m = ch.pos
      OBVIOUS
    <3> HIDE DEF s
    <3>2. /\ s \in Seq(Bytes) /\ m \in Nat /\ last \in Nat
          /\ m <= last /\ last <= Len(s)
      BY <1>1, <1>2, <3>1
    <3>3. /\ SubSeq(s, m + 1, last) \in Seq(Bytes)
          /\ Len(SubSeq(s, m + 1, last)) = last - m
          /\ \A i \in 1 .. last - m : SubSeq(s, m + 1, last)[i] = s[m + i]
      BY <3>2, PartOf, Zenon
    <3> QED BY <3>1, <3>3
  <2>2. QED
    BY <1>3, <2>1
<1>5. block = <<>> => Len(block) = 0
  OBVIOUS
<1>6. QED
  BY <1>1, <1>2, <1>4, <1>5

\* A talk begins where reading stands.
LEMMA TalkBegins ==
  ASSUME TypeInv, NEW c \in DataChannels, c = secondaryAddress, secondaryAddress' = secondaryAddress,
         NEW ch \in ChannelRecords, ch.open, ~ch.writing, fs' = fs, Exists(fs, ch.file),
         ch.pos <= Len(fs[ch.file]), heard' = heard, Len(heard[c]) <= ch.pos,
         Len(heard[c]) = ch.pos => ch.pos \in {0, Len(fs[ch.file])},
         ch.sent = Len(heard[c]), NEW e, Load(c, ch, fs, e)
  PROVE  /\ PlaceOf(c)'
         /\ StreamOf(c)' = [state |-> "reading", name |-> ch.file, data |-> <<>>, at |-> ch.pos]
<1>1. PICK block : block = NextBlock(ch, fs)
  OBVIOUS
<1>2. /\ channels \in [Channels -> ChannelRecords] /\ c \in Channels /\ fs \in FileSystems
      /\ heard[c] \in Seq(Heard) /\ ch.pos \in Nat /\ DOMAIN ch = ChannelFields
  BY ChannelDomain DEF TypeInv, TypeOK, Channels, ChannelRecords
<1>3. /\ block \in Seq(Bytes) /\ fs[ch.file] \in Seq(Bytes)
      /\ ch.pos + Len(block) <= Len(fs[ch.file])
      /\ \A i \in 1 .. Len(block) : block[i] = fs[ch.file][ch.pos + i]
      /\ block = <<>> => ch.pos = Len(fs[ch.file])
  BY <1>1, <1>2, BlockIs
<1>4. /\ ch.file # NoName /\ FileSize(ch, fs) = Len(fs[ch.file])
      /\ Len(block) \in Nat /\ Len(fs[ch.file]) \in Nat /\ Len(heard[c]) \in Nat
  BY <1>2, <1>3, NamesAssumption DEF Exists, FileSize
<1>5. CASE block = <<>>
  <2>1. channels' = [channels EXCEPT ![c] = ch] /\ busy' = "none"
    BY <1>1, <1>5 DEF Load
  <2>2. channels'[c] = ch /\ ~Loading(c)' /\ ReadPlace(c)' = ch.pos
    BY <1>2, <2>1 DEF Loading, ReadPlace
  <2>3. ReadInv(c)' /\ LoadInv(c)' /\ SentInv(c)'
    BY <2>2 DEF ReadInv, LoadInv, SentInv
  <2>4. QED
    BY <2>2, <2>3 DEF PlaceOf, StreamOf
<1>6. CASE block # <<>>
  <2>1. PICK new : new = [ch EXCEPT !.buf = block, !.pos = ch.pos + Len(block)]
    OBVIOUS
  <2>2. /\ channels' = [channels EXCEPT ![c] = new] /\ busy' = "load" /\ sendIdx' = 0
        /\ remaining' = Len(fs[ch.file]) - Len(block)
    BY <1>1, <1>4, <1>6, <2>1 DEF Load
  <2>3. /\ channels'[c] = new /\ new.open /\ ~new.writing /\ new.file = ch.file
        /\ new.buf = block /\ new.pos = ch.pos + Len(block) /\ new.sent = ch.sent
    BY <1>2, <2>1, <2>2 DEF ChannelFields
  <2>4. Loading(c)' /\ ReadPlace(c)' = ch.pos
    BY <1>2, <1>4, <2>2, <2>3 DEF Loading, ReadPlace
  <2>5. ReadInv(c)'
    BY <1>3, <2>3, <2>4 DEF ReadInv
  <2>6. LoadInv(c)'
    <3>1. Len(new.buf) <= new.pos
      BY <1>2, <1>4, <2>3
    <3>2. \A i \in 1 .. Len(new.buf) : new.buf[i] = fs[new.file][new.pos - Len(new.buf) + i]
      <4>1. new.pos - Len(new.buf) = ch.pos
        BY <1>2, <1>4, <2>3
      <4>2. QED
        BY <1>3, <2>3, <4>1
    <3>3. Len(heard[c]) = ch.pos => remaining' = Len(fs[new.file]) - new.pos
      <4>1. Len(block) # 0
        BY <1>3, <1>6, EmptySeq
      <4>2. ASSUME Len(heard[c]) = ch.pos
            PROVE  remaining' = Len(fs[ch.file]) - new.pos
        <5>1. ch.pos = 0
          BY <1>2, <1>3, <1>4, <4>1, <4>2
        <5>2. QED
          BY <1>4, <2>2, <2>3, <5>1
      <4>3. QED
        BY <2>3, <4>2
    <3>4. QED
      BY <2>3, <2>4, <3>1, <3>2, <3>3 DEF LoadInv
  <2>7. SentInv(c)'
    BY <2>3 DEF SentInv
  <2>8. QED
    BY <2>3, <2>4, <2>5, <2>6, <2>7 DEF PlaceOf, StreamOf
<1>7. QED
  BY <1>5, <1>6

\* The next byte of the buffer, EOI with the one that completes what was heard.
LEMMA LoadByteShows ==
  ASSUME TypeInv, KeptInv, PlaceInv, LoadByte
  PROVE  PlaceInv' /\ StreamStep
<1>1. PICK c \in DataChannels : c = secondaryAddress
  BY DEF LoadByte, TypeInv, Sequencing
<1>2. PICK ch : ch = channels[c]
  OBVIOUS
<1>3. PICK content : content = fs[ch.file]
  OBVIOUS
<1>4. PICK at : at = ReadPlace(c)
  OBVIOUS
<1>5. PICK n : n = Len(heard[c])
  OBVIOUS
<1>6. PICK next : next = NextBlock(ch, fs)
  OBVIOUS
<1>7. PICK eoi : eoi = LastByte(ch)
  OBVIOUS
<1>8. PICK sent : sent = [ch EXCEPT !.sent = ch.sent + 1]
  OBVIOUS
<1>9. PICK read : read = [sent EXCEPT !.buf = next, !.pos = sent.pos + Len(next)]
  OBVIOUS
<1>10. /\ busy = "load" /\ opened' = opened /\ fs' = fs
       /\ secondaryAddress' = secondaryAddress /\ receivedCommand' = receivedCommand
       /\ heard' = [heard EXCEPT ![c] =
                      Append(heard[c], [byte |-> ch.buf[sendIdx + 1], eoi |-> eoi])]
       /\ IF sendIdx + 1 < Len(ch.buf)
          THEN /\ sendIdx' = sendIdx + 1 /\ channels' = [channels EXCEPT ![c] = sent]
               /\ remaining' = remaining /\ busy' = busy
          ELSE /\ sendIdx' = 0 /\ channels' = [channels EXCEPT ![c] = read]
               /\ remaining' = remaining - Len(next)
               /\ busy' = IF next = <<>> THEN "none" ELSE busy
  BY <1>1, <1>2, <1>6, <1>7, <1>8, <1>9 DEF LoadByte, fsVars
<1>11. /\ ch.open /\ ~ch.writing /\ ch \in ChannelRecords /\ Loading(c) /\ PlaceOf(c)
       /\ channels \in [Channels -> ChannelRecords] /\ c \in Channels /\ fs \in FileSystems
       /\ sendIdx \in Nat /\ sendIdx < Len(ch.buf) /\ remaining \in Int
       /\ heard \in [DataChannels -> Seq(Heard)] /\ heard[c] \in Seq(Heard)
  BY <1>1, <1>2, <1>10 DEF KeptInv, TransferInv, TypeInv, TypeOK, Sequencing, Channels, Loading,
                           PlaceInv
<1>12. /\ Exists(fs, ch.file) /\ ch.pos <= Len(content) /\ n <= at
       /\ Len(ch.buf) <= ch.pos
       /\ \A i \in 1 .. Len(ch.buf) : ch.buf[i] = content[ch.pos - Len(ch.buf) + i]
       /\ n = at => remaining = Len(content) - ch.pos
       /\ ch.sent = n /\ at = ch.pos - Len(ch.buf) + sendIdx
  BY <1>1, <1>2, <1>3, <1>4, <1>5, <1>10, <1>11 DEF PlaceOf, ReadInv, LoadInv, SentInv, ReadPlace
<1>13. /\ n \in Nat /\ Len(ch.buf) \in Nat /\ ch.pos \in Nat /\ ch.buf \in Seq(Bytes)
       /\ content \in Seq(Bytes) /\ Len(content) \in Nat
  BY <1>3, <1>5, <1>11, <1>12 DEF ChannelRecords, Contents, FileSystems, Exists
<1>14. /\ next \in Seq(Bytes) /\ ch.pos + Len(next) <= Len(content)
       /\ \A i \in 1 .. Len(next) : next[i] = content[ch.pos + i]
       /\ next = <<>> => ch.pos = Len(content)
  BY <1>3, <1>6, <1>11, <1>12, BlockIs
<1>15. /\ at \in Nat /\ at + 1 <= Len(content) /\ at + 1 \in 1 .. Len(content)
       /\ ch.buf[sendIdx + 1] = content[at + 1] /\ content[at + 1] \in Bytes
       /\ (n = at => remaining = Len(content) - ch.pos)
       /\ (~(sendIdx + 1 < Len(ch.buf)) => ch.pos = at + 1)
       /\ at + 1 = ch.pos - Len(ch.buf) + (sendIdx + 1)
  <2>1. PICK k : k = Len(ch.buf)
    OBVIOUS
  <2>2. PICK p : p = ch.pos
    OBVIOUS
  <2>3. PICK size : size = Len(content)
    OBVIOUS
  <2>4. /\ k \in Nat /\ p \in Nat /\ size \in Nat /\ sendIdx \in Nat /\ sendIdx < k
        /\ k <= p /\ p <= size /\ at = p - k + sendIdx
    BY <1>11, <1>12, <1>13, <2>1, <2>2, <2>3
  <2>5. /\ at \in Nat /\ at + 1 <= size /\ at + 1 \in 1 .. size /\ sendIdx + 1 \in 1 .. k
        /\ p - k + (sendIdx + 1) = at + 1 /\ (~(sendIdx + 1 < k) => p = at + 1)
    BY <2>4
  <2>6. ch.buf[sendIdx + 1] = content[at + 1]
    BY <1>12, <2>1, <2>2, <2>5
  <2>7. content[at + 1] \in Bytes
    BY <1>13, <2>3, <2>5
  <2>8. QED
    BY <1>12, <2>1, <2>2, <2>3, <2>5, <2>6, <2>7
<1>16. eoi \in BOOLEAN /\ (eoi <=> n + 1 = Len(content))
  <2>1. eoi = (remaining <= 0 /\ n = Len(content) - 1)
    BY <1>3, <1>7, <1>12 DEF LastByte, FileSize
  <2>2. ASSUME n + 1 = Len(content) PROVE remaining <= 0 /\ n = Len(content) - 1
    BY <1>11, <1>12, <1>13, <1>15, <2>2
  <2>3. ASSUME remaining <= 0, n = Len(content) - 1 PROVE n + 1 = Len(content)
    BY <1>13, <2>3
  <2>4. QED
    BY <2>1, <2>2, <2>3, Zenon
<1>17. Len(heard'[c]) = n + 1 /\ \A d \in DataChannels \ {c} : heard'[d] = heard[d]
  <2>1. [byte |-> ch.buf[sendIdx + 1], eoi |-> eoi] \in Heard
    BY <1>15, <1>16 DEF Heard
  <2>2. QED
    BY <1>5, <1>10, <1>11, <2>1, AppendProperties
<1>18. /\ sent.open /\ ~sent.writing /\ sent.file = ch.file /\ sent.pos = ch.pos
       /\ sent.buf = ch.buf /\ sent.sent = n + 1
       /\ read.open /\ ~read.writing /\ read.file = ch.file /\ read.pos = ch.pos + Len(next)
       /\ read.buf = next /\ read.sent = n + 1
  BY <1>8, <1>9, <1>11, <1>12, ChannelDomain DEF ChannelFields
<1>19. PICK new \in {sent, read} : channels' = [channels EXCEPT ![c] = new]
  BY <1>10
<1>20. channels'[c] = new /\ \A d \in DataChannels \ {c} : channels'[d] = channels[d]
  BY <1>11, <1>19 DEF Channels
<1>21. /\ ReadPlace(c)' = at + 1 /\ channels'[c].pos <= Len(content)
       /\ (n + 1 = at + 1 /\ ~Loading(c)') => channels'[c].pos = Len(content)
       /\ LoadInv(c)'
  <2>1. CASE sendIdx + 1 < Len(ch.buf)
    <3>1. /\ channels'[c] = sent /\ sendIdx' = sendIdx + 1 /\ remaining' = remaining
          /\ busy' = "load" /\ Loading(c)'
      BY <1>1, <1>10, <1>11, <2>1 DEF Loading
    <3>2. ReadPlace(c)' = at + 1
      <4>1. ReadPlace(c)' = sent.pos - Len(sent.buf) + (sendIdx + 1)
        BY <1>1, <1>10, <3>1 DEF ReadPlace
      <4>2. QED
        BY <1>15, <1>18, <4>1
    <3>3. LoadInv(c)'
      <4>1. Len(heard'[c]) = at + 1 => remaining' = Len(content) - ch.pos
        BY <1>13, <1>15, <1>17, <3>1
      <4>2. QED
        BY <1>3, <1>10, <1>12, <1>18, <3>1, <3>2, <4>1 DEF LoadInv
    <3>4. QED
      BY <1>12, <1>18, <3>1, <3>2, <3>3
  <2>2. CASE ~(sendIdx + 1 < Len(ch.buf)) /\ next = <<>>
    <3>1. /\ channels'[c] = read /\ busy' = "none" /\ ~Loading(c)' /\ Len(next) = 0
      BY <1>10, <1>11, <2>2 DEF Loading
    <3>2. ch.pos = at + 1 /\ ch.pos = Len(content) /\ read.pos = ch.pos
      BY <1>13, <1>14, <1>15, <1>18, <2>2, <3>1
    <3>3. ReadPlace(c)' = at + 1
      BY <3>1, <3>2 DEF ReadPlace
    <3>4. QED
      <4>1. LoadInv(c)'
        BY <3>1 DEF LoadInv
      <4>2. Len(content) <= Len(content)
        BY <1>13
      <4>3. QED
        BY <3>1, <3>2, <3>3, <4>1, <4>2
  <2>3. CASE ~(sendIdx + 1 < Len(ch.buf)) /\ next # <<>>
    <3>1. /\ channels'[c] = read /\ busy' = "load" /\ Loading(c)' /\ sendIdx' = 0
          /\ remaining' = remaining - Len(next) /\ Len(next) \in Nat
      BY <1>1, <1>10, <1>11, <1>14, <2>3 DEF Loading
    <3>2. ch.pos = at + 1
      BY <1>15, <2>3
    <3>3. read.pos - Len(read.buf) = ch.pos /\ read.pos <= Len(content) /\ Len(read.buf) <= read.pos
      BY <1>13, <1>14, <1>18, <3>1
    <3>4. ReadPlace(c)' = at + 1
      BY <1>1, <1>10, <1>13, <3>1, <3>2, <3>3 DEF ReadPlace
    <3>5. \A i \in 1 .. Len(read.buf) : read.buf[i] = content[read.pos - Len(read.buf) + i]
      BY <1>14, <1>18, <3>3
    <3>6. Len(heard'[c]) = at + 1 => remaining' = Len(content) - read.pos
      <4>1. Len(heard'[c]) = at + 1 => n = at
        BY <1>13, <1>15, <1>17
      <4>2. PICK l : l = Len(next)
        OBVIOUS
      <4>3. PICK p : p = ch.pos
        OBVIOUS
      <4>4. PICK size : size = Len(content)
        OBVIOUS
      <4>5. /\ n = at => remaining = size - p
            /\ l \in Nat /\ p \in Nat /\ size \in Nat /\ remaining \in Int
            /\ remaining' = remaining - l /\ read.pos = p + l
        BY <1>11, <1>13, <1>15, <1>18, <3>1, <4>2, <4>3, <4>4
      <4>6. n = at => remaining' = size - read.pos
        BY <4>5
      <4>7. QED
        BY <4>1, <4>4, <4>6
    <3>7. LoadInv(c)'
      BY <1>3, <1>10, <1>18, <3>1, <3>3, <3>4, <3>5, <3>6 DEF LoadInv
    <3>8. QED
      BY <3>1, <3>3, <3>4, <3>7
  <2>4. QED
    BY <2>1, <2>2, <2>3
<1>22. PlaceOf(c)'
  <2>1. new.open /\ ~new.writing /\ new.file = ch.file /\ new.sent = n + 1
    BY <1>18, <1>19
  <2>2. ReadInv(c)'
    <3>1. Exists(fs', new.file) /\ fs'[new.file] = content
      BY <1>3, <1>10, <1>12, <2>1
    <3>2. Len(heard'[c]) <= ReadPlace(c)'
      BY <1>12, <1>13, <1>15, <1>17, <1>21
    <3>3. QED
      BY <1>17, <1>20, <1>21, <3>1, <3>2 DEF ReadInv
  <2>3. SentInv(c)'
    BY <1>17, <1>20, <2>1 DEF SentInv
  <2>4. QED
    BY <1>21, <2>2, <2>3 DEF PlaceOf
<1>23. ASSUME NEW d \in DataChannels, d # c PROVE PlaceOf(d)' /\ StreamOf(d)' = StreamOf(d)
  <2>1. PlaceOf(d) /\ (Pending(d)' => Pending(d)) /\ ~Loading(d) /\ ~Loading(d)'
    BY <1>1, <1>10, <1>23 DEF PlaceInv, Pending, Loading
  <2>2. channels'[d] = channels[d] /\ heard'[d] = heard[d]
    BY <1>17, <1>20, <1>23
  <2>3. QED
    BY <1>10, <2>1, <2>2, PlaceStays
<1>24. Promise!Get(c)
  <2>1. PICK s : s = StreamOf(c)
    OBVIOUS
  <2>2. s = [state |-> "reading", name |-> ch.file, data |-> <<>>, at |-> at]
    BY <1>2, <1>4, <1>11, <2>1 DEF StreamOf
  <2>3. StreamOf(c)' = [state |-> "reading", name |-> ch.file, data |-> <<>>, at |-> at + 1]
    BY <1>18, <1>19, <1>20, <1>21 DEF StreamOf
  <2>4. s.state = "reading" /\ s.name = ch.file /\ s.at = at
    BY <2>2
  <2>5. StreamOf(c)' = [s EXCEPT !.at = s.at + 1]
    BY <2>2, <2>3, <2>4
  <2>6. \A d \in DataChannels \ {c} : StreamOf(d)' = StreamOf(d)
    BY <1>23
  <2>7. /\ content = fs[s.name] /\ s.at + 1 <= Len(content) /\ content[s.at + 1] \in Bytes
        /\ heard' = [heard EXCEPT ![c] = Append(heard[c], [byte |-> content[s.at + 1], eoi |-> eoi])]
    BY <1>3, <1>10, <1>15, <2>4
  <2>8. eoi <=> Len(heard[c]) + 1 = Len(content)
    BY <1>5, <1>16
  <2>9. QED
    BY <1>10, <1>11, <1>16, <2>1, <2>4, <2>5, <2>6, <2>7, <2>8, ShowsGet
<1>25. QED
  BY <1>22, <1>23, <1>24, AnyStream DEF PlaceInv

-----------------------------------------------------------------------------
(* Listings and boot sectors *)

\* What goes through the buffer of a channel that has no file open is of no stream.
LEMMA BlockShows ==
  ASSUME TypeInv, KeptInv, PlaceInv, KeptInv', NEW c \in DataChannels, ~channels[c].open,
         ~receivedCommand, ~receivedCommand', busy # "load", busy' # "load",
         UNCHANGED hostVars, fs' = fs,
         NEW new, channels' = [channels EXCEPT ![c] = new],
         new.command = channels[c].command, ~new.open,
         new.sent # 0 => c \in opened /\ OpOf(channels[c].command) # "file"
  PROVE  PlaceInv' /\ StreamStep
<1>1. opened' = opened /\ heard' = heard
  BY DEF hostVars
<1>2. channels'[c] = new /\ \A d \in DataChannels \ {c} : channels'[d] = channels[d]
  BY DEF TypeInv, TypeOK, Channels
<1>3. \A d \in DataChannels : ~Pending(d)' /\ ~Loading(d) /\ ~Loading(d)'
  BY DEF Pending, Loading
<1>4. ASSUME NEW d \in DataChannels PROVE PlaceOf(d)' /\ StreamOf(d)' = StreamOf(d)
  <2>1. PlaceOf(d)
    BY DEF PlaceInv
  <2>2. CASE d = c
    <3>1. SentInv(c)'
      BY <1>1, <1>2, <1>3, <2>1, <2>2 DEF SentInv, PlaceOf
    <3>2. QED
      BY <1>2, <2>2, <3>1, ClosedPlace
  <2>3. CASE d # c
    BY <1>1, <1>2, <1>3, <2>1, <2>3, PlaceStays
  <2>4. QED
    BY <2>2, <2>3
<1>5. QED
  BY <1>1, <1>4, ShowsNothing DEF PlaceInv, StreamStep

LEMMA TalkDirectoryShows ==
  ASSUME TypeInv, KeptInv, PlaceInv, KeptInv', TalkDirectory
  PROVE  PlaceInv' /\ StreamStep
<1>1. /\ atnSequence = "HANDLE" /\ deviceRole = "TALK" /\ busy = "none"
      /\ secondaryAddress # CMD /\ OpOf(cmdBuffer) = "dir"
      /\ UNCHANGED hostVars /\ receivedCommand' = receivedCommand /\ busy' = "dir" /\ fs' = fs
      /\ channels' = [channels EXCEPT ![0] = [channels[0] EXCEPT !.buf = Block]]
  BY DEF TalkDirectory, Talking, Handling, Updating
<1>2. ~receivedCommand
  BY <1>1 DEF TypeInv, Sequencing
<1>3. /\ 0 \in opened /\ ~channels[0].open /\ 0 \in DataChannels
      /\ OpOf(channels[0].command) = "dir"
  BY <1>1, <1>2, ListingIs, IecAssumption
<1>4. PICK new : new = [channels[0] EXCEPT !.buf = Block]
  OBVIOUS
<1>5. new.open = channels[0].open /\ new.command = channels[0].command
  <2>1. DOMAIN channels[0] = ChannelFields
    BY <1>3, ChannelDomain DEF TypeInv, TypeOK, Channels
  <2>2. QED
    BY <1>4, <2>1 DEF ChannelFields
<1>6. channels' = [channels EXCEPT ![0] = new] /\ ~new.open
      /\ ~receivedCommand' /\ busy # "load" /\ busy' # "load"
  BY <1>1, <1>2, <1>3, <1>4, <1>5
<1>7. new.sent # 0 => 0 \in opened /\ OpOf(channels[0].command) # "file"
  BY <1>3
<1>8. UNCHANGED hostVars /\ fs' = fs
  BY <1>1
<1>9. QED
  BY <1>2, <1>3, <1>5, <1>6, <1>7, <1>8, BlockShows

LEMMA TalkBootSectorShows ==
  ASSUME TypeInv, KeptInv, PlaceInv, KeptInv', TalkBootSector
  PROVE  PlaceInv' /\ StreamStep
<1>1. /\ atnSequence = "HANDLE" /\ deviceRole = "TALK" /\ busy = "none"
      /\ secondaryAddress # CMD /\ OpOf(channels[secondaryAddress].command) = "direct"
  BY DEF TalkBootSector, Talking, Handling, Updating
<1>2. secondaryAddress \in DataChannels /\ secondaryAddress \in opened
  BY <1>1 DEF KeptInv, HandleInv, TypeInv, TypeOK
<1>3. PICK c \in DataChannels : c = secondaryAddress
  BY <1>2
<1>4. /\ UNCHANGED hostVars /\ receivedCommand' = receivedCommand /\ busy' = "boot" /\ fs' = fs
      /\ channels' = [channels EXCEPT ![c] = [channels[c] EXCEPT !.buf = Block]]
  BY <1>3 DEF TalkBootSector, Talking
<1>5. ~receivedCommand
  BY <1>1 DEF TypeInv, Sequencing
<1>6. OpOf(channels[c].command) = "direct" /\ ~channels[c].open /\ c \in opened
  BY <1>1, <1>2, <1>3 DEF KeptInv, ChannelInv, OpenInv
<1>7. PICK new : new = [channels[c] EXCEPT !.buf = Block]
  OBVIOUS
<1>8. new.open = channels[c].open /\ new.command = channels[c].command
  <2>1. DOMAIN channels[c] = ChannelFields
    BY ChannelDomain DEF TypeInv, TypeOK, Channels
  <2>2. QED
    BY <1>7, <2>1 DEF ChannelFields
<1>9. channels' = [channels EXCEPT ![c] = new] /\ ~new.open
      /\ ~receivedCommand' /\ busy # "load" /\ busy' # "load"
  BY <1>1, <1>4, <1>5, <1>6, <1>7, <1>8
<1>10. new.sent # 0 => c \in opened /\ OpOf(channels[c].command) # "file"
  BY <1>6
<1>11. UNCHANGED hostVars /\ fs' = fs
  BY <1>4
<1>12. QED
  BY <1>5, <1>6, <1>8, <1>9, <1>10, <1>11, BlockShows

LEMMA SendDirectoryShows ==
  ASSUME TypeInv, KeptInv, PlaceInv, KeptInv', SendDirectory
  PROVE  PlaceInv' /\ StreamStep
<1>1. /\ busy = "dir" /\ busy' = "none"
      /\ channels' = [channels EXCEPT ![0] = Sent(0)]
      /\ UNCHANGED hostVars /\ receivedCommand' = receivedCommand /\ fs' = fs
  BY DEF SendDirectory, fsVars
<1>2. /\ atnSequence = "HANDLE" /\ deviceRole = "TALK" /\ OpOf(cmdBuffer) = "dir"
      /\ secondaryAddress # CMD /\ ~receivedCommand
  BY <1>1 DEF TypeInv, Sequencing, Transfers, KeptInv, TransferInv
<1>3. /\ 0 \in opened /\ ~channels[0].open /\ 0 \in DataChannels
      /\ OpOf(channels[0].command) = "dir"
  BY <1>2, ListingIs, IecAssumption
<1>4. PICK new : new = Sent(0)
  OBVIOUS
<1>5. ~new.open /\ new.command = channels[0].command
  BY <1>3, <1>4, SentIs DEF TypeInv
<1>6. channels' = [channels EXCEPT ![0] = new]
      /\ ~receivedCommand' /\ busy # "load" /\ busy' # "load"
  BY <1>1, <1>2, <1>3, <1>4
<1>7. new.sent # 0 => 0 \in opened /\ OpOf(channels[0].command) # "file"
  BY <1>3
<1>8. UNCHANGED hostVars /\ fs' = fs
  BY <1>1
<1>9. QED
  BY <1>2, <1>3, <1>5, <1>6, <1>7, <1>8, BlockShows

LEMMA SendBootSectorShows ==
  ASSUME TypeInv, KeptInv, PlaceInv, KeptInv', SendBootSector
  PROVE  PlaceInv' /\ StreamStep
<1>1. busy = "boot" /\ UNCHANGED hostVars /\ receivedCommand' = receivedCommand
  BY DEF SendBootSector
<1>2. PICK c \in DataChannels : c = secondaryAddress
  BY <1>1 DEF TypeInv, Sequencing
<1>3. PICK ch : ch = IF atn THEN channels[c] ELSE Sent(c)
  OBVIOUS
<1>4. Load(c, ch, fs, error)
  BY <1>2, <1>3 DEF SendBootSector
<1>5. /\ OpOf(channels[c].command) = "direct" /\ ~channels[c].open /\ ~receivedCommand
      /\ channels[c] \in ChannelRecords
  BY <1>1, <1>2 DEF KeptInv, TransferInv, ChannelInv, OpenInv, TypeInv, TypeOK, Channels,
                    Sequencing
<1>6. ~ch.open /\ ch.command = channels[c].command
  BY <1>3, <1>5, SentIs DEF TypeInv
<1>7. NextBlock(ch, fs) = <<>>
  BY <1>6 DEF NextBlock
<1>8. /\ fs' = fs /\ busy' = "none" /\ channels' = [channels EXCEPT ![c] = ch]
  BY <1>4, <1>7 DEF Load
<1>9. ch.sent # 0 => c \in opened /\ OpOf(channels[c].command) # "file"
  <2>1. channels[c].sent # 0 \/ channels[c].buf # <<>> =>
          c \in opened /\ OpOf(channels[c].command) # "file"
    BY <1>5 DEF PlaceInv, PlaceOf, SentInv, KeptInv, ChannelInv, ClosedInv
  <2>2. Sent(c).sent = channels[c].sent + Len(channels[c].buf)
    BY <1>5, ChannelDomain DEF Sent, ChannelFields
  <2>3. channels[c].buf = <<>> => Len(channels[c].buf) = 0
    OBVIOUS
  <2>4. QED
    BY <1>3, <2>1, <2>2, <2>3
<1>10. ~receivedCommand' /\ busy # "load" /\ busy' # "load"
  BY <1>1, <1>5, <1>8
<1>11. QED
  BY <1>1, <1>5, <1>6, <1>8, <1>9, <1>10, BlockShows

-----------------------------------------------------------------------------
(* Files opened *)

\* A channel starts on the file it was named for, or goes on.
LEMMA OpenShows ==
  ASSUME TypeInv, KeptInv, PlaceInv, KeptInv', NEW c \in DataChannels, c = secondaryAddress,
         secondaryAddress' = secondaryAddress, c \in opened, NEW ok \in BOOLEAN,
         ~receivedCommand, ~receivedCommand', busy = "none", UNCHANGED hostVars,
         fs' \in FileSystems,
         NEW o, o = Opened(c, ok), fs' = o.fs, o.ch \in ChannelRecords,
         NEW e,
         \/ channels' = [channels EXCEPT ![c] = o.ch] /\ busy' # "load"
         \/ o.ch.open /\ ~o.ch.writing /\ Load(c, o.ch, o.fs, e)
  PROVE  PlaceInv' /\ StreamStep
<1>1. opened' = opened /\ heard' = heard
  BY DEF hostVars
<1>2. PICK ch : ch = channels[c]
  OBVIOUS
<1>3. PICK new : new = o.ch
  OBVIOUS
<1>4. /\ ch \in ChannelRecords /\ channels \in [Channels -> ChannelRecords] /\ c \in Channels
      /\ DataChannels \subseteq Channels /\ fs \in FileSystems /\ PlaceOf(c)
      /\ heard[c] \in Seq(Heard) /\ TypeOK
  BY <1>2 DEF TypeInv, TypeOK, Channels, PlaceInv
<1>5. /\ new.command = ch.command /\ new.sent = ch.sent
      /\ ch.open => new = ch /\ o.fs = fs
      /\ ~new.open => o.fs = fs
      /\ ~ch.open /\ new.open =>
           /\ OpOf(ch.command) = "file" /\ new.file = ch.command.name
           /\ new.file \in Names /\ new.writing = Writes(c, ch.command)
           /\ new.buf \in {ch.buf, <<>>}
           /\ new.writing => /\ Exists(o.fs, new.file) /\ new.fil = o.fs[new.file]
                             /\ \A n \in Names \ {new.file} : o.fs[n] = fs[n]
           /\ ~new.writing => o.fs = fs /\ Exists(fs, new.file)
           /\ new.pos = 0 /\ new.fil \in {<<>>, fs[new.file]}
  BY <1>2, <1>3, <1>4, OpenedIs
<1>6. \A d \in DataChannels : ~Pending(d) /\ ~Pending(d)' /\ ~Loading(d)
  BY DEF Pending, Loading
<1>7. ASSUME NEW d \in DataChannels, d # c,
             channels[d].open /\ ~channels[d].writing =>
               fs'[channels[d].file] = fs[channels[d].file]
      PROVE  PlaceOf(d)' /\ StreamOf(d)' = StreamOf(d)
  <2>1. channels'[d] = channels[d]
    <3>1. CASE channels' = [channels EXCEPT ![c] = o.ch]
      BY <1>4, <1>7, <3>1
    <3>2. CASE Load(c, o.ch, o.fs, e)
      <4>1. PICK x : channels' = [channels EXCEPT ![c] = x]
        BY <1>4, <3>2, LoadIs
      <4>2. QED
        BY <1>4, <1>7, <4>1
    <3>3. QED
      BY <3>1, <3>2
  <2>2. PlaceOf(d) /\ ~Loading(d)'
    BY <1>7 DEF PlaceInv, Loading
  <2>3. QED
    BY <1>1, <1>6, <1>7, <2>1, <2>2, PlaceStays
\* What a channel that reads shows, once it stands at a place it may stand at.
<1>8. ASSUME new.open, ~new.writing, fs' = fs, Exists(fs, new.file),
             new.pos <= Len(fs[new.file]), Len(heard[c]) <= new.pos,
             Len(heard[c]) = new.pos => new.pos \in {0, Len(fs[new.file])},
             new.sent = Len(heard[c])
      PROVE  /\ PlaceOf(c)'
             /\ StreamOf(c)' = [state |-> "reading", name |-> new.file, data |-> <<>>,
                                at |-> new.pos]
  <2>1. CASE channels' = [channels EXCEPT ![c] = o.ch] /\ busy' # "load"
    <3>1. channels'[c] = new /\ ~Loading(c)' /\ ReadPlace(c)' = new.pos
      BY <1>3, <1>4, <2>1 DEF Loading, ReadPlace
    <3>2. ReadInv(c)' /\ LoadInv(c)' /\ SentInv(c)'
      BY <1>1, <1>8, <3>1 DEF ReadInv, LoadInv, SentInv
    <3>3. QED
      BY <1>8, <3>1, <3>2 DEF PlaceOf, StreamOf
  <2>2. CASE Load(c, o.ch, o.fs, e)
    <3>1. Load(c, new, fs, e) /\ new \in ChannelRecords
      BY <1>3, <1>8, <2>2
    <3>2. QED
      BY <1>1, <1>8, <3>1, TalkBegins
  <2>3. QED
    BY <2>1, <2>2
<1>9. CASE ch.open
  <2>1. new = ch /\ fs' = fs
    BY <1>5, <1>9
  <2>2. PlaceOf(c)' /\ StreamOf(c)' = StreamOf(c)
    <3>1. CASE ch.writing
      <4>1. channels'[c] = channels[c] /\ ~Loading(c)'
        BY <1>2, <1>3, <1>4, <2>1, <3>1 DEF Loading
      <4>2. QED
        BY <1>1, <1>4, <1>6, <2>1, <4>1, PlaceStays
    <3>2. CASE ~ch.writing
      <4>1. /\ Exists(fs, ch.file) /\ ch.pos <= Len(fs[ch.file]) /\ ReadPlace(c) = ch.pos
            /\ Len(heard[c]) <= ch.pos
            /\ Len(heard[c]) = ch.pos => ch.pos \in {0, Len(fs[ch.file])}
            /\ ch.sent = Len(heard[c])
        BY <1>2, <1>4, <1>6, <1>9, <3>2 DEF PlaceOf, ReadInv, SentInv, ReadPlace
      <4>2. StreamOf(c) = [state |-> "reading", name |-> ch.file, data |-> <<>>, at |-> ch.pos]
        BY <1>2, <1>9, <3>2, <4>1 DEF StreamOf
      <4>3. QED
        BY <1>8, <1>9, <2>1, <3>2, <4>1, <4>2
    <3>3. QED
      BY <3>1, <3>2
  <2>3. QED
    BY <1>1, <1>7, <2>1, <2>2, ShowsNothing DEF PlaceInv, StreamStep
<1>10. CASE ~ch.open /\ ~new.open
  <2>1. channels'[c] = new /\ fs' = fs
    BY <1>3, <1>4, <1>5, <1>10
  <2>2. SentInv(c)'
    BY <1>1, <1>2, <1>4, <1>5, <1>6, <1>10, <2>1 DEF PlaceOf, SentInv
  <2>3. PlaceOf(c)' /\ StreamOf(c)' = StreamOf(c)
    BY <1>2, <1>10, <2>1, <2>2, ClosedPlace
  <2>4. QED
    BY <1>1, <1>7, <2>1, <2>3, ShowsNothing DEF PlaceInv, StreamStep
<1>11. ASSUME ~ch.open, new.open
       PROVE  ch.sent = 0 /\ heard[c] = <<>> /\ ch.buf = <<>> /\ StreamOf(c).state = "closed"
  <2>1. OpOf(ch.command) = "file"
    BY <1>5, <1>11
  <2>2. ch.sent = 0 /\ heard[c] = <<>>
    BY <1>2, <1>4, <1>11, <2>1 DEF PlaceOf, SentInv
  <2>3. ch.buf = <<>>
    BY <1>2, <1>11, <2>1 DEF KeptInv, ChannelInv, ClosedInv
  <2>4. QED
    BY <1>2, <1>11, <2>2, <2>3 DEF StreamOf
<1>12. CASE ~ch.open /\ new.open /\ ~new.writing
  <2>1. /\ fs' = fs /\ Exists(fs, new.file) /\ new.file \in Names /\ new.pos = 0 /\ new.sent = 0
        /\ Len(heard[c]) = 0 /\ Len(fs[new.file]) \in Nat
    BY <1>4, <1>5, <1>11, <1>12 DEF Exists, FileSystems, Contents
  <2>2. /\ PlaceOf(c)'
        /\ StreamOf(c)' = [state |-> "reading", name |-> new.file, data |-> <<>>, at |-> 0]
    BY <1>8, <1>12, <2>1
  <2>3. \A d \in DataChannels \ {c} : PlaceOf(d)' /\ StreamOf(d)' = StreamOf(d)
    BY <1>7, <2>1
  <2>4. Promise!StartReading(c)
    BY <1>1, <1>11, <1>12, <2>1, <2>2, <2>3, ShowsReading DEF Exists
  <2>5. QED
    BY <2>2, <2>3, <2>4, AnyStream DEF PlaceInv
<1>13. CASE ~ch.open /\ new.open /\ new.writing
  <2>1. /\ channels' = [channels EXCEPT ![c] = o.ch] /\ busy' # "load" /\ channels'[c] = new
    BY <1>3, <1>4, <1>13
  <2>2. /\ new.file \in Names /\ Exists(fs', new.file) /\ new.fil = fs'[new.file]
        /\ \A n \in Names \ {new.file} : fs'[n] = fs[n]
        /\ new.buf = <<>> /\ new.sent = 0 /\ new.fil \in {<<>>, fs[new.file]}
        /\ new.fil # NoFile /\ new.fil \in Seq(Bytes)
    BY <1>5, <1>11, <1>13 DEF Exists, FileSystems, Contents
  <2>3. fs' = [fs EXCEPT ![new.file] = new.fil]
    BY <1>4, <2>2 DEF FileSystems
  <2>4. PlaceOf(c)'
    <3>1. SentInv(c)'
      BY <1>1, <1>11, <1>13, <2>1, <2>2 DEF SentInv
    <3>2. ReadInv(c)' /\ LoadInv(c)'
      BY <1>13, <2>1 DEF ReadInv, LoadInv, Loading
    <3>3. QED
      BY <3>1, <3>2 DEF PlaceOf
  <2>5. StreamOf(c)' = [state |-> "writing", name |-> new.file, data |-> new.fil, at |-> 0]
    <3>1. new.fil \o new.buf = new.fil
      BY <2>2, ConcatEmptySeq
    <3>2. QED
      BY <1>13, <2>1, <3>1 DEF StreamOf
  <2>6. \A d \in DataChannels \ {c} : PlaceOf(d)' /\ StreamOf(d)' = StreamOf(d)
    <3>1. ASSUME NEW d \in DataChannels, d # c, channels[d].open, ~channels[d].writing
          PROVE  fs'[channels[d].file] = fs[channels[d].file]
      <4>1. channels[d].file # new.file
        <5>1. Asked(c) = ch.command /\ OpOf(ch.command) = "file" /\ new.file = ch.command.name
              /\ Writes(c, ch.command)
          BY <1>2, <1>5, <1>6, <1>13 DEF Asked
        <5>2. QED
          BY <3>1, <5>1, NotShared
      <4>2. Exists(fs, channels[d].file)
        BY <3>1 DEF PlaceInv, PlaceOf, ReadInv
      <4>3. QED
        BY <2>2, <4>1, <4>2 DEF Exists
    <3>2. QED
      BY <1>7, <3>1
  <2>7. Promise!StartWriting(c)
    BY <1>1, <1>11, <1>13, <2>2, <2>3, <2>5, <2>6, ShowsWriting
  <2>8. QED
    BY <2>4, <2>6, <2>7, AnyStream DEF PlaceInv
<1>14. QED
  BY <1>9, <1>10, <1>12, <1>13

LEMMA ListenDataShows ==
  ASSUME TypeInv, TypeInv', KeptInv, PlaceInv, KeptInv', NEW ok \in OpenOutcomes, ListenData(ok)
  PROVE  PlaceInv' /\ StreamStep
<1>1. /\ atnSequence = "HANDLE" /\ deviceRole = "LISTEN" /\ busy = "none"
      /\ secondaryAddress # CMD /\ commandCode.kind # "open"
  BY DEF ListenData, Handling, Updating
<1>2. secondaryAddress \in DataChannels /\ secondaryAddress \in opened
  BY <1>1 DEF KeptInv, HandleInv, TypeInv, TypeOK
<1>3. PICK c \in DataChannels : c = secondaryAddress
  BY <1>2
<1>4. PICK o : o = Opened(c, ok)
  OBVIOUS
<1>5. /\ channels' = [channels EXCEPT ![c] = o.ch] /\ fs' = o.fs /\ busy' # "load"
      /\ UNCHANGED hostVars /\ secondaryAddress' = secondaryAddress
      /\ receivedCommand' = receivedCommand
  BY <1>1, <1>3, <1>4, Zenon DEF ListenData
<1>6. ok \in BOOLEAN /\ fs' \in FileSystems /\ ~receivedCommand /\ ~receivedCommand'
  BY <1>1, <1>5, IecAssumption DEF TypeInv, TypeOK, Sequencing
<1>7. o.ch \in ChannelRecords
  BY <1>4, <1>6, OpenedType DEF TypeInv
<1>8. \/ channels' = [channels EXCEPT ![c] = o.ch] /\ busy' # "load"
      \/ o.ch.open /\ ~o.ch.writing /\ Load(c, o.ch, o.fs, o.error)
  BY <1>5
<1>9. fs' = o.fs /\ UNCHANGED hostVars /\ secondaryAddress' = secondaryAddress /\ c \in opened
  BY <1>2, <1>3, <1>5
<1>10. QED
  BY <1>1, <1>3, <1>4, <1>6, <1>7, <1>8, <1>9, OpenShows

LEMMA TalkFileShows ==
  ASSUME TypeInv, TypeInv', KeptInv, PlaceInv, KeptInv', NEW ok \in OpenOutcomes, TalkFile(ok)
  PROVE  PlaceInv' /\ StreamStep
<1>1. /\ atnSequence = "HANDLE" /\ deviceRole = "TALK" /\ busy = "none"
      /\ secondaryAddress # CMD
  BY DEF TalkFile, Talking, Handling, Updating
<1>2. secondaryAddress \in DataChannels /\ secondaryAddress \in opened
  BY <1>1 DEF KeptInv, HandleInv, TypeInv, TypeOK
<1>3. PICK c \in DataChannels : c = secondaryAddress
  BY <1>2
<1>4. PICK o : o = Opened(c, ok)
  OBVIOUS
<1>5. /\ Load(c, o.ch, o.fs, o.error)
      /\ UNCHANGED hostVars /\ secondaryAddress' = secondaryAddress
      /\ receivedCommand' = receivedCommand
  BY <1>3, <1>4 DEF TalkFile, Talking
<1>6. ok \in BOOLEAN /\ fs' \in FileSystems /\ ~receivedCommand /\ ~receivedCommand'
  BY <1>1, <1>5, IecAssumption DEF TypeInv, TypeOK, Sequencing
<1>7. o.ch \in ChannelRecords /\ fs' = o.fs
  BY <1>4, <1>5, <1>6, OpenedType DEF TypeInv, Load
<1>8. \/ channels' = [channels EXCEPT ![c] = o.ch] /\ busy' # "load"
      \/ o.ch.open /\ ~o.ch.writing /\ Load(c, o.ch, o.fs, o.error)
  <2>1. CASE o.ch.open /\ ~o.ch.writing
    BY <1>5, <2>1
  <2>2. CASE ~(o.ch.open /\ ~o.ch.writing)
    <3>1. NextBlock(o.ch, o.fs) = <<>>
      BY <2>2 DEF NextBlock
    <3>2. channels' = [channels EXCEPT ![c] = o.ch] /\ busy' = "none"
      BY <1>5, <3>1 DEF Load
    <3>3. QED
      BY <3>2
  <2>3. QED
    BY <2>1, <2>2
<1>9. UNCHANGED hostVars /\ secondaryAddress' = secondaryAddress /\ c \in opened
  BY <1>2, <1>3, <1>5
<1>10. QED
  BY <1>1, <1>3, <1>4, <1>6, <1>7, <1>8, <1>9, OpenShows

-----------------------------------------------------------------------------
(* The drive implements FileService *)

LEMMA InitShows == Init => PlaceInv /\ Promise!Init
<1> SUFFICES ASSUME Init PROVE PlaceInv /\ Promise!Init
  OBVIOUS
<1>1. /\ opened = {} /\ busy = "none" /\ fs \in FileSystems
      /\ channels = [c \in Channels |-> ClosedChannel]
      /\ heard = [c \in DataChannels |-> <<>>]
  BY IecAssumption DEF Init
<1>2. \A c \in DataChannels : ~channels[c].open /\ channels[c].sent = 0
  BY <1>1 DEF Channels, ClosedChannel
<1>3. PlaceInv
  BY <1>1, <1>2 DEF PlaceInv, PlaceOf, ReadInv, LoadInv, SentInv, Loading
<1>4. \A c \in DataChannels : StreamOf(c) = Promise!Idle
  BY <1>2 DEF StreamOf, Promise!Idle
<1>5. Promise!Init
  BY <1>1, <1>4 DEF Promise!Init, FileSystems, Contents
<1>6. QED
  BY <1>3, <1>5

LEMMA NextShows ==
  ASSUME StrictHost, ~Resets, TypeInv, TypeInv', KeptInv, NothingLost, PlaceInv, KeptInv',
         [Next]_vars
  PROVE  PlaceInv' /\ StreamStep
<1>1. CASE HostNext
  BY <1>1, QuietShows
<1>2. CASE SequenceNext
  BY <1>2, ResetShows, QuietShows, CompleteShows, ReceiveShows DEF SequenceNext
<1>3. CASE HandleNext
  BY <1>3, QuietShows, ListenNameShows, TalkDirectoryShows, TalkBootSectorShows,
     ListenDataShows, TalkFileShows DEF HandleNext
<1>4. CASE TransferNext
  <2>1. \A r \in Requests : ~ListenPart(r)
    BY DEF ListenPart
  <2>2. QED
    BY <1>4, <2>1, RequestShows, SaveShows, LoadByteShows, SendDirectoryShows,
       SendBootSectorShows, QuietShows, InterruptedShows DEF TransferNext
<1>5. CASE CallerNext
  BY <1>5, QuietShows, ResetShows DEF CallerNext
<1>6. CASE UNCHANGED vars
  <2>1. UNCHANGED hostVars /\ UNCHANGED atnVars /\ UNCHANGED dataVars /\ UNCHANGED fsVars
    BY <1>6 DEF vars
  <2>2. /\ heard' = heard /\ opened' = opened /\ busy' = busy /\ fs' = fs /\ channels' = channels
        /\ secondaryAddress' = secondaryAddress /\ receivedCommand' = receivedCommand
        /\ sendIdx' = sendIdx /\ remaining' = remaining
    BY <2>1 DEF hostVars, atnVars, dataVars, fsVars
  <2>3. QED
    BY <2>2, NothingShows
<1>7. QED
  BY <1>1, <1>2, <1>3, <1>4, <1>5, <1>6 DEF Next

\* Seen through its channels the drive implements FileService, whatever the host
\* does and whenever it interrupts a transfer: bytes written are stored in order
\* when the channel is closed, bytes read come in order and never twice, EOI says
\* exactly that the whole file was heard, and no command touches a file in use.
THEOREM PromiseKept ==
  ASSUME StrictHost, ~Resets
  PROVE  Spec => KeepsPromise
<1> DEFINE IInv == TypeInv /\ KeptInv /\ NothingLost /\ PlaceInv
           PStep == [Promise!Next]_(Promise!vars)
<1>1. Init => IInv /\ Promise!Init
  BY TypeInit, InitKept, InitShows
<1>2. IInv /\ [Next]_vars => IInv' /\ PStep
  <2> SUFFICES ASSUME TypeInv, KeptInv, NothingLost, PlaceInv, [Next]_vars
               PROVE  TypeInv' /\ KeptInv' /\ NothingLost' /\ PlaceInv' /\ PStep
    OBVIOUS
  <2>1. TypeInv'
    BY TypeNext
  <2>2. KeptInv' /\ NothingLost'
    BY NextKept
  <2>3. PlaceInv' /\ StreamStep
    BY <2>1, <2>2, NextShows
  <2>4. QED
    BY <2>1, <2>2, <2>3 DEF StreamStep
<1> HIDE DEF IInv
<1>3. Spec => Promise!Init /\ [][Promise!Next]_(Promise!vars)
  BY <1>1, <1>2, PTL DEF Spec
<1>4. QED
  BY <1>3 DEF KeepsPromise, Promise!Spec
=============================================================================
