-------------------------------- MODULE Tftp --------------------------------
(***************************************************************************)
(* The TFTP server of net-tftp.cpp, which takes files over the network and *)
(* writes them on the card, with a client that uploads one file after      *)
(* another.  Net::Update, on core 0, hands the server one packet at a time *)
(* and the server answers it before it looks at the next.                  *)
(*                                                                         *)
(* The network is a local one: it keeps the order of packets and may lose  *)
(* any of them.  The client follows RFC 1350: it repeats a packet that was *)
(* not answered in time, ignores answers to another port, and stops at an  *)
(* error.                                                                  *)
(***************************************************************************)
EXTENDS Integers, SequencesExt

CONSTANTS
  Names,        \* names of files
  Folders,      \* the folders there are
  Root,         \* the topmost one
  Clipped,      \* a name without its first character
  Requests,     \* what the client may upload
  NoPath,       \* the path of a file that is not open
  BlockModulus, \* block numbers have 16 bits
  MaxUploads, MaxRetries, MaxFaults    \* bounds of the model

Paths == Folders \X Names
Blocks == Nat \X Nat   \* an upload's number, and a block's in it
Torn   == <<0, 0>>     \* the part of a block that had room on the card
Data   == Seq(Blocks)

\* A request: the folder and name in the file name, with a slash or without,
\* the mode, and the length in blocks, of which the last is the short one.
RequestRecords == [folder : STRING, name : Names, slash : BOOLEAN, octet : BOOLEAN,
                   length : Nat \ {0}]

ASSUME TftpAssumption ==
  /\ Root \in Folders
  /\ Clipped \in [Names -> Names]
  /\ Requests \subseteq RequestRecords /\ Requests # {}
  /\ NoPath \notin Paths
  /\ BlockModulus \in Nat \ {0, 1}
  /\ {MaxUploads, MaxRetries, MaxFaults} \subseteq Nat

VARIABLES
  currentBlockNumber,   \* 32 bits; -1 stands for 2^32 - 1
  outFile,        \* the file being written: its path and data; no path: not open
  cwd,            \* the current folder of the file system
  disk,           \* what the directory of the card says of each file; no
                  \* file and an empty one are the same
  toServer, toClient,   \* packets on their way
  client,         \* the client's transfer
  uploads, retries, faults,   \* how many there were
  excused,        \* the transfer met a fault or a repeated packet
  promised        \* what the client knows to be on the card

serverVars == <<currentBlockNumber, outFile, cwd, disk>>
countVars  == <<uploads, retries, faults>>
vars == <<serverVars, toServer, toClient, client, countVars, excused, promised>>

NotOpen == [path |-> NoPath, data |-> <<>>]
Opened(path, data) == [path |-> path, data |-> data]
IsOpen == outFile.path # NoPath

\* Block i of upload t.
Content(t, r) == [i \in 1 .. r.length |-> <<t, i>>]
Plain(r) == r.slash /\ r.octet /\ r.folder \in Folders

Packets == [kind : {"write"}, port : Nat, request : Requests]
             \union [kind : {"data"}, port : Nat, block : 0 .. BlockModulus - 1,
                     data : Blocks, short : BOOLEAN]
             \union [kind : {"read"}, port : Nat]
Answers == [kind : {"ack", "error"}, port : Nat, block : 0 .. BlockModulus - 1]

TypeOK ==
  /\ currentBlockNumber \in -1 .. BlockModulus - 1
  /\ outFile \in [path : Paths \union {NoPath}, data : Data]
  /\ cwd \in Folders
  /\ disk \in [Paths -> Data]
  /\ toServer \in Seq(Packets) /\ toClient \in Seq(Answers)
  /\ client \in [status : {"idle", "sending", "done", "failed"},
                 request : Requests, sent : Nat]
  /\ {uploads, retries, faults} \subseteq Nat
  /\ excused \in BOOLEAN
  /\ promised \in [Paths -> Data]

Init ==
  /\ currentBlockNumber = -1 /\ outFile = NotOpen /\ cwd = Root
  /\ disk = [p \in Paths |-> <<>>]
  /\ toServer = <<>> /\ toClient = <<>>
  /\ client = [status |-> "idle", request |-> CHOOSE r \in Requests : TRUE, sent |-> 0]
  /\ uploads = 0 /\ retries = 0 /\ faults = 0 /\ excused = FALSE
  /\ promised = [p \in Paths |-> <<>>]

-----------------------------------------------------------------------------
(* The server *)

Packet == Head(toServer)

\* The answer goes to the port the packet came from.
Answer(kind, block) ==
  toClient' = Append(toClient, [kind |-> kind, port |-> Packet.port, block |-> block])
Ack(block) == Answer("ack", block)
Error == Answer("error", 0)

Received(kind) ==
  /\ toServer # <<>> /\ Packet.kind = kind
  /\ toServer' = Tail(toServer)
  /\ UNCHANGED <<client, uploads, retries, promised>>

\* A fault of the card.
Fault == faults < MaxFaults /\ faults' = faults + 1 /\ excused' = TRUE
NoFault == UNCHANGED <<faults, excused>>

\* f_close: the directory gets the length of what was written.  A file that is
\* not open is left alone.  (CloseForgetting lets the file object go without it.)
CloseForgetting(data) == outFile' = NotOpen /\ UNCHANGED disk
Close(data) ==
  /\ outFile' = NotOpen
  /\ disk' = IF IsOpen THEN [disk EXCEPT ![outFile.path] = data] ELSE disk

\* f_chdir to the folder of the name: one that does not exist leaves the current
\* folder.  Without a slash the name is looked up in the topmost folder, without
\* its first character.
\* (FolderUnchecked takes it for the current folder all the same.)
FolderUnchecked(r) == IF r.slash THEN r.folder ELSE Root
FolderOf(r) == IF ~r.slash THEN Root ELSE IF r.folder \in Folders THEN r.folder ELSE cwd
NameOf(r) == IF r.slash THEN r.name ELSE Clipped[r.name]
Target(r) == <<FolderOf(r), NameOf(r)>>

\* handleTftpWriteRequest.  A file that is still open is dropped, not closed.
\* (Continued goes on counting where the last transfer stopped.)
Continued == UNCHANGED currentBlockNumber
Restarted == currentBlockNumber' = 0

RefuseMode ==
  /\ Received("write") /\ ~Packet.request.octet
  /\ Error /\ NoFault
  /\ UNCHANGED serverVars

WriteRequest ==
  /\ Received("write") /\ Packet.request.octet
  /\ Restarted
  /\ cwd' = FolderOf(Packet.request)
  /\ \/ /\ outFile' = Opened(Target(Packet.request), <<>>)
        /\ disk' = [disk EXCEPT ![Target(Packet.request)] = <<>>]
        /\ Ack(0) /\ NoFault
     \/ /\ outFile' = NotOpen /\ Error /\ Fault
        /\ UNCHANGED disk

\* handleTftpData.  The block number received has 16 bits and the one expected
\* 32: after the last one comes none.  (AnyBlock takes a repeated block, too.)
AnyBlock == Packet.block \in {currentBlockNumber, currentBlockNumber + 1}
Expected == Packet.block = currentBlockNumber + 1

UnexpectedData ==
  /\ Received("data") /\ ~Expected
  /\ Close(outFile.data) /\ Error /\ NoFault
  /\ UNCHANGED <<currentBlockNumber, cwd>>

\* A block shorter than the others is the last one.
DataWritten ==
  /\ Received("data") /\ Expected /\ IsOpen
  /\ currentBlockNumber' = Packet.block
  /\ LET data == Append(outFile.data, Packet.data)
     IN  IF Packet.short THEN Close(data)
         ELSE outFile' = Opened(outFile.path, data) /\ UNCHANGED disk
  /\ Ack(Packet.block) /\ NoFault
  /\ UNCHANGED cwd

\* f_write fails for a file that is not open, or on a fault or full card, with
\* part of the block written or none.
DataNotWritten ==
  /\ Received("data") /\ Expected
  /\ currentBlockNumber' = Packet.block
  /\ \/ ~IsOpen /\ Close(<<>>) /\ NoFault
     \/ /\ IsOpen /\ Fault
        /\ \E part \in {<<>>, <<Torn>>} : Close(outFile.data \o part)
  /\ Error
  /\ UNCHANGED cwd

\* Any other packet.
NotImplemented ==
  /\ Received("read") /\ Error /\ NoFault
  /\ UNCHANGED serverVars

-----------------------------------------------------------------------------
(* The client and the network *)

Send(message) == toServer' = Append(toServer, message)
WritePacket(t, r) == [kind |-> "write", port |-> t, request |-> r]
DataPacket(t, r, i) ==
  [kind |-> "data", port |-> t, block |-> i % BlockModulus,
   data |-> Content(t, r)[i], short |-> i = r.length]

\* Each transfer has a port of its own.  One that may write to the same path
\* takes back what was promised of it.
MayWrite(r, p) ==
  /\ r.octet /\ p[2] = NameOf(r)
  /\ ~r.slash => p[1] = Root
  /\ r.slash /\ r.folder \in Folders => p[1] = r.folder

Start(r) ==
  /\ client.status # "sending" /\ uploads < MaxUploads
  /\ uploads' = uploads + 1
  /\ client' = [status |-> "sending", request |-> r, sent |-> 0]
  /\ Send(WritePacket(uploads', r))
  /\ excused' = FALSE
  /\ promised' = [p \in Paths |-> IF MayWrite(r, p) THEN <<>> ELSE promised[p]]
  /\ UNCHANGED <<serverVars, toClient, retries, faults>>

Reply == Head(toClient)
Arrived == toClient # <<>> /\ toClient' = Tail(toClient)
Awaited == /\ client.status = "sending" /\ Reply.port = uploads
           /\ Reply.kind = "error" \/ Reply.block = client.sent % BlockModulus

Ignore ==
  /\ Arrived /\ ~Awaited
  /\ UNCHANGED <<serverVars, toServer, client, countVars, excused, promised>>

SendNext ==
  /\ Arrived /\ Awaited /\ Reply.kind = "ack"
  /\ client.sent < client.request.length
  /\ client' = [client EXCEPT !.sent = @ + 1]
  /\ Send(DataPacket(uploads, client.request, client.sent + 1))
  /\ UNCHANGED <<serverVars, countVars, excused, promised>>

Finish ==
  /\ Arrived /\ Awaited /\ Reply.kind = "ack"
  /\ client.sent = client.request.length
  /\ client' = [client EXCEPT !.status = "done"]
  /\ promised' = IF Plain(client.request)
                 THEN [promised EXCEPT ![Target(client.request)] =
                                          Content(uploads, client.request)]
                 ELSE promised
  /\ UNCHANGED <<serverVars, toServer, countVars, excused>>

Stop ==
  /\ Arrived /\ Awaited /\ Reply.kind = "error"
  /\ client' = [client EXCEPT !.status = "failed"]
  /\ UNCHANGED <<serverVars, toServer, countVars, excused, promised>>

Timeout ==
  /\ client.status = "sending" /\ retries < MaxRetries
  /\ retries' = retries + 1 /\ excused' = TRUE
  /\ Send(IF client.sent = 0 THEN WritePacket(uploads, client.request)
          ELSE DataPacket(uploads, client.request, client.sent))
  /\ UNCHANGED <<serverVars, toClient, client, uploads, faults, promised>>

\* The user interrupts the client, or it has waited long enough.
GiveUp ==
  /\ client.status = "sending" /\ excused
  /\ client' = [client EXCEPT !.status = "failed"]
  /\ UNCHANGED <<serverVars, toServer, toClient, countVars, excused, promised>>

\* Somebody asks to read a file.
AskToRead ==
  /\ retries < MaxRetries /\ retries' = retries + 1
  /\ Send([kind |-> "read", port |-> 0])
  /\ UNCHANGED <<serverVars, toClient, client, uploads, faults, excused, promised>>

Lose ==
  /\ faults < MaxFaults /\ faults' = faults + 1 /\ excused' = TRUE
  /\ \/ toServer # <<>> /\ toServer' = Tail(toServer) /\ UNCHANGED toClient
     \/ toClient # <<>> /\ toClient' = Tail(toClient) /\ UNCHANGED toServer
  /\ UNCHANGED <<serverVars, client, uploads, retries, promised>>

-----------------------------------------------------------------------------
Server == RefuseMode \/ WriteRequest \/ UnexpectedData \/ DataWritten
            \/ DataNotWritten \/ NotImplemented
Client == (\E r \in Requests : Start(r)) \/ Ignore \/ SendNext \/ Finish \/ Stop
            \/ Timeout \/ GiveUp \/ AskToRead

Next == Server \/ Client \/ Lose

Spec == Init /\ [][Next]_vars

-----------------------------------------------------------------------------
(* Properties *)

\* The client was told that the whole file is written only when the card has
\* it, and it stays there until something else is uploaded under the name.
UploadedStays ==
  \A p \in Paths : promised[p] # <<>> => disk[p] = promised[p]

\* Every block of the transfer that was acknowledged is in the file, in its
\* place: in the open one or, when that was closed, on the card.
AcknowledgedIsKept ==
  client.status = "sending" /\ Plain(client.request) =>
    LET path == <<client.request.folder, client.request.name>>
        data == IF outFile.path = path THEN outFile.data ELSE disk[path]
    IN  \A i \in 1 .. client.sent - 1 : i <= Len(data) /\ data[i] = <<uploads, i>>

\* A transfer fails only after a packet was lost or repeated, the card failed,
\* the mode was not octet, or the block numbers ran out.
FailsForAReason ==
  client.status = "failed" =>
    \/ excused
    \/ ~client.request.octet
    \/ client.request.length >= BlockModulus
=============================================================================
