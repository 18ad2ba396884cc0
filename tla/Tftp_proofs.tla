---------------------------- MODULE Tftp_proofs ----------------------------
(***************************************************************************)
(* Theorems about the TFTP server, for any set of names and folders, any   *)
(* requests and lengths, any number of transfers, retries and faults.      *)
(***************************************************************************)
EXTENDS Tftp, TLAPS

Sending == client.status = "sending"
Mine(m) == m.port = uploads
Rank(m) == IF m.kind = "write" THEN 0 ELSE m.data[2]

\* What is on its way to the server: the packets of older transfers come first,
\* those of this one in the order of their blocks.
IsOf(m, t, r, n) == \/ m = WritePacket(t, r)
                    \/ \E k \in 1 .. n : m = DataPacket(t, r, k)
Genuine(m) == IsOf(m, uploads, client.request, client.sent)
InOrder ==
  /\ \A i \in 1 .. Len(toServer) :
       /\ toServer[i].port <= uploads
       /\ toServer[i].port = 0 <=> toServer[i].kind = "read"
       /\ Sending /\ Mine(toServer[i]) => Genuine(toServer[i])
  /\ \A i, j \in 1 .. Len(toServer) :
       i < j /\ toServer[j].kind # "read" =>
         /\ toServer[i].port <= toServer[j].port
         /\ Sending /\ Mine(toServer[i]) /\ Mine(toServer[j]) =>
              Rank(toServer[i]) <= Rank(toServer[j])

\* And what is on its way to the client.
MyAck(a) == Mine(a) /\ a.kind = "ack"
AnswersInOrder ==
  /\ \A i \in 1 .. Len(toClient) :
       /\ toClient[i].port <= uploads
       /\ Sending /\ MyAck(toClient[i]) =>
            toClient[i].block <= client.sent /\ client.sent <= toClient[i].block + 1
  /\ \A i, j \in 1 .. Len(toClient) :
       Sending /\ i < j /\ MyAck(toClient[i]) /\ MyAck(toClient[j]) =>
         toClient[i].block <= toClient[j].block

Counts ==
  /\ client.sent <= client.request.length
  /\ client.sent <= BlockModulus
  /\ Sending => uploads > 0

\* Once block k was acknowledged (0 is the request) the server has only packets
\* of this transfer and no older blocks before it, the file that is open is the
\* transfer's, and the blocks up to k are in it or on the card.
MyPath == <<client.request.folder, client.request.name>>
MyData == IF outFile.path = MyPath THEN outFile.data ELSE disk[MyPath]
Reached(k) ==
  /\ \A i \in 1 .. Len(toServer) :
       toServer[i].kind # "read" => Mine(toServer[i]) /\ k <= Rank(toServer[i])
  /\ currentBlockNumber >= 0
  /\ IsOpen => Len(outFile.data) = currentBlockNumber
  /\ k = client.request.length => ~IsOpen
Stored(k) ==
  /\ IsOpen => /\ outFile.path = MyPath
               /\ \A i \in 1 .. Len(outFile.data) : outFile.data[i] = <<uploads, i>>
  /\ k <= Len(MyData) /\ \A i \in 1 .. k : MyData[i] = <<uploads, i>>
  /\ k = client.request.length => disk[MyPath] = Content(uploads, client.request)
Acknowledged(k) ==
  \/ k + 1 = client.sent
  \/ \E i \in 1 .. Len(toClient) : MyAck(toClient[i]) /\ toClient[i].block = k
Kept ==
  \A k \in Nat : Sending /\ Acknowledged(k) =>
    Reached(k) /\ (Plain(client.request) => Stored(k))

\* As long as nothing went wrong, the client and the server take turns.
Clean ==
  /\ Sending /\ ~excused /\ client.request.octet /\ client.request.length < BlockModulus
InTurn ==
  Clean =>
    /\ \A i \in 1 .. Len(toServer) : Mine(toServer[i]) =>
         /\ Rank(toServer[i]) = client.sent
         /\ client.sent > 0 => IsOpen /\ currentBlockNumber + 1 = client.sent
    /\ \A j \in 1 .. Len(toClient) : Mine(toClient[j]) =>
         /\ toClient[j].kind = "ack" /\ toClient[j].block = client.sent
         /\ client.sent < client.request.length =>
              IsOpen /\ currentBlockNumber = client.sent
    /\ \A i, j \in 1 .. Len(toServer) : Mine(toServer[i]) /\ Mine(toServer[j]) => i = j
    /\ \A i, j \in 1 .. Len(toClient) : Mine(toClient[i]) /\ Mine(toClient[j]) => i = j
    /\ \A i \in 1 .. Len(toServer), j \in 1 .. Len(toClient) :
         ~(Mine(toServer[i]) /\ Mine(toClient[j]))

\* Nothing that may still be written was promised.
Free(r) == \A p \in Paths : MayWrite(r, p) => promised[p] = <<>>
Safe ==
  /\ \A i \in 1 .. Len(toServer) : toServer[i].kind = "write" => Free(toServer[i].request)
  /\ Sending => Free(client.request)
  /\ IsOpen => promised[outFile.path] = <<>>

Inv == /\ TypeOK /\ Counts /\ InOrder /\ AnswersInOrder /\ Kept /\ InTurn /\ Safe
       /\ UploadedStays /\ FailsForAReason
-----------------------------------------------------------------------------
(* Queues and block numbers *)

LEMMA ModBound ==
  ASSUME NEW k \in Nat PROVE k % BlockModulus \in 0 .. BlockModulus - 1
BY TftpAssumption
LEMMA ModSmall ==
  ASSUME NEW k \in 0 .. BlockModulus - 1 PROVE k % BlockModulus = k
BY TftpAssumption
LEMMA ModItself == BlockModulus % BlockModulus = 0
BY TftpAssumption
LEMMA Dropped ==
  ASSUME NEW S, NEW q \in Seq(S), q # <<>>
  PROVE  /\ Head(q) = q[1] /\ Head(q) \in S /\ Tail(q) \in Seq(S) /\ Len(q) \in Nat \ {0}
         /\ Len(Tail(q)) = Len(q) - 1
         /\ \A i \in 1 .. Len(Tail(q)) : i + 1 \in 1 .. Len(q) /\ Tail(q)[i] = q[i + 1]
OBVIOUS
LEMMA Added ==
  ASSUME NEW S, NEW q \in Seq(S), NEW m \in S
  PROVE  /\ Append(q, m) \in Seq(S) /\ Len(q) \in Nat
         /\ Len(Append(q, m)) = Len(q) + 1
         /\ Append(q, m)[Len(q) + 1] = m
         /\ \A i \in 1 .. Len(Append(q, m)) :
              \/ i \in 1 .. Len(q) /\ Append(q, m)[i] = q[i]
              \/ i = Len(q) + 1 /\ Append(q, m)[i] = m
OBVIOUS

LEMMA SameData ==
  ASSUME NEW S, NEW s \in Seq(S), NEW t \in Seq(S), NEW n \in Nat, Len(s) = n, Len(t) = n,
         \A i \in 1 .. n : s[i] = t[i]
  PROVE  s = t
<1>1. s \in [1 .. n -> S] /\ t \in [1 .. n -> S]
  OBVIOUS
<1> QED BY <1>1

-----------------------------------------------------------------------------
(* Types *)

ClientRecords == [status : {"idle", "sending", "done", "failed"}, request : Requests, sent : Nat]
Files == [path : Paths \union {NoPath}, data : Data]

LEMMA PacketTypes ==
  ASSUME TypeOK, toServer # <<>>
  PROVE  /\ Packet \in Packets
         /\ Packet.port \in Nat /\ Packet.kind \in {"write", "data", "read"}
         /\ Packet.kind = "write" => Packet.request \in Requests
         /\ Packet.kind = "data" => /\ Packet.block \in 0 .. BlockModulus - 1
                                    /\ Packet.data \in Blocks /\ Packet.short \in BOOLEAN
         /\ Tail(toServer) \in Seq(Packets)
<1>1. Packet \in Packets /\ Tail(toServer) \in Seq(Packets)
  BY Dropped DEF TypeOK, Packet
<1> QED BY <1>1 DEF Packets

LEMMA AnswerTypes ==
  ASSUME TypeOK, toClient # <<>>
  PROVE  /\ Reply \in Answers /\ Tail(toClient) \in Seq(Answers)
         /\ Reply.port \in Nat /\ Reply.kind \in {"ack", "error"}
         /\ Reply.block \in 0 .. BlockModulus - 1
<1>1. Reply \in Answers /\ Tail(toClient) \in Seq(Answers)
  BY Dropped DEF TypeOK, Reply
<1> QED BY <1>1 DEF Answers

LEMMA TargetType ==
  ASSUME TypeOK, NEW r \in Requests
  PROVE  FolderOf(r) \in Folders /\ Target(r) \in Paths /\ NameOf(r) \in Names
<1>1. r.name \in Names /\ r.slash \in BOOLEAN
  BY TftpAssumption DEF RequestRecords
<1> QED BY <1>1, TftpAssumption DEF TypeOK, FolderOf, NameOf, Target, Paths

LEMMA ContentType ==
  ASSUME NEW t \in Nat, NEW r \in Requests
  PROVE  /\ r.length \in Nat \ {0}
         /\ Content(t, r) \in Data /\ Len(Content(t, r)) = r.length
         /\ \A i \in 1 .. r.length : Content(t, r)[i] = <<t, i>>
<1>1. r.length \in Nat \ {0}
  BY TftpAssumption DEF RequestRecords
<1> QED BY <1>1 DEF Content, Data, Blocks

\* The types after an answer and after a packet sent.
LEMMA AnswerType ==
  ASSUME TypeOK, toServer # <<>>, NEW kind \in {"ack", "error"},
         NEW block \in 0 .. BlockModulus - 1, Answer(kind, block)
  PROVE  toClient' \in Seq(Answers)
<1>1. [kind |-> kind, port |-> Packet.port, block |-> block] \in Answers
  BY PacketTypes DEF Answers
<1> QED BY <1>1, Added DEF Answer, TypeOK

LEMMA DataPacketType ==
  ASSUME NEW t \in Nat, NEW r \in Requests, NEW i \in 1 .. r.length
  PROVE  /\ DataPacket(t, r, i) \in Packets
         /\ DataPacket(t, r, i).data = <<t, i>>
<1> i \in Nat /\ r.length \in Nat \ {0}
  BY ContentType
<1>1. i % BlockModulus \in 0 .. BlockModulus - 1 /\ Content(t, r)[i] = <<t, i>>
  BY ModBound, ContentType
<1>2. <<t, i>> \in Blocks
  BY <1>1 DEF Blocks
<1>3. (i = r.length) \in BOOLEAN
  OBVIOUS
<1> QED BY <1>1, <1>2, <1>3, Zenon DEF DataPacket, Packets

LEMMA TypeServer == TypeOK /\ Server => TypeOK'
<1> SUFFICES ASSUME TypeOK, Server PROVE TypeOK'
  OBVIOUS
<1>1. /\ toServer # <<>> /\ toServer' \in Seq(Packets)
      /\ UNCHANGED <<client, uploads, retries, promised>>
  BY PacketTypes DEF Server, Received, RefuseMode, WriteRequest, UnexpectedData,
                     DataWritten, DataNotWritten, NotImplemented
<1>2. toClient' \in Seq(Answers)
  <2>1. PICK kind \in {"ack", "error"}, block \in 0 .. BlockModulus - 1 : Answer(kind, block)
    BY <1>1, PacketTypes, TftpAssumption
    DEF Server, Received, RefuseMode, WriteRequest, UnexpectedData,
        DataWritten, DataNotWritten, NotImplemented, Ack, Error
  <2> QED BY <1>1, <2>1, AnswerType
<1>3. faults' \in Nat /\ excused' \in BOOLEAN
  <2>1. Fault \/ NoFault
    BY DEF Server, RefuseMode, WriteRequest, UnexpectedData,
           DataWritten, DataNotWritten, NotImplemented
  <2>2. faults \in Nat /\ faults + 1 \in Nat
    BY DEF TypeOK
  <2> QED BY <2>1, <2>2, Zenon DEF TypeOK, Fault, NoFault
<1>4. ASSUME NEW data \in Data, Close(data)
      PROVE  outFile' \in Files /\ disk' \in [Paths -> Data]
  BY <1>4 DEF TypeOK, Close, IsOpen, NotOpen, Files, Data
<1>5. outFile.data \in Data /\ outFile.path \in Paths \union {NoPath}
  BY DEF TypeOK
<1>6. /\ currentBlockNumber' \in -1 .. BlockModulus - 1 /\ cwd' \in Folders
      /\ outFile' \in Files /\ disk' \in [Paths -> Data]
  <2>1. CASE RefuseMode \/ NotImplemented
    BY <2>1 DEF TypeOK, RefuseMode, NotImplemented, serverVars, Files
  <2>2. CASE WriteRequest
    <3>1. FolderOf(Packet.request) \in Folders /\ Target(Packet.request) \in Paths
      BY <1>1, <2>2, PacketTypes, TargetType DEF WriteRequest, Received
    <3>2. currentBlockNumber' \in -1 .. BlockModulus - 1 /\ cwd' \in Folders
      BY <2>2, <3>1, TftpAssumption DEF WriteRequest, Restarted
    <3>3. <<>> \in Data
      BY DEF Data
    <3>4. outFile' \in Files
      BY <2>2, <3>1, <3>3 DEF WriteRequest, Opened, NotOpen, Files
    <3>5. disk' \in [Paths -> Data]
      BY <2>2, <3>1, <3>3 DEF WriteRequest, TypeOK
    <3> QED BY <3>2, <3>4, <3>5
  <2>3. CASE UnexpectedData
    BY <1>4, <1>5, <2>3 DEF TypeOK, UnexpectedData
  <2>4. CASE DataWritten
    <3>1. Append(outFile.data, Packet.data) \in Data /\ Packet.block \in 0 .. BlockModulus - 1
      BY <1>1, <1>5, <2>4, PacketTypes DEF DataWritten, Received, Data
    <3>2. currentBlockNumber' \in -1 .. BlockModulus - 1 /\ cwd' \in Folders
      BY <2>4, <3>1, TftpAssumption DEF TypeOK, DataWritten
    <3>3. CASE Packet.short
      BY <1>4, <2>4, <3>1, <3>2, <3>3 DEF DataWritten
    <3>4. CASE ~Packet.short
      <4>1. outFile' = Opened(outFile.path, Append(outFile.data, Packet.data)) /\ disk' = disk
        BY <2>4, <3>4, Zenon DEF DataWritten
      <4>2. Opened(outFile.path, Append(outFile.data, Packet.data)) \in Files
        BY <1>5, <3>1 DEF Opened, Files
      <4> QED BY <3>2, <4>1, <4>2 DEF TypeOK
    <3> QED BY <3>3, <3>4
  <2>5. CASE DataNotWritten
    <3>1. Packet.block \in 0 .. BlockModulus - 1
      BY <1>1, <2>5, PacketTypes DEF DataNotWritten, Received
    <3>2. /\ <<>> \in Data
          /\ \A part \in {<<>>, <<Torn>>} : outFile.data \o part \in Data
      BY <1>5 DEF Data, Torn, Blocks
    <3>3. outFile' \in Files /\ disk' \in [Paths -> Data]
      BY <1>4, <2>5, <3>2 DEF DataNotWritten
    <3> QED BY <2>5, <3>1, <3>3, TftpAssumption DEF TypeOK, DataNotWritten
  <2> QED BY <2>1, <2>2, <2>3, <2>4, <2>5 DEF Server
<1> QED BY <1>1, <1>2, <1>3, <1>6 DEF TypeOK, Files

LEMMA SendType ==
  ASSUME TypeOK, NEW m \in Packets, Send(m)
  PROVE  toServer' \in Seq(Packets)
BY Added DEF Send, TypeOK

\* What a client repeats is a block of the file, for it has sent no more.
LEMMA TypeClient == TypeOK /\ Counts /\ Client => TypeOK'
<1> SUFFICES ASSUME TypeOK, Counts, Client PROVE TypeOK'
  OBVIOUS
<1>1. client \in ClientRecords /\ client.request \in Requests /\ client.sent \in Nat /\ uploads \in Nat
  BY DEF TypeOK, ClientRecords
<1>2. ASSUME NEW t \in Nat, NEW r \in Requests PROVE WritePacket(t, r) \in Packets
  BY DEF WritePacket, Packets
<1>3. <<>> \in Data
  BY DEF Data
<1>4. CASE \E r \in Requests : Start(r)
  <2>1. PICK r \in Requests : Start(r)
    BY <1>4
  <2>2. uploads' \in Nat /\ faults' \in Nat /\ retries' \in Nat
    BY <1>1, <2>1 DEF Start, TypeOK
  <2>3. toServer' \in Seq(Packets)
    BY <1>2, <2>1, <2>2, SendType DEF Start
  <2>4. client' \in ClientRecords
    BY <2>1 DEF Start, ClientRecords
  <2>5. promised' \in [Paths -> Data]
    BY <1>3, <2>1 DEF Start, TypeOK
  <2>6. excused' \in BOOLEAN
    BY <2>1, Zenon DEF Start
  <2>7. /\ currentBlockNumber' \in -1 .. BlockModulus - 1
        /\ outFile' \in Files /\ cwd' \in Folders /\ disk' \in [Paths -> Data]
        /\ toClient' \in Seq(Answers)
    BY <2>1 DEF Start, serverVars, TypeOK, Files
  <2> QED BY <2>2, <2>3, <2>4, <2>5, <2>6, <2>7 DEF TypeOK, ClientRecords, Files
<1>5. ASSUME UNCHANGED <<serverVars, promised, uploads>>
      PROVE  /\ currentBlockNumber' \in -1 .. BlockModulus - 1
             /\ outFile' \in Files /\ cwd' \in Folders /\ disk' \in [Paths -> Data]
             /\ promised' \in [Paths -> Data] /\ uploads' \in Nat
  BY <1>5 DEF serverVars, TypeOK, Files
<1>6. Arrived => toClient' \in Seq(Answers)
  BY AnswerTypes DEF Arrived
<1>7. /\ toServer \in Seq(Packets) /\ toClient \in Seq(Answers) /\ excused \in BOOLEAN
      /\ retries \in Nat /\ faults \in Nat /\ promised \in [Paths -> Data]
      /\ disk \in [Paths -> Data]
  BY DEF TypeOK
<1>8. CASE Ignore
  BY <1>1, <1>5, <1>6, <1>7, <1>8 DEF Ignore, countVars, TypeOK, ClientRecords, Files
<1>9. CASE SendNext
  <2>1. client.sent + 1 \in 1 .. client.request.length
    BY <1>1, <1>9, ContentType DEF SendNext
  <2>2. toServer' \in Seq(Packets)
    BY <1>1, <1>9, <2>1, DataPacketType, SendType DEF SendNext
  <2>3. client' \in ClientRecords
    <3>1. client.sent + 1 \in Nat
      BY <1>1
    <3> QED BY <1>1, <1>9, <3>1, Zenon DEF SendNext, ClientRecords
  <2> QED BY <1>5, <1>6, <1>7, <1>9, <2>2, <2>3 DEF SendNext, countVars, TypeOK, ClientRecords, Files
<1>10. CASE Finish
  <2>1. client' \in ClientRecords
    BY <1>1, <1>10, Zenon DEF Finish, ClientRecords
  <2>2. promised' \in [Paths -> Data]
    BY <1>1, <1>7, <1>10, ContentType DEF Finish
  <2> QED BY <1>6, <1>7, <1>10, <2>1, <2>2 DEF Finish, serverVars, countVars, TypeOK, ClientRecords
<1>11. CASE Stop
  <2>1. client' \in ClientRecords
    BY <1>1, <1>11, Zenon DEF Stop, ClientRecords
  <2> QED BY <1>5, <1>6, <1>7, <1>11, <2>1 DEF Stop, countVars, TypeOK, ClientRecords, Files
<1>12. CASE Timeout
  <2>1. (IF client.sent = 0 THEN WritePacket(uploads, client.request)
          ELSE DataPacket(uploads, client.request, client.sent)) \in Packets
    <3>1. CASE client.sent = 0
      BY <1>1, <1>2, <3>1
    <3>2. CASE client.sent # 0
      <4>1. client.sent \in 1 .. client.request.length
        BY <1>1, <3>2, ContentType DEF Counts
      <4> QED BY <1>1, <3>2, <4>1, DataPacketType
    <3> QED BY <3>1, <3>2
  <2>2. toServer' \in Seq(Packets)
    BY <1>12, <2>1, SendType DEF Timeout
  <2>3. excused' \in BOOLEAN
    BY <1>12, Zenon DEF Timeout
  <2>4. retries' \in Nat
    BY <1>7, <1>12 DEF Timeout
  <2> QED BY <1>1, <1>5, <1>7, <1>12, <2>2, <2>3, <2>4 DEF Timeout, TypeOK, ClientRecords, Files
<1>13. CASE GiveUp
  <2>1. client' \in ClientRecords
    BY <1>1, <1>13, Zenon DEF GiveUp, ClientRecords
  <2> QED BY <1>5, <1>7, <1>13, <2>1 DEF GiveUp, countVars, TypeOK, ClientRecords, Files
<1>14. CASE AskToRead
  <2>1. [kind |-> "read", port |-> 0] \in Packets
    BY DEF Packets
  <2>2. toServer' \in Seq(Packets)
    BY <1>14, <2>1, SendType DEF AskToRead
  <2> QED BY <1>5, <1>7, <1>14, <2>2 DEF AskToRead, TypeOK, Files
<1> QED BY <1>4, <1>8, <1>9, <1>10, <1>11, <1>12, <1>13, <1>14 DEF Client

LEMMA TypeNext == TypeOK /\ Counts /\ [Next]_vars => TypeOK'
<1> SUFFICES ASSUME TypeOK, Counts, [Next]_vars PROVE TypeOK'
  OBVIOUS
<1>1. CASE Lose
  <2>1. toServer' \in Seq(Packets) /\ toClient' \in Seq(Answers)
    BY <1>1, PacketTypes, AnswerTypes DEF Lose, TypeOK
  <2>2. faults' \in Nat
    BY <1>1 DEF Lose, TypeOK
  <2>3. excused' \in BOOLEAN
    BY <1>1, Zenon DEF Lose
  <2> QED BY <1>1, <2>1, <2>2, <2>3 DEF Lose, serverVars, TypeOK
<1>2. CASE UNCHANGED vars
  BY <1>2 DEF vars, serverVars, countVars, TypeOK
<1> QED BY <1>1, <1>2, TypeServer, TypeClient DEF Next

-----------------------------------------------------------------------------
(* What a step does to the two queues *)

\* The server takes one packet and answers it, at the port it came from.
LEMMA ServerStep ==
  ASSUME TypeOK, Server
  PROVE  /\ toServer # <<>> /\ toServer' = Tail(toServer)
         /\ UNCHANGED <<client, uploads, retries, promised>>
         /\ (excused' = FALSE) => (excused = FALSE)
         /\ \E kind \in {"ack", "error"}, block \in 0 .. BlockModulus - 1 :
              /\ toClient' = Append(toClient,
                               [kind |-> kind, port |-> Packet.port, block |-> block])
              /\ kind = "ack" => \/ WriteRequest /\ block = 0
                                 \/ DataWritten /\ block = Packet.block
<1>1. /\ toServer # <<>> /\ toServer' = Tail(toServer)
      /\ UNCHANGED <<client, uploads, retries, promised>>
  BY DEF Server, Received, RefuseMode, WriteRequest, UnexpectedData,
         DataWritten, DataNotWritten, NotImplemented
<1>2. (excused' = FALSE) => (excused = FALSE)
  BY DEF Server, Fault, NoFault, RefuseMode, WriteRequest, UnexpectedData,
         DataWritten, DataNotWritten, NotImplemented
<1>3. DataWritten => Packet.block \in 0 .. BlockModulus - 1
  BY PacketTypes DEF DataWritten, Received
<1>4. /\ "ack" \in {"ack", "error"} /\ "error" \in {"ack", "error"} /\ "ack" # "error"
      /\ 0 \in 0 .. BlockModulus - 1
  BY TftpAssumption
<1>5. CASE WriteRequest /\ Ack(0)
  BY <1>1, <1>2, <1>4, <1>5, Zenon DEF Ack, Answer
<1>6. CASE DataWritten
  <2>1. Ack(Packet.block)
    BY <1>6 DEF DataWritten
  <2> QED BY <1>1, <1>2, <1>3, <1>4, <1>6, <2>1, Zenon DEF Ack, Answer
<1>7. CASE Error
  BY <1>1, <1>2, <1>4, <1>7, Zenon DEF Error, Answer
<1>8. (WriteRequest /\ Ack(0)) \/ DataWritten \/ Error
  BY DEF Server, RefuseMode, WriteRequest, UnexpectedData, DataNotWritten, NotImplemented
<1> QED BY <1>5, <1>6, <1>7, <1>8

\* The first packet of a transfer has a smaller rank than those behind it.
LEMMA FirstPacket ==
  ASSUME TypeOK, InOrder, toServer # <<>>
  PROVE  /\ Packet.port <= uploads
         /\ Packet.port = 0 <=> Packet.kind = "read"
         /\ Sending /\ Mine(Packet) => Genuine(Packet)
         /\ \A i \in 1 .. Len(Tail(toServer)) : Tail(toServer)[i].kind # "read" =>
              /\ Packet.port <= Tail(toServer)[i].port
              /\ Sending /\ Mine(Packet) /\ Mine(Tail(toServer)[i]) =>
                   Rank(Packet) <= Rank(Tail(toServer)[i])
<1>1. /\ Packet = toServer[1] /\ Len(toServer) \in Nat \ {0} /\ 1 \in 1 .. Len(toServer)
      /\ Len(Tail(toServer)) = Len(toServer) - 1
      /\ \A i \in 1 .. Len(Tail(toServer)) :
           i + 1 \in 1 .. Len(toServer) /\ Tail(toServer)[i] = toServer[i + 1] /\ 1 < i + 1
  BY Dropped DEF TypeOK, Packet
<1> QED BY <1>1 DEF InOrder

LEMMA TailInOrder ==
  ASSUME TypeOK, InOrder, toServer # <<>>, toServer' = Tail(toServer),
         UNCHANGED <<client, uploads>>
  PROVE  InOrder'
<1>1. /\ Len(toServer) \in Nat \ {0}
      /\ Len(Tail(toServer)) = Len(toServer) - 1
      /\ \A i \in 1 .. Len(Tail(toServer)) :
           i \in Nat /\ i + 1 \in 1 .. Len(toServer) /\ Tail(toServer)[i] = toServer[i + 1]
  BY Dropped DEF TypeOK
<1>2. \A i, j \in 1 .. Len(Tail(toServer)) : i < j => i + 1 < j + 1
  BY <1>1
<1> QED BY <1>1, <1>2 DEF InOrder, Genuine, Sending, Mine, Rank

LEMMA Ranks ==
  ASSUME TypeOK, Counts, NEW m, Genuine(m)
  PROVE  /\ client.sent \in Nat /\ Rank(m) \in 0 .. client.sent
         /\ m.kind # "read"
         /\ m.kind = "write" => m = WritePacket(uploads, client.request) /\ Rank(m) = 0
         /\ m.kind = "data" => /\ Rank(m) \in 1 .. client.sent
                              /\ m = DataPacket(uploads, client.request, Rank(m))
<1>1. client.sent \in Nat /\ client.request \in Requests /\ uploads \in Nat
  BY DEF TypeOK
<1>2. CASE m = WritePacket(uploads, client.request)
  BY <1>1, <1>2 DEF WritePacket, Rank
<1>3. CASE \E k \in 1 .. client.sent : m = DataPacket(uploads, client.request, k)
  <2>1. PICK k \in 1 .. client.sent : m = DataPacket(uploads, client.request, k)
    BY <1>3
  <2>2. k \in 1 .. client.request.length /\ k \in Nat
    BY <1>1, ContentType DEF Counts
  <2>3. m.kind = "data" /\ m.data[2] = k
    BY <1>1, <2>1, <2>2, DataPacketType DEF DataPacket
  <2>4. Rank(m) = k
    BY <2>3 DEF Rank
  <2> QED BY <1>1, <2>1, <2>2, <2>3, <2>4
<1> QED BY <1>2, <1>3 DEF Genuine, IsOf

\* The client sends what belongs to its transfer, no block before an earlier
\* one, or a question to read.
LEMMA SentInOrder ==
  ASSUME TypeOK, Counts, Counts', TypeOK', InOrder, NEW m \in Packets, Send(m), Sending, Sending', uploads' = uploads,
         client'.request = client.request, client'.sent \in Nat, client.sent <= client'.sent,
         \/ m.port = 0 /\ m.kind = "read"
         \/ /\ Mine(m) /\ m.port # 0 /\ m.kind # "read"
            /\ IsOf(m, uploads, client.request, client'.sent)
            /\ Rank(m) = client'.sent
  PROVE  InOrder'
<1>1. /\ Len(toServer) \in Nat
      /\ Len(toServer') = Len(toServer) + 1
      /\ \A i \in 1 .. Len(toServer') :
           /\ i \in Nat
           /\ \/ i \in 1 .. Len(toServer) /\ toServer'[i] = toServer[i]
              \/ i = Len(toServer) + 1 /\ toServer'[i] = m
  BY Added DEF TypeOK, Send
<1>2. client.sent \in Nat /\ client.request \in Requests /\ uploads \in Nat
  BY DEF TypeOK
<1> DEFINE old(x) == IsOf(x, uploads, client.request, client.sent)
           new(x) == IsOf(x, uploads, client.request, client'.sent)
<1>3. \A x : old(x) => new(x) /\ Rank(x) \in 0 .. client'.sent
  <2> SUFFICES ASSUME NEW x, old(x) PROVE new(x) /\ Rank(x) \in 0 .. client'.sent
    OBVIOUS
  <2>1. 1 .. client.sent \subseteq 1 .. client'.sent /\ 0 .. client.sent \subseteq 0 .. client'.sent
    BY <1>2
  <2>2. Rank(x) \in 0 .. client.sent
    BY Ranks DEF Genuine
  <2> QED BY <2>1, <2>2 DEF IsOf
<1>4. \A i \in 1 .. Len(toServer) : Mine(toServer[i]) =>
         new(toServer[i]) /\ Rank(toServer[i]) \in 0 .. client'.sent
  BY <1>3 DEF InOrder, Genuine
<1>5. \/ m.port = uploads /\ m.port # 0 /\ m.kind # "read" /\ new(m) /\ Rank(m) = client'.sent
      \/ m.port = 0 /\ m.kind = "read"
  BY DEF Genuine, Mine
<1> HIDE DEF old, new
<1>6. ASSUME NEW i \in 1 .. Len(toServer')
      PROVE  /\ toServer'[i].port <= uploads
             /\ toServer'[i].port = 0 <=> toServer'[i].kind = "read"
             /\ toServer'[i].port = uploads => new(toServer'[i])
  <2>1. CASE i \in 1 .. Len(toServer) /\ toServer'[i] = toServer[i]
    BY <1>4, <2>1 DEF InOrder, Mine
  <2>2. CASE toServer'[i] = m
    BY <1>2, <1>5, <2>2 DEF Mine, Counts
  <2> QED BY <1>1, <2>1, <2>2
<1>7. ASSUME NEW i \in 1 .. Len(toServer'), NEW j \in 1 .. Len(toServer'),
             i < j, toServer'[j].kind # "read"
      PROVE  /\ toServer'[i].port <= toServer'[j].port
             /\ toServer'[i].port = uploads /\ toServer'[j].port = uploads =>
                  Rank(toServer'[i]) <= Rank(toServer'[j])
  <2>1. i \in Nat /\ j \in Nat /\ i \in 1 .. Len(toServer) /\ toServer'[i] = toServer[i]
    BY <1>1, <1>7
  <2>2. CASE j \in 1 .. Len(toServer) /\ toServer'[j] = toServer[j]
    BY <1>7, <2>1, <2>2 DEF InOrder, Mine
  <2>3. CASE toServer'[j] = m
    <3>1. m.port = uploads /\ Rank(m) = client'.sent
      BY <1>5, <1>7, <2>3 DEF Mine
    <3>2. toServer[i].port <= uploads
      BY <2>1 DEF InOrder
    <3>3. toServer[i].port = uploads => Rank(toServer[i]) \in 0 .. client'.sent
      BY <1>4, <2>1 DEF Mine
    <3> QED BY <1>2, <2>1, <2>3, <3>1, <3>2, <3>3
  <2> QED BY <1>1, <2>2, <2>3
<1> QED BY <1>6, <1>7 DEF InOrder, Genuine, Mine, new

\* The answers, one of them dropped.
LEMMA TailOfAnswers ==
  ASSUME TypeOK, AnswersInOrder, toClient # <<>>, toClient' = Tail(toClient),
         UNCHANGED <<client, uploads>>
  PROVE  AnswersInOrder'
<1>1. /\ Len(toClient) \in Nat \ {0}
      /\ Len(Tail(toClient)) = Len(toClient) - 1
      /\ \A i \in 1 .. Len(Tail(toClient)) :
           i \in Nat /\ i + 1 \in 1 .. Len(toClient) /\ Tail(toClient)[i] = toClient[i + 1]
  BY Dropped DEF TypeOK
<1>2. \A i, j \in 1 .. Len(Tail(toClient)) : i < j => i + 1 < j + 1
  BY <1>1
<1> QED BY <1>1, <1>2 DEF AnswersInOrder, Sending, MyAck, Mine

\* Acknowledgements that arrive are of the block the client waits for, and the
\* first has the smallest number.
LEMMA FirstAnswer ==
  ASSUME TypeOK, Counts, AnswersInOrder, Sending, Arrived, Awaited, Reply.kind = "ack"
  PROVE  /\ MyAck(Reply) /\ Reply.block = client.sent /\ client.sent < BlockModulus
         /\ 1 \in 1 .. Len(toClient) /\ Reply = toClient[1]
         /\ Acknowledged(client.sent)
         /\ \A i \in 1 .. Len(toClient) : MyAck(toClient[i]) => toClient[i].block = client.sent
<1>1. /\ Len(toClient) \in Nat \ {0} /\ 1 \in 1 .. Len(toClient) /\ Reply = toClient[1]
      /\ \A i \in 1 .. Len(toClient) : i \in Nat /\ (i = 1 \/ 1 < i)
  BY Dropped DEF TypeOK, Arrived, Reply
<1>2. /\ client.sent \in Nat /\ client.sent <= BlockModulus /\ BlockModulus \in Nat \ {0, 1}
      /\ \A i \in 1 .. Len(toClient) : toClient[i].block \in 0 .. BlockModulus - 1
  <2>1. \A i \in 1 .. Len(toClient) : toClient[i] \in Answers
    BY DEF TypeOK
  <2> QED BY <2>1, TftpAssumption DEF TypeOK, Counts, Answers
<1>3. MyAck(Reply)
  BY DEF MyAck, Mine, Awaited
<1>4. Reply.block = client.sent % BlockModulus
  BY DEF Awaited
<1>5. Reply.block <= client.sent /\ client.sent <= Reply.block + 1
  BY <1>1, <1>3 DEF AnswersInOrder
<1>6. client.sent < BlockModulus
  <2>1. CASE client.sent = BlockModulus
    BY <1>2, <1>4, <1>5, <2>1, ModItself
  <2> QED BY <1>2, <2>1
<1>7. Reply.block = client.sent
  BY <1>2, <1>4, <1>6, ModSmall
<1>8. ASSUME NEW i \in 1 .. Len(toClient), MyAck(toClient[i])
      PROVE  toClient[i].block = client.sent
  <2>1. toClient[i].block <= client.sent /\ Reply.block <= toClient[i].block
    BY <1>1, <1>2, <1>3, <1>8 DEF AnswersInOrder
  <2> QED BY <1>2, <1>7, <2>1
<1> QED BY <1>1, <1>3, <1>6, <1>7, <1>8 DEF Acknowledged

-----------------------------------------------------------------------------
(* The server, with a packet of the client's transfer *)

\* Once a block was acknowledged there is nothing left of older transfers.
LEMMA OldOnesGone ==
  ASSUME Inv, Sending, NEW k \in Nat, Acknowledged(k), toServer # <<>>, Packet.kind # "read"
  PROVE  Mine(Packet) /\ Genuine(Packet) /\ k <= Rank(Packet)
<1>1. 1 \in 1 .. Len(toServer) /\ Packet = toServer[1]
  BY Dropped DEF Inv, TypeOK, Packet
<1> QED BY <1>1 DEF Inv, Kept, Reached, InOrder

\* A block of data that is taken is the next one, and so is its number.
LEMMA NextBlock ==
  ASSUME Inv, Sending, Received("data"), Expected, Mine(Packet)
  PROVE  /\ Rank(Packet) \in 1 .. client.sent
         /\ Rank(Packet) = currentBlockNumber + 1 /\ Packet.block = Rank(Packet)
         /\ Packet = DataPacket(uploads, client.request, Rank(Packet))
         /\ Packet.data = <<uploads, Rank(Packet)>>
         /\ Packet.short = (Rank(Packet) = client.request.length)
         /\ client.sent - 1 \in Nat /\ Acknowledged(client.sent - 1)
         /\ Reached(client.sent - 1) /\ (Plain(client.request) => Stored(client.sent - 1))
<1> DEFINE k == Rank(Packet)
<1>1. TypeOK /\ Counts /\ InOrder /\ Kept
  BY DEF Inv
<1>2. Genuine(Packet) /\ Packet.kind = "data" /\ toServer # <<>>
  BY <1>1, FirstPacket DEF Received
<1>3. k \in 1 .. client.sent /\ Packet = DataPacket(uploads, client.request, k)
  BY <1>1, <1>2, Ranks
<1>4. /\ client.sent \in Nat /\ client.request \in Requests /\ uploads \in Nat
      /\ BlockModulus \in Nat \ {0, 1} /\ currentBlockNumber \in -1 .. BlockModulus - 1
      /\ client.sent <= client.request.length /\ client.sent <= BlockModulus
      /\ client.request.length \in Nat
  BY <1>1, TftpAssumption, ContentType DEF TypeOK, Counts
<1>5. client.sent - 1 \in Nat /\ Acknowledged(client.sent - 1)
  BY <1>3, <1>4 DEF Acknowledged
<1>6. Reached(client.sent - 1) /\ (Plain(client.request) => Stored(client.sent - 1))
  BY <1>1, <1>5 DEF Kept
<1>7. k \in Nat /\ k \in 1 .. client.request.length /\ k <= BlockModulus
  BY <1>3, <1>4
<1>8. Packet.block = k % BlockModulus /\ Packet.short = (k = client.request.length)
  BY <1>3 DEF DataPacket
<1>9. Packet.data = <<uploads, k>>
  BY <1>3, <1>4, <1>7, DataPacketType
<1>10. currentBlockNumber >= 0 /\ Packet.block = currentBlockNumber + 1
  BY <1>6 DEF Reached, Expected
<1>11. k # BlockModulus
  BY <1>4, <1>8, <1>10, ModItself
<1>12. Packet.block = k
  BY <1>4, <1>7, <1>8, <1>11, ModSmall
<1> HIDE DEF k
<1> QED BY <1>3, <1>5, <1>6, <1>8, <1>9, <1>10, <1>12 DEF k

\* What an acknowledgement of the server says: the rank of the packet.
LEMMA AckIsRank ==
  ASSUME Inv, Sending, Server, Mine(Packet), NEW block,
         \/ WriteRequest /\ block = 0
         \/ DataWritten /\ block = Packet.block
  PROVE  /\ block = Rank(Packet) /\ block \in 0 .. client.sent /\ client.sent <= block + 1
         /\ \A i \in 1 .. Len(toClient) : MyAck(toClient[i]) => toClient[i].block <= block
<1>1. TypeOK /\ Counts /\ InOrder /\ Kept /\ AnswersInOrder
  BY DEF Inv
<1>2. Packet.kind # "read" /\ toServer # <<>>
  BY <1>1, FirstPacket DEF WriteRequest, DataWritten, Received
<1>3. Genuine(Packet) /\ client.sent \in Nat
  BY <1>1, <1>2, FirstPacket DEF TypeOK
<1>4. block = Rank(Packet) /\ block \in 0 .. client.sent
  <2>1. CASE WriteRequest /\ block = 0
    BY <1>1, <1>3, <2>1, Ranks DEF WriteRequest, Received
  <2>2. CASE DataWritten /\ block = Packet.block
    BY <1>3, <2>2, NextBlock DEF DataWritten
  <2> QED BY <2>1, <2>2
<1>5. client.sent <= block + 1
  <2>1. CASE client.sent = 0
    BY <1>4, <2>1
  <2>2. CASE client.sent > 0
    <3>1. client.sent - 1 \in Nat /\ Acknowledged(client.sent - 1)
      BY <1>3, <2>2 DEF Acknowledged
    <3>2. client.sent - 1 <= Rank(Packet)
      BY <1>2, <3>1, OldOnesGone
    <3> QED BY <1>3, <1>4, <3>2
  <2> QED BY <1>3, <2>1, <2>2
<1>6. ASSUME NEW i \in 1 .. Len(toClient), MyAck(toClient[i])
      PROVE  toClient[i].block <= block
  <2>1. toClient[i] \in Answers
    BY <1>1 DEF TypeOK
  <2>2. toClient[i].block \in Nat
    BY <2>1, TftpAssumption DEF Answers
  <2>3. Acknowledged(toClient[i].block)
    BY <1>6 DEF Acknowledged
  <2> QED BY <1>2, <1>4, <2>2, <2>3, OldOnesGone
<1> QED BY <1>4, <1>5, <1>6

LEMMA ServerAnswersInOrder == Inv /\ Server => AnswersInOrder'
<1> SUFFICES ASSUME Inv, Server PROVE AnswersInOrder'
  OBVIOUS
<1>1. TypeOK /\ InOrder /\ AnswersInOrder /\ client.sent \in Nat
  BY DEF Inv, TypeOK
<1>2. toServer # <<>> /\ UNCHANGED <<client, uploads>>
  BY <1>1, ServerStep
<1>3. PICK kind \in {"ack", "error"}, block \in 0 .. BlockModulus - 1 :
        /\ toClient' = Append(toClient,
                         [kind |-> kind, port |-> Packet.port, block |-> block])
        /\ kind = "ack" => \/ WriteRequest /\ block = 0
                           \/ DataWritten /\ block = Packet.block
  BY <1>1, ServerStep
<1> DEFINE a == [kind |-> kind, port |-> Packet.port, block |-> block]
<1>4. a \in Answers /\ a.port <= uploads
  BY <1>1, <1>2, PacketTypes, FirstPacket DEF Answers
<1>5. Sending /\ MyAck(a) =>
        /\ block <= client.sent /\ client.sent <= block + 1
        /\ \A i \in 1 .. Len(toClient) : MyAck(toClient[i]) => toClient[i].block <= block
  BY <1>1, <1>3, AckIsRank DEF MyAck, Mine
<1>6. /\ Len(toClient) \in Nat
      /\ Len(toClient') = Len(toClient) + 1
      /\ \A i \in 1 .. Len(toClient') :
           /\ i \in Nat
           /\ \/ i \in 1 .. Len(toClient) /\ toClient'[i] = toClient[i]
              \/ i = Len(toClient) + 1 /\ toClient'[i] = a
  BY <1>1, <1>3, <1>4, Added DEF TypeOK
<1>7. a.block = block /\ block \in Nat
  BY TftpAssumption
<1> HIDE DEF a
<1>8. ASSUME NEW i \in 1 .. Len(toClient')
      PROVE  /\ toClient'[i].port <= uploads
             /\ Sending /\ MyAck(toClient'[i]) =>
                  /\ toClient'[i].block <= client.sent /\ client.sent <= toClient'[i].block + 1
                  /\ MyAck(a) => toClient'[i].block <= block
  <2>1. CASE toClient'[i] = a
    BY <1>4, <1>5, <1>7, <2>1
  <2>2. CASE i \in 1 .. Len(toClient) /\ toClient'[i] = toClient[i]
    BY <1>1, <1>5, <2>2 DEF AnswersInOrder
  <2> QED BY <1>6, <2>1, <2>2
<1>9. ASSUME NEW i \in 1 .. Len(toClient'), NEW j \in 1 .. Len(toClient'), i < j,
             Sending, MyAck(toClient'[i]), MyAck(toClient'[j])
      PROVE  toClient'[i].block <= toClient'[j].block
  <2>1. i \in 1 .. Len(toClient) /\ toClient'[i] = toClient[i]
    BY <1>6, <1>9
  <2>2. CASE toClient'[j] = a
    BY <1>7, <1>8, <1>9, <2>2
  <2>3. CASE j \in 1 .. Len(toClient) /\ toClient'[j] = toClient[j]
    BY <1>1, <1>9, <2>1, <2>3 DEF AnswersInOrder
  <2> QED BY <1>6, <2>2, <2>3
<1> QED BY <1>2, <1>8, <1>9 DEF AnswersInOrder, Sending, MyAck, Mine

-----------------------------------------------------------------------------
(* What the server has of the blocks acknowledged *)

Holds(k) ==
  /\ currentBlockNumber >= 0
  /\ IsOpen => Len(outFile.data) = currentBlockNumber
  /\ k = client.request.length => ~IsOpen
  /\ Plain(client.request) => Stored(k)

LEMMA PathType ==
  ASSUME TypeOK
  PROVE  /\ IsOpen <=> outFile.path \in Paths
         /\ outFile.data \in Data /\ disk \in [Paths -> Data]
         /\ client.request \in Requests /\ client.request.length \in Nat \ {0}
         /\ client.sent \in Nat /\ uploads \in Nat
         /\ Plain(client.request) =>
              /\ MyPath \in Paths /\ MyPath # NoPath /\ Target(client.request) = MyPath
              /\ MyData \in Data
<1>1. /\ outFile.path \in Paths \union {NoPath} /\ outFile.data \in Data
      /\ disk \in [Paths -> Data] /\ client.request \in Requests
      /\ client.sent \in Nat /\ uploads \in Nat
  BY DEF TypeOK
<1>2. client.request.name \in Names /\ client.request.length \in Nat \ {0}
  BY <1>1, TftpAssumption DEF RequestRecords
<1>3. Plain(client.request) =>
        MyPath \in Paths /\ Target(client.request) = MyPath
  BY <1>2 DEF Plain, MyPath, Paths, Target, FolderOf, NameOf
<1> QED BY <1>1, <1>2, <1>3, TftpAssumption DEF IsOpen, MyData

LEMMA CloseKeeps ==
  ASSUME TypeOK, NEW data \in Data, Close(data), UNCHANGED <<client, uploads>>
  PROVE  /\ ~IsOpen' /\ (IsOpen => disk'[outFile.path] = data) /\ (~IsOpen => disk' = disk)
         /\ Plain(client.request) =>
              MyData' = IF IsOpen /\ outFile.path = MyPath THEN data ELSE disk[MyPath]
<1>1. outFile'.path = NoPath /\ ~IsOpen'
  BY DEF Close, NotOpen, IsOpen
<1>2. IsOpen => disk' = [disk EXCEPT ![outFile.path] = data]
  BY DEF Close
<1>3. ~IsOpen => disk' = disk
  BY DEF Close
<1>4. ASSUME Plain(client.request)
      PROVE  MyData' = IF IsOpen /\ outFile.path = MyPath THEN data ELSE disk[MyPath]
  <2>1. MyPath \in Paths /\ MyPath # NoPath /\ MyPath' = MyPath
    BY <1>4, PathType DEF MyPath
  <2>2. MyData' = disk'[MyPath]
    BY <1>1, <2>1 DEF MyData
  <2> QED BY <1>2, <1>3, <2>1, <2>2, PathType
<1> QED BY <1>1, <1>2, <1>3, <1>4, PathType

LEMMA HoldsAfterRequest ==
  ASSUME Inv, Sending, WriteRequest, Mine(Packet)
  PROVE  Holds(0)'
<1>1. TypeOK /\ UNCHANGED <<client, uploads>> /\ toServer # <<>> /\ InOrder /\ Counts
  BY DEF Inv, WriteRequest, Received
<1>2. Packet.request = client.request
  BY <1>1, FirstPacket, Ranks DEF WriteRequest, Received, WritePacket
<1>3. currentBlockNumber' = 0
  BY DEF WriteRequest, Restarted
<1>4. client.request.length # 0
  BY <1>1, PathType
<1>5. CASE outFile' = Opened(Target(Packet.request), <<>>)
  <2>1. outFile'.data = <<>> /\ outFile'.path = Target(client.request)
    BY <1>2, <1>5 DEF Opened
  <2>2. Plain(client.request) => /\ outFile'.path = MyPath' /\ MyData' = <<>>
    BY <1>1, <2>1, PathType DEF MyPath, MyData
  <2> QED BY <1>1, <1>3, <1>4, <2>1, <2>2 DEF Holds, Stored
<1>6. CASE outFile' = NotOpen
  <2>1. ~IsOpen'
    BY <1>6 DEF NotOpen, IsOpen
  <2>2. disk' \in [Paths -> Data]
    BY <1>1, TypeServer DEF Server, TypeOK
  <2>3. Plain(client.request) => MyData' \in Data
    <3>1. Plain(client.request) => MyPath \in Paths /\ MyPath # NoPath /\ MyPath' = MyPath
      BY <1>1, PathType DEF MyPath
    <3>2. Plain(client.request) => MyData' = disk'[MyPath]
      BY <1>6, <3>1 DEF MyData, NotOpen
    <3> QED BY <2>2, <3>1, <3>2
  <2>4. Plain(client.request) => Len(MyData') \in Nat
    BY <2>3 DEF Data
  <2> QED BY <1>1, <1>3, <1>4, <2>1, <2>4 DEF Holds, Stored
<1> QED BY <1>5, <1>6 DEF WriteRequest

LEMMA HoldsAfterClose ==
  ASSUME Inv, Sending, NEW k \in Nat, Acknowledged(k), NEW part \in Data,
         Close(IF IsOpen THEN outFile.data \o part ELSE <<>>), UNCHANGED <<client, uploads>>,
         currentBlockNumber' \in Nat
  PROVE  Holds(k)'
<1>1. TypeOK /\ Reached(k) /\ (Plain(client.request) => Stored(k))
  BY DEF Inv, Kept
<1>2. outFile.data \o part \in Data /\ <<>> \in Data
  BY <1>1, PathType DEF Data
<1>3. ~IsOpen'
  BY <1>1, <1>2, CloseKeeps
<1>4. ASSUME Plain(client.request) PROVE Stored(k)'
  <2>1. CASE IsOpen
    <3>1. outFile.path = MyPath /\ k # client.request.length
      BY <1>1, <1>4, <2>1 DEF Reached, Stored
    <3>2. MyData' = outFile.data \o part /\ MyData = outFile.data
      BY <1>1, <1>2, <1>4, <2>1, <3>1, CloseKeeps DEF MyData
    <3>3. \A i \in 1 .. Len(outFile.data) :
             i \in 1 .. Len(outFile.data \o part) /\ (outFile.data \o part)[i] = outFile.data[i]
      BY <1>1, PathType DEF Data
    <3>4. Len(outFile.data) \in Nat /\ Len(part) \in Nat
          /\ Len(outFile.data \o part) = Len(outFile.data) + Len(part)
      BY <1>1, PathType DEF Data
    <3> QED BY <1>1, <1>3, <1>4, <3>1, <3>2, <3>3, <3>4 DEF Stored
  <2>2. CASE ~IsOpen
    <3>1. disk' = disk /\ MyData' = disk[MyPath] /\ MyPath' = MyPath
      BY <1>1, <1>2, <1>4, <2>2, CloseKeeps DEF MyPath
    <3>2. MyData = disk[MyPath]
      BY <1>1, <1>4, <2>2, PathType DEF MyData, IsOpen
    <3> QED BY <1>1, <1>3, <1>4, <3>1, <3>2 DEF Stored
  <2> QED BY <2>1, <2>2
<1> QED BY <1>3, <1>4 DEF Holds

LEMMA HoldsAfterBlock ==
  ASSUME Inv, Sending, DataWritten, Mine(Packet), NEW k \in Nat, k <= Rank(Packet)
  PROVE  Holds(k)'
<1> DEFINE j == Rank(Packet)
           data == Append(outFile.data, Packet.data)
<1>1. TypeOK /\ UNCHANGED <<client, uploads>> /\ IsOpen /\ Counts
  BY DEF Inv, DataWritten, Received
<1>2. /\ j \in 1 .. client.sent /\ j = currentBlockNumber + 1 /\ Packet.block = j
      /\ Packet.data = <<uploads, j>> /\ Packet.short = (j = client.request.length)
      /\ Reached(client.sent - 1) /\ (Plain(client.request) => Stored(client.sent - 1))
  BY NextBlock DEF DataWritten
<1>3. /\ client.sent \in Nat /\ client.request.length \in Nat \ {0} /\ uploads \in Nat
      /\ outFile.data \in Data /\ client.sent <= client.request.length
      /\ currentBlockNumber \in Int /\ client.request \in Requests
  BY <1>1, PathType, TftpAssumption DEF Counts, TypeOK
<1>4. j \in Nat \ {0} /\ j <= client.request.length
  BY <1>2, <1>3
<1>5. Len(outFile.data) = currentBlockNumber
  BY <1>1, <1>2 DEF Reached
<1>6. /\ <<uploads, j>> \in Blocks /\ data \in Data /\ Len(data) = j /\ data[j] = <<uploads, j>>
      /\ \A i \in 1 .. Len(outFile.data) : data[i] = outFile.data[i]
  BY <1>2, <1>3, <1>4, <1>5 DEF Blocks, Data
<1>7. currentBlockNumber' = j
  BY <1>2 DEF DataWritten
<1>8. Plain(client.request) =>
        outFile.path = MyPath /\ \A i \in 1 .. j : data[i] = <<uploads, i>>
  <2> SUFFICES ASSUME Plain(client.request), NEW i \in 1 .. j
               PROVE  outFile.path = MyPath /\ data[i] = <<uploads, i>>
    BY <1>1, <1>2 DEF Stored
  <2>1. /\ outFile.path = MyPath
        /\ \A n \in 1 .. Len(outFile.data) : outFile.data[n] = <<uploads, n>>
    BY <1>1, <1>2 DEF Stored
  <2>2. i = j \/ i \in 1 .. Len(outFile.data)
    BY <1>2, <1>4, <1>5
  <2> QED BY <1>6, <2>1, <2>2
<1>9. Plain(client.request) => MyPath' = MyPath /\ MyPath # NoPath
  BY <1>1, PathType DEF MyPath
<1> HIDE DEF j
<1>10. CASE Packet.short
  <2>0. j = client.request.length
    BY <1>2, <1>10, Zenon
  <2>1. Close(data)
    BY <1>10, Zenon DEF DataWritten
  <2>2. ~IsOpen' /\ (IsOpen => disk'[outFile.path] = data)
    BY <1>1, <1>6, <2>1, CloseKeeps
  <2>3. ASSUME Plain(client.request) PROVE Stored(k)'
    <3>1. MyData' = data /\ disk'[MyPath'] = data
      BY <1>1, <1>6, <1>8, <1>9, <2>1, <2>2, <2>3, CloseKeeps
    <3>2. data = Content(uploads, client.request)
      <4>1. /\ Content(uploads, client.request) \in Data
            /\ Len(Content(uploads, client.request)) = client.request.length
            /\ \A i \in 1 .. client.request.length :
                 Content(uploads, client.request)[i] = <<uploads, i>>
        BY <1>3, ContentType
      <4> HIDE DEF data
      <4>2. Len(data) = client.request.length
            /\ \A i \in 1 .. client.request.length : data[i] = <<uploads, i>>
        BY <1>6, <1>8, <2>0, <2>3
      <4>3. data \in Seq(Blocks) /\ Content(uploads, client.request) \in Seq(Blocks)
        BY <1>6, <4>1 DEF Data
      <4>4. \A i \in 1 .. client.request.length : data[i] = Content(uploads, client.request)[i]
        BY <4>1, <4>2
      <4>5. client.request.length \in Nat
        BY <1>3
      <4> QED BY <4>1, <4>2, <4>3, <4>4, <4>5, SameData, Zenon
    <3> HIDE DEF data
    <3> QED BY <1>1, <1>4, <1>6, <1>8, <2>0, <2>2, <2>3, <3>1, <3>2 DEF Stored, j
  <2> QED BY <1>1, <1>4, <1>7, <2>2, <2>3 DEF Holds
<1>11. CASE ~Packet.short
  <2>1. outFile' = Opened(outFile.path, data)
    BY <1>11, Zenon DEF DataWritten
  <2>2. outFile'.path = outFile.path /\ outFile'.data = data
    BY <2>1 DEF Opened
  <2>3. k # client.request.length
    <3>1. j # client.request.length
      BY <1>2, <1>11, Zenon
    <3> QED BY <1>3, <1>4, <3>1 DEF j
  <2>4. Plain(client.request) => MyData' = data
    BY <1>8, <1>9, <2>2 DEF MyData
  <2> HIDE DEF data
  <2>5. Plain(client.request) => Stored(k)'
    BY <1>1, <1>4, <1>6, <1>8, <1>9, <2>2, <2>3, <2>4 DEF Stored, j
  <2> QED BY <1>1, <1>4, <1>6, <1>7, <2>2, <2>3, <2>5 DEF Holds
<1> QED BY <1>10, <1>11

LEMMA ServerHolds ==
  ASSUME Inv, Sending, Server, Mine(Packet), NEW k \in Nat, k <= Rank(Packet),
         Acknowledged(k) \/ WriteRequest \/ DataWritten
  PROVE  Holds(k)'
<1>1. TypeOK /\ InOrder /\ Counts /\ toServer # <<>> /\ UNCHANGED <<client, uploads>>
  BY ServerStep DEF Inv
<1>2. Genuine(Packet) /\ Packet.kind # "read"
  BY <1>1, FirstPacket, Ranks
<1>3. CASE RefuseMode
  <2>1. UNCHANGED serverVars /\ Acknowledged(k)
    BY <1>1, <1>2, <1>3 DEF RefuseMode, WriteRequest, DataWritten, Received
  <2>2. Reached(k) /\ (Plain(client.request) => Stored(k))
    BY <2>1 DEF Inv, Kept
  <2> QED BY <1>1, <2>1, <2>2 DEF serverVars, Reached, Stored, Holds, IsOpen, MyData, MyPath
<1>4. CASE WriteRequest
  <2>1. Rank(Packet) = 0
    BY <1>1, <1>2, <1>4, Ranks DEF WriteRequest, Received
  <2> QED BY <1>4, <2>1, HoldsAfterRequest
<1>5. CASE DataWritten
  BY <1>5, HoldsAfterBlock
<1>6. CASE UnexpectedData
  <2>1. Acknowledged(k) /\ currentBlockNumber' \in Nat
    <3>1. Acknowledged(k)
      BY <1>6 DEF WriteRequest, DataWritten, UnexpectedData, Received
    <3>2. currentBlockNumber >= 0
      BY <3>1 DEF Inv, Kept, Reached
    <3> QED BY <1>1, <1>6, <3>1, <3>2 DEF UnexpectedData, TypeOK
  <2>2. <<>> \in Data /\ outFile.data \o <<>> = outFile.data
    BY <1>1, PathType DEF Data
  <2>3. Close(IF IsOpen THEN outFile.data \o <<>> ELSE <<>>)
    BY <1>6, <2>2 DEF UnexpectedData, Close
  <2> QED BY <1>1, <2>1, <2>2, <2>3, HoldsAfterClose
<1>7. CASE DataNotWritten
  <2>1. Acknowledged(k) /\ currentBlockNumber' \in Nat
    <3>1. Packet.block \in Nat
      BY <1>1, <1>7, PacketTypes, TftpAssumption DEF DataNotWritten, Received
    <3>2. ~DataWritten
      <4>1. Error /\ "ack" # "error"
        BY <1>7 DEF DataNotWritten
      <4>2. toClient \in Seq(Answers)
        BY <1>1 DEF TypeOK
      <4>3. DataWritten => Ack(Packet.block)
        BY DEF DataWritten
      <4>4. [kind |-> "ack", port |-> Packet.port, block |-> Packet.block] \in Answers
            /\ [kind |-> "error", port |-> Packet.port, block |-> 0] \in Answers
        BY <1>1, <1>7, PacketTypes, TftpAssumption DEF Answers, DataNotWritten, Received
      <4> QED BY <4>1, <4>2, <4>3, <4>4 DEF Ack, Error, Answer
    <3> QED BY <1>7, <3>1, <3>2 DEF DataNotWritten, WriteRequest, Received
  <2>2. <<>> \in Data /\ <<Torn>> \in Data
    BY DEF Data, Torn, Blocks
  <2>3. CASE ~IsOpen /\ Close(<<>>)
    BY <1>1, <2>1, <2>2, <2>3, HoldsAfterClose
  <2>4. CASE IsOpen /\ \E part \in {<<>>, <<Torn>>} : Close(outFile.data \o part)
    BY <1>1, <2>1, <2>2, <2>4, HoldsAfterClose
  <2> QED BY <1>7, <2>3, <2>4 DEF DataNotWritten
<1>8. CASE NotImplemented
  BY <1>2, <1>8 DEF NotImplemented, Received
<1> QED BY <1>3, <1>4, <1>5, <1>6, <1>7, <1>8 DEF Server

LEMMA ServerKept == Inv /\ Server => Kept'
<1> SUFFICES ASSUME Inv, Server, NEW k \in Nat, Sending', Acknowledged(k)'
             PROVE  (Reached(k) /\ (Plain(client.request) => Stored(k)))'
  BY DEF Kept
<1>1. /\ TypeOK /\ InOrder /\ Counts /\ toServer # <<>> /\ toServer' = Tail(toServer)
      /\ client' = client /\ uploads' = uploads
  BY ServerStep DEF Inv
<1>2. Sending
  BY <1>1 DEF Sending
<1>3. \/ Acknowledged(k)
      \/ Mine(Packet) /\ k = Rank(Packet) /\ (WriteRequest \/ DataWritten)
  <2>1. CASE k + 1 = client'.sent
    BY <1>1, <2>1 DEF Acknowledged
  <2>2. CASE \E i \in 1 .. Len(toClient') : MyAck(toClient[i])' /\ toClient'[i].block = k
    <3>1. PICK kind \in {"ack", "error"}, block \in 0 .. BlockModulus - 1 :
            /\ toClient' = Append(toClient,
                             [kind |-> kind, port |-> Packet.port, block |-> block])
            /\ kind = "ack" => \/ WriteRequest /\ block = 0
                               \/ DataWritten /\ block = Packet.block
      BY <1>1, ServerStep
    <3> DEFINE a == [kind |-> kind, port |-> Packet.port, block |-> block]
    <3>2. a \in Answers
      BY <1>1, PacketTypes DEF Answers
    <3>3. PICK i \in 1 .. Len(toClient') : MyAck(toClient[i])' /\ toClient'[i].block = k
      BY <2>2
    <3>4. CASE i \in 1 .. Len(toClient) /\ toClient'[i] = toClient[i]
      BY <1>1, <3>3, <3>4 DEF Acknowledged, MyAck, Mine
    <3>5. CASE toClient'[i] = a
      <4>1. kind = "ack" /\ block = k /\ Mine(Packet)
        BY <1>1, <3>3, <3>5 DEF MyAck, Mine
      <4> QED BY <1>2, <3>1, <4>1, AckIsRank
    <3> QED BY <1>1, <3>1, <3>2, <3>3, <3>4, <3>5, Added DEF TypeOK
  <2> QED BY <2>1, <2>2 DEF Acknowledged
<1>4. ASSUME NEW i \in 1 .. Len(Tail(toServer)), Tail(toServer)[i].kind # "read"
      PROVE  Mine(Tail(toServer)[i]) /\ k <= Rank(Tail(toServer)[i])
  <2>1. i + 1 \in 1 .. Len(toServer) /\ Tail(toServer)[i] = toServer[i + 1]
    BY <1>1, Dropped DEF TypeOK
  <2>2. CASE Acknowledged(k)
    BY <1>2, <1>4, <2>1, <2>2 DEF Inv, Kept, Reached
  <2>3. CASE Mine(Packet) /\ k = Rank(Packet)
    <3>1. /\ Packet.port <= Tail(toServer)[i].port
          /\ Mine(Tail(toServer)[i]) => Rank(Packet) <= Rank(Tail(toServer)[i])
      BY <1>1, <1>2, <1>4, <2>3, FirstPacket
    <3>2. toServer[i + 1].port <= uploads /\ toServer[i + 1] \in Packets
      BY <1>1, <2>1 DEF InOrder, TypeOK
    <3>3. toServer[i + 1].port \in Nat /\ uploads \in Nat
      BY <1>1, <3>2 DEF Packets, TypeOK
    <3> QED BY <2>1, <2>3, <3>1, <3>2, <3>3 DEF Mine
  <2> QED BY <1>3, <2>2, <2>3
<1>5. Holds(k)'
  <2>1. CASE Packet.kind = "read"
    <3>1. ~(WriteRequest \/ DataWritten) /\ UNCHANGED serverVars
      BY <2>1 DEF Server, Received, RefuseMode, WriteRequest, UnexpectedData,
                  DataWritten, DataNotWritten, NotImplemented
    <3>2. Reached(k) /\ (Plain(client.request) => Stored(k))
      BY <1>2, <1>3, <3>1 DEF Inv, Kept
    <3> QED BY <1>1, <3>1, <3>2 DEF serverVars, Reached, Stored, Holds, IsOpen, MyData, MyPath
  <2>2. CASE Packet.kind # "read"
    <3>1. Mine(Packet) /\ k <= Rank(Packet)
      BY <1>1, <1>2, <1>3, <2>2, OldOnesGone
    <3> QED BY <1>2, <1>3, <3>1, ServerHolds
  <2> QED BY <2>1, <2>2
<1> QED BY <1>1, <1>4, <1>5 DEF Reached, Holds, Mine

-----------------------------------------------------------------------------
(* The client and the network *)

\* A client's step leaves the server alone: what was reached stays so if only
\* packets with later blocks are sent.
LEMMA StillReached ==
  ASSUME Inv, Sending, UNCHANGED <<serverVars, uploads>>, client'.request = client.request,
         NEW k \in Nat, Acknowledged(k),
         \A i \in 1 .. Len(toServer') : toServer'[i].kind # "read" =>
           toServer'[i].port = uploads /\ k <= Rank(toServer'[i])
  PROVE  (Reached(k) /\ (Plain(client.request) => Stored(k)))'
<1>1. Reached(k) /\ (Plain(client.request) => Stored(k))
  BY DEF Inv, Kept
<1>2. UNCHANGED <<currentBlockNumber, outFile, disk, uploads>>
  BY DEF serverVars
<1>3. Reached(k)'
  BY <1>1, <1>2 DEF Reached, IsOpen, Mine
<1>4. MyPath' = MyPath /\ MyData' = MyData
  BY <1>2 DEF MyPath, MyData
<1> QED BY <1>1, <1>2, <1>3, <1>4 DEF Stored, IsOpen

LEMMA SentKept ==
  ASSUME Inv, Counts', TypeOK', Sending, Sending', NEW m \in Packets, Send(m),
         UNCHANGED <<serverVars, uploads>>,
         client'.request = client.request, client.sent <= client'.sent,
         \/ m.port = 0 /\ m.kind = "read"
         \/ /\ Mine(m) /\ m.port # 0 /\ m.kind # "read"
            /\ IsOf(m, uploads, client.request, client'.sent)
            /\ Rank(m) = client'.sent,
         \A k \in Nat : Acknowledged(k)' => Acknowledged(k) /\ k <= client'.sent
  PROVE  InOrder' /\ Kept'
<1>1. TypeOK /\ Counts /\ InOrder /\ Kept
  BY DEF Inv
<1>2. client'.sent \in Nat
  BY DEF TypeOK
<1>3. InOrder'
  BY <1>1, <1>2, SentInOrder
<1>4. /\ Len(toServer) \in Nat
      /\ \A i \in 1 .. Len(toServer') :
           \/ i \in 1 .. Len(toServer) /\ toServer'[i] = toServer[i]
           \/ toServer'[i] = m
  BY <1>1, Added DEF TypeOK, Send
<1>5. ASSUME NEW k \in Nat, Acknowledged(k)'
      PROVE  (Reached(k) /\ (Plain(client.request) => Stored(k)))'
  <2>1. Acknowledged(k) /\ k <= client'.sent
    BY <1>5
  <2>2. \A i \in 1 .. Len(toServer) : toServer[i].kind # "read" =>
           toServer[i].port = uploads /\ k <= Rank(toServer[i])
    BY <1>1, <2>1 DEF Kept, Reached, Mine
  <2> QED BY <1>4, <2>1, <2>2, StillReached DEF Mine
<1> QED BY <1>3, <1>5 DEF Kept

LEMMA TailAcknowledged ==
  ASSUME TypeOK, toClient # <<>>, toClient' = Tail(toClient), UNCHANGED uploads,
         NEW k, \E i \in 1 .. Len(toClient') : MyAck(toClient[i])' /\ toClient'[i].block = k
  PROVE  \E i \in 1 .. Len(toClient) : MyAck(toClient[i]) /\ toClient[i].block = k
<1>1. PICK i \in 1 .. Len(toClient') : MyAck(toClient[i])' /\ toClient'[i].block = k
  OBVIOUS
<1>2. i + 1 \in 1 .. Len(toClient) /\ toClient'[i] = toClient[i + 1]
  BY Dropped DEF TypeOK
<1> QED BY <1>1, <1>2 DEF MyAck, Mine

\* When no transfer is running only the ports matter.
LEMMA IdleInOrder ==
  ASSUME TypeOK, InOrder, ~Sending', UNCHANGED uploads,
         \/ UNCHANGED toServer
         \/ Send([kind |-> "read", port |-> 0])
  PROVE  InOrder'
<1>1. uploads \in Nat /\ toServer \in Seq(Packets)
  BY DEF TypeOK
<1>2. CASE UNCHANGED toServer
  BY <1>2 DEF InOrder, Sending
<1>3. CASE Send([kind |-> "read", port |-> 0])
  <2>1. [kind |-> "read", port |-> 0] \in Packets
    BY DEF Packets
  <2>2. /\ Len(toServer) \in Nat
        /\ Len(toServer') = Len(toServer) + 1
        /\ \A i \in 1 .. Len(toServer') :
             /\ i \in Nat
             /\ \/ i \in 1 .. Len(toServer) /\ toServer'[i] = toServer[i]
                \/ i = Len(toServer) + 1 /\ toServer'[i] = [kind |-> "read", port |-> 0]
    BY <1>1, <1>3, <2>1, Added DEF Send
  <2>3. \A i \in 1 .. Len(toServer') :
           /\ toServer'[i].port <= uploads
           /\ toServer'[i].port = 0 <=> toServer'[i].kind = "read"
    BY <1>1, <2>2 DEF InOrder
  <2>4. ASSUME NEW i \in 1 .. Len(toServer'), NEW j \in 1 .. Len(toServer'),
               i < j, toServer'[j].kind # "read"
        PROVE  toServer'[i].port <= toServer'[j].port
    <3>1. i \in Nat /\ j \in 1 .. Len(toServer) /\ j \in Nat /\ toServer'[j] = toServer[j]
      BY <2>2, <2>4
    <3>2. i \in 1 .. Len(toServer) /\ toServer'[i] = toServer[i]
      BY <2>2, <2>4, <3>1
    <3> QED BY <2>4, <3>1, <3>2 DEF InOrder
  <2> QED BY <2>3, <2>4 DEF InOrder
<1> QED BY <1>2, <1>3

LEMMA StartInOrder ==
  ASSUME Inv, NEW r \in Requests, Start(r)
  PROVE  Counts' /\ InOrder' /\ AnswersInOrder' /\ Kept'
<1>1. TypeOK /\ InOrder /\ AnswersInOrder
  BY DEF Inv
<1>2. /\ uploads \in Nat /\ uploads' = uploads + 1 /\ client'.sent = 0 /\ client'.request = r
      /\ client'.status = "sending" /\ toClient' = toClient
      /\ r.length \in Nat \ {0}
  BY <1>1, ContentType DEF Start, TypeOK
<1>3. Counts'
  BY <1>2, TftpAssumption DEF Counts
<1> DEFINE m == WritePacket(uploads', r)
<1>4. m \in Packets /\ m.port = uploads + 1 /\ m.kind = "write"
  BY <1>2 DEF WritePacket, Packets
<1>5. /\ Len(toServer) \in Nat
      /\ Len(toServer') = Len(toServer) + 1
      /\ \A i \in 1 .. Len(toServer') :
           /\ i \in Nat
           /\ \/ /\ i \in 1 .. Len(toServer) /\ toServer'[i] = toServer[i]
                 /\ toServer[i] \in Packets
              \/ i = Len(toServer) + 1 /\ toServer'[i] = m
  <2>1. toServer \in Seq(Packets) /\ toServer' = Append(toServer, m)
    BY <1>1 DEF TypeOK, Start, Send
  <2> HIDE DEF m
  <2> QED BY <1>4, <2>1, Added
<1>6. /\ \A i \in 1 .. Len(toServer) : toServer[i].port <= uploads /\ toServer[i].port \in Nat
      /\ \A i \in 1 .. Len(toClient) : toClient[i].port <= uploads /\ toClient[i].port \in Nat
  <2>1. \A i \in 1 .. Len(toServer) : toServer[i].port \in Nat
    <3>1. \A i \in 1 .. Len(toServer) : toServer[i] \in Packets
      BY <1>1 DEF TypeOK
    <3> QED BY <3>1 DEF Packets
  <2>2. \A i \in 1 .. Len(toClient) : toClient[i].port \in Nat
    <3>1. \A i \in 1 .. Len(toClient) : toClient[i] \in Answers
      BY <1>1 DEF TypeOK
    <3> QED BY <3>1 DEF Answers
  <2> QED BY <1>1, <2>1, <2>2 DEF InOrder, AnswersInOrder
<1>8. AnswersInOrder'
  BY <1>2, <1>6 DEF AnswersInOrder, MyAck, Mine
<1>9. Kept'
  BY <1>2, <1>6 DEF Kept, Acknowledged, MyAck, Mine
<1>10. InOrder'
  <2> DEFINE new(x) == IsOf(x, uploads', client'.request, client'.sent)
  <2>1. new(m)
    BY <1>2 DEF IsOf
  <2> HIDE DEF m, new
  <2>2. \A i \in 1 .. Len(toServer') :
           /\ toServer'[i].port <= uploads'
           /\ toServer'[i].port = 0 <=> toServer'[i].kind = "read"
           /\ toServer'[i].port = uploads' => toServer'[i] = m
    BY <1>1, <1>2, <1>4, <1>5, <1>6 DEF InOrder
  <2>3. ASSUME NEW i \in 1 .. Len(toServer'), NEW j \in 1 .. Len(toServer'),
               i < j, toServer'[j].kind # "read"
        PROVE  /\ toServer'[i].port <= toServer'[j].port
               /\ ~(toServer'[i].port = uploads' /\ toServer'[j].port = uploads')
    <3>1. i \in Nat /\ j \in Nat /\ i \in 1 .. Len(toServer) /\ toServer'[i] = toServer[i]
      BY <1>5, <2>3
    <3>2. CASE j \in 1 .. Len(toServer) /\ toServer'[j] = toServer[j]
      BY <1>1, <1>2, <1>6, <2>3, <3>1, <3>2 DEF InOrder
    <3>3. CASE toServer'[j] = m
      BY <1>2, <1>4, <1>6, <3>1, <3>3
    <3> QED BY <1>5, <3>2, <3>3
  <2> QED BY <2>1, <2>2, <2>3 DEF InOrder, Genuine, Mine, new
<1> QED BY <1>3, <1>8, <1>9, <1>10

LEMMA ClientInOrder == Inv /\ TypeOK' /\ Client => Counts' /\ InOrder' /\ AnswersInOrder' /\ Kept'
<1> SUFFICES ASSUME Inv, TypeOK', Client
             PROVE  Counts' /\ InOrder' /\ AnswersInOrder' /\ Kept'
  OBVIOUS
<1>1. TypeOK /\ Counts /\ InOrder /\ AnswersInOrder /\ Kept
  BY DEF Inv
<1>2. /\ client.sent \in Nat /\ client.request \in Requests /\ uploads \in Nat
      /\ client.request.length \in Nat \ {0}
  BY <1>1, PathType
<1>3. CASE \E r \in Requests : Start(r)
  BY <1>3, StartInOrder
<1>4. CASE Ignore
  <2>1. /\ UNCHANGED <<client, uploads, toServer, serverVars>>
        /\ toClient # <<>> /\ toClient' = Tail(toClient)
    BY <1>4 DEF Ignore, Arrived, countVars
  <2>2. Counts' /\ InOrder' /\ AnswersInOrder'
    BY <1>1, <2>1, TailOfAnswers DEF Counts, InOrder, Sending, Mine, Genuine
  <2>3. ASSUME NEW k \in Nat, Sending', Acknowledged(k)'
        PROVE  (Reached(k) /\ (Plain(client.request) => Stored(k)))'
    <3>1. Sending /\ Acknowledged(k)
      BY <1>1, <2>1, <2>3, TailAcknowledged DEF Acknowledged, Sending
    <3> QED BY <1>1, <2>1, <3>1, StillReached DEF Kept, Reached, Mine
  <2> QED BY <2>2, <2>3 DEF Kept
<1>5. CASE SendNext
  <2> DEFINE n == client.sent + 1
             m == DataPacket(uploads, client.request, n)
  <2>1. /\ Sending /\ Sending' /\ UNCHANGED <<serverVars, uploads>>
        /\ client'.request = client.request /\ client'.sent = n /\ Send(m)
        /\ toClient # <<>> /\ toClient' = Tail(toClient)
    BY <1>1, <1>5 DEF SendNext, Arrived, Awaited, Sending, TypeOK, countVars
  <2>2. /\ client.sent < BlockModulus /\ Acknowledged(client.sent)
        /\ \A i \in 1 .. Len(toClient) : MyAck(toClient[i]) => toClient[i].block = client.sent
    BY <1>1, <1>5, <2>1, FirstAnswer DEF SendNext
  <2>3. client.sent < client.request.length /\ n \in 1 .. client.request.length /\ n \in Nat
    BY <1>2, <1>5 DEF SendNext
  <2>4. Counts'
    BY <1>1, <1>2, <2>1, <2>2, <2>3, TftpAssumption DEF Counts, Sending
  <2>5. AnswersInOrder'
    <3>1. \A i \in 1 .. Len(toClient') : MyAck(toClient[i])' => toClient'[i].block = client.sent
      <4>1. ASSUME NEW i \in 1 .. Len(toClient'), MyAck(toClient[i])'
            PROVE  toClient'[i].block = client.sent
        <5>1. i + 1 \in 1 .. Len(toClient) /\ toClient'[i] = toClient[i + 1]
          BY <1>1, <2>1, Dropped DEF TypeOK
        <5> QED BY <2>1, <2>2, <4>1, <5>1 DEF MyAck, Mine
      <4> QED BY <4>1
    <3>2. \A i \in 1 .. Len(toClient') : toClient'[i].port <= uploads
      <4>1. \A i \in 1 .. Len(toClient') :
               i + 1 \in 1 .. Len(toClient) /\ toClient'[i] = toClient[i + 1]
        BY <1>1, <2>1, Dropped DEF TypeOK
      <4> QED BY <1>1, <4>1 DEF AnswersInOrder
    <3> HIDE DEF m
    <3>3. \A i \in 1 .. Len(toClient') : MyAck(toClient[i])' =>
             toClient'[i].block <= client'.sent /\ client'.sent <= toClient'[i].block + 1
      BY <1>2, <2>1, <3>1
    <3>4. \A i, j \in 1 .. Len(toClient') : MyAck(toClient[i])' /\ MyAck(toClient[j])' =>
             toClient'[i].block <= toClient'[j].block
      BY <1>2, <3>1
    <3> QED BY <2>1, <3>2, <3>3, <3>4 DEF AnswersInOrder
  <2>6. /\ m \in Packets /\ Mine(m) /\ m.port # 0 /\ m.kind # "read" /\ Rank(m) = n
    <3>1. m \in Packets /\ m.data = <<uploads, n>>
      BY <1>2, <2>3, DataPacketType
    <3>2. m.port = uploads /\ m.kind = "data" /\ uploads # 0
      BY <1>1, <1>2, <2>1 DEF DataPacket, Counts
    <3> QED BY <3>1, <3>2 DEF Mine, Rank
  <2>7. IsOf(m, uploads, client.request, client'.sent)
    <3>1. n \in 1 .. client'.sent
      BY <2>1, <2>3
    <3> QED BY <3>1 DEF IsOf
  <2>8. \A k \in Nat : Acknowledged(k)' => Acknowledged(k) /\ k <= client'.sent
    <3> SUFFICES ASSUME NEW k \in Nat, Acknowledged(k)'
                 PROVE  Acknowledged(k) /\ k <= client'.sent
      OBVIOUS
    <3>1. k = client.sent
      <4>1. CASE k + 1 = client'.sent
        BY <1>2, <2>1, <4>1
      <4>2. CASE \E i \in 1 .. Len(toClient') : MyAck(toClient[i])' /\ toClient'[i].block = k
        BY <1>1, <2>1, <2>2, <4>2, TailAcknowledged
      <4> QED BY <4>1, <4>2 DEF Acknowledged
    <3> QED BY <1>2, <2>1, <2>2, <3>1
  <2> HIDE DEF m
  <2> QED BY <1>2, <2>1, <2>4, <2>5, <2>6, <2>7, <2>8, SentKept
<1>6. CASE Finish \/ Stop
  <2>1. /\ ~Sending' /\ UNCHANGED <<uploads, toServer>> /\ toClient # <<>>
        /\ client'.request = client.request /\ client'.sent = client.sent
        /\ toClient' = Tail(toClient)
    BY <1>1, <1>6 DEF Finish, Stop, Arrived, Sending, countVars, TypeOK
  <2>2. \A i \in 1 .. Len(toClient') :
           i + 1 \in 1 .. Len(toClient) /\ toClient'[i] = toClient[i + 1]
    BY <1>1, <2>1, Dropped DEF TypeOK
  <2>3. AnswersInOrder'
    BY <1>1, <2>1, <2>2 DEF AnswersInOrder
  <2> QED BY <1>1, <2>1, <2>3, IdleInOrder DEF Counts, Kept
<1>7. CASE Timeout
  <2> DEFINE m == IF client.sent = 0 THEN WritePacket(uploads, client.request)
                  ELSE DataPacket(uploads, client.request, client.sent)
  <2>1. Sending /\ Sending' /\ UNCHANGED <<serverVars, uploads, client, toClient>> /\ Send(m)
    BY <1>7 DEF Timeout, Sending
  <2>2. Counts' /\ AnswersInOrder'
    BY <1>1, <2>1 DEF Counts, AnswersInOrder, Sending, MyAck, Mine
  <2>3. m \in Packets /\ Mine(m) /\ m.kind # "read" /\ Rank(m) = client.sent /\ Genuine(m)
    <3>1. CASE client.sent = 0
      <4>1. m = WritePacket(uploads, client.request)
        BY <3>1
      <4> QED BY <1>2, <3>1, <4>1 DEF WritePacket, Packets, Mine, Rank, Genuine, IsOf
    <3>2. CASE client.sent # 0
      <4>1. m = DataPacket(uploads, client.request, client.sent)
        BY <3>2
      <4>2. client.sent \in 1 .. client.request.length /\ client.sent \in 1 .. client.sent
        BY <1>1, <1>2, <3>2 DEF Counts
      <4>3. m \in Packets /\ m.data = <<uploads, client.sent>>
        BY <1>2, <4>1, <4>2, DataPacketType
      <4>4. m.kind = "data" /\ m.port = uploads
        BY <4>1 DEF DataPacket
      <4> HIDE DEF m
      <4> QED BY <4>1, <4>2, <4>3, <4>4 DEF Mine, Rank, Genuine, IsOf
    <3> QED BY <3>1, <3>2
  <2>4. m.port # 0 /\ IsOf(m, uploads, client.request, client'.sent)
    BY <1>1, <1>2, <2>1, <2>3 DEF Counts, Mine, Genuine
  <2>5. \A k \in Nat : Acknowledged(k)' => Acknowledged(k) /\ k <= client'.sent
    BY <1>1, <1>2, <2>1 DEF Acknowledged, AnswersInOrder, MyAck, Mine
  <2> HIDE DEF m
  <2> QED BY <1>2, <2>1, <2>2, <2>3, <2>4, <2>5, SentKept
<1>8. CASE GiveUp
  <2>1. /\ ~Sending' /\ UNCHANGED <<uploads, toServer, toClient>>
        /\ client'.request = client.request /\ client'.sent = client.sent
    BY <1>1, <1>8 DEF GiveUp, Sending, countVars, TypeOK
  <2> QED BY <1>1, <2>1, IdleInOrder DEF Counts, Kept, AnswersInOrder
<1>9. CASE AskToRead
  <2> DEFINE m == [kind |-> "read", port |-> 0]
  <2>1. UNCHANGED <<serverVars, uploads, client, toClient>> /\ Send(m)
    BY <1>9 DEF AskToRead
  <2>2. Counts' /\ AnswersInOrder'
    BY <1>1, <2>1 DEF Counts, AnswersInOrder, Sending, MyAck, Mine
  <2>3. m \in Packets /\ m.port = 0 /\ m.kind = "read"
    BY DEF Packets
  <2>4. CASE Sending
    <3>1. \A k \in Nat : Acknowledged(k)' => Acknowledged(k) /\ k <= client'.sent
      BY <1>1, <1>2, <2>1, <2>4 DEF Acknowledged, AnswersInOrder, MyAck, Mine
    <3> HIDE DEF m
    <3> QED BY <1>2, <2>1, <2>2, <2>3, <2>4, <3>1, SentKept DEF Sending
  <2>5. CASE ~Sending
    <3>1. ~Sending'
      BY <2>1, <2>5 DEF Sending
    <3> QED BY <1>1, <2>1, <2>2, <3>1, IdleInOrder DEF Kept
  <2> QED BY <2>4, <2>5
<1> QED BY <1>3, <1>4, <1>5, <1>6, <1>7, <1>8, <1>9 DEF Client

LEMMA LoseInOrder == Inv /\ Lose => Counts' /\ InOrder' /\ AnswersInOrder' /\ Kept'
<1> SUFFICES ASSUME Inv, Lose PROVE Counts' /\ InOrder' /\ AnswersInOrder' /\ Kept'
  OBVIOUS
<1>1. TypeOK /\ Counts /\ InOrder /\ AnswersInOrder /\ Kept
  BY DEF Inv
<1>2. UNCHANGED <<client, uploads, serverVars>>
  BY DEF Lose
<1>3. Counts' /\ Sending' = Sending
  BY <1>1, <1>2 DEF Counts, Sending
<1>4. CASE toServer # <<>> /\ toServer' = Tail(toServer) /\ UNCHANGED toClient
  <2>1. InOrder' /\ AnswersInOrder'
    BY <1>1, <1>2, <1>4, TailInOrder DEF AnswersInOrder, Sending, MyAck, Mine
  <2>2. \A i \in 1 .. Len(toServer') :
           i + 1 \in 1 .. Len(toServer) /\ toServer'[i] = toServer[i + 1]
    BY <1>1, <1>4, Dropped DEF TypeOK
  <2>3. ASSUME NEW k \in Nat, Sending', Acknowledged(k)'
        PROVE  (Reached(k) /\ (Plain(client.request) => Stored(k)))'
    <3>1. Sending /\ Acknowledged(k)
      BY <1>2, <1>4, <2>3 DEF Acknowledged, Sending, MyAck, Mine
    <3> QED BY <1>1, <1>2, <2>2, <3>1, StillReached DEF Kept, Reached, Mine
  <2> QED BY <1>3, <2>1, <2>3 DEF Kept
<1>5. CASE toClient # <<>> /\ toClient' = Tail(toClient) /\ UNCHANGED toServer
  <2>1. InOrder' /\ AnswersInOrder'
    BY <1>1, <1>2, <1>5, TailOfAnswers DEF InOrder, Sending, Mine, Genuine
  <2>2. ASSUME NEW k \in Nat, Sending', Acknowledged(k)'
        PROVE  (Reached(k) /\ (Plain(client.request) => Stored(k)))'
    <3>1. Sending /\ Acknowledged(k)
      BY <1>1, <1>2, <1>5, <2>2, TailAcknowledged DEF Acknowledged, Sending
    <3> QED BY <1>1, <1>2, <1>5, <3>1, StillReached DEF Kept, Reached, Mine
  <2> QED BY <1>3, <2>1, <2>2 DEF Kept
<1> QED BY <1>4, <1>5 DEF Lose

-----------------------------------------------------------------------------
(* Turns *)

\* The answer to the one packet of the transfer is the acknowledgement it waits
\* for, unless the card fails.
LEMMA AnswerInTurn ==
  ASSUME Inv, Clean, Server, Mine(Packet), NoFault
  PROVE  /\ toClient' = Append(toClient,
                          [kind |-> "ack", port |-> uploads, block |-> client.sent])
         /\ client.sent < client.request.length =>
              IsOpen' /\ currentBlockNumber' = client.sent
<1>1. TypeOK /\ Counts /\ InOrder /\ InTurn /\ Sending /\ toServer # <<>>
  BY ServerStep DEF Inv, Clean
<1>2. /\ client.request \in Requests /\ client.request.length \in Nat \ {0}
      /\ client.sent \in Nat /\ uploads \in Nat /\ client.sent <= client.request.length
      /\ client.request.length < BlockModulus /\ BlockModulus \in Nat
  BY <1>1, PathType, TftpAssumption DEF Counts, Clean
<1>3. 1 \in 1 .. Len(toServer) /\ Packet = toServer[1] /\ Genuine(Packet) /\ Packet.kind # "read"
  BY <1>1, Dropped, FirstPacket, Ranks DEF TypeOK, Packet
<1>4. /\ Rank(Packet) = client.sent
      /\ client.sent > 0 => IsOpen /\ currentBlockNumber + 1 = client.sent
  BY <1>1, <1>3 DEF InTurn
<1>5. Packet.kind \in {"write", "data"}
  BY <1>1, <1>3, PacketTypes
<1>6. CASE Packet.kind = "write"
  <2>1. Packet.request = client.request /\ client.sent = 0
    BY <1>1, <1>3, <1>4, <1>6, Ranks DEF WritePacket
  <2>2. ~RefuseMode
    <3>1. Packet.request.octet
      BY <2>1, Zenon DEF Clean
    <3> QED BY <3>1, Zenon DEF RefuseMode
  <2>3. WriteRequest
    BY <1>6, <2>2 DEF Server, Received, UnexpectedData, DataWritten, DataNotWritten,
                      NotImplemented
  <2>4. Ack(0) /\ outFile' = Opened(Target(Packet.request), <<>>)
    <3>1. ~Fault
      <4>1. faults \in Nat
        BY <1>1 DEF TypeOK
      <4> QED BY <4>1 DEF Fault, NoFault
    <3> QED BY <2>3, <3>1 DEF WriteRequest
  <2>5. IsOpen' /\ currentBlockNumber' = 0
    <3>1. Target(Packet.request) \in Paths
      BY <1>1, <1>2, <2>1, TargetType
    <3> QED BY <2>3, <2>4, <3>1, TftpAssumption DEF WriteRequest, Restarted, Opened, IsOpen
  <2> QED BY <2>1, <2>4, <2>5 DEF Ack, Answer, Mine
<1>7. CASE Packet.kind = "data"
  <2>1. /\ client.sent \in 1 .. client.sent
        /\ Packet = DataPacket(uploads, client.request, client.sent)
    BY <1>1, <1>3, <1>4, <1>7, Ranks
  <2>2. client.sent > 0 /\ IsOpen /\ currentBlockNumber + 1 = client.sent
    BY <1>2, <1>4, <2>1
  <2>3. Packet.block = client.sent /\ Packet.short = (client.sent = client.request.length)
    <3>1. client.sent \in 0 .. BlockModulus - 1
      BY <1>2
    <3> QED BY <2>1, <3>1, ModSmall DEF DataPacket
  <2>4. Expected
    BY <2>2, <2>3 DEF Expected
  <2>5. ~DataNotWritten
    <3>1. ~Fault
      <4>1. faults \in Nat
        BY <1>1 DEF TypeOK
      <4> QED BY <4>1 DEF Fault, NoFault
    <3> QED BY <2>2, <3>1 DEF DataNotWritten
  <2>6. DataWritten
    BY <1>7, <2>4, <2>5 DEF Server, Received, RefuseMode, WriteRequest, UnexpectedData,
                            NotImplemented
  <2>7. Ack(client.sent) /\ currentBlockNumber' = client.sent
    BY <2>3, <2>6 DEF DataWritten
  <2>8. ASSUME client.sent < client.request.length PROVE IsOpen'
    <3>1. client.sent # client.request.length
      BY <1>2, <2>8
    <3>2. ~Packet.short
      BY <2>3, <3>1, Zenon
    <3>3. outFile' = Opened(outFile.path, Append(outFile.data, Packet.data))
      BY <2>6, <3>2, Zenon DEF DataWritten
    <3> QED BY <2>2, <3>3 DEF Opened, IsOpen
  <2> QED BY <2>7, <2>8 DEF Ack, Answer, Mine
<1> QED BY <1>5, <1>6, <1>7

LEMMA ServerInTurn == Inv /\ TypeOK' /\ Server => InTurn'
<1> SUFFICES ASSUME Inv, TypeOK', Server, Clean'
             PROVE  InTurn'
  BY DEF InTurn
<1>1. /\ TypeOK /\ Counts /\ InOrder /\ InTurn /\ toServer # <<>> /\ toServer' = Tail(toServer)
      /\ client' = client /\ uploads' = uploads
  BY ServerStep DEF Inv
<1>2. Clean /\ Sending
  <2>1. excused' = FALSE
    BY DEF Clean, TypeOK
  <2>2. excused = FALSE
    BY <1>1, <2>1, ServerStep
  <2>3. ~excused
    BY <2>2
  <2>4. client.request.octet
    BY <1>1, Zenon DEF Clean
  <2> QED BY <1>1, <2>3, <2>4 DEF Clean, Sending
<1>3. NoFault
  <2>1. ~Fault
    BY DEF Fault, Clean
  <2> QED BY <2>1 DEF Server, RefuseMode, WriteRequest, UnexpectedData, DataWritten,
                      DataNotWritten, NotImplemented
<1>4. /\ Len(toServer) \in Nat \ {0} /\ 1 \in 1 .. Len(toServer) /\ Packet = toServer[1]
      /\ \A i \in 1 .. Len(toServer') :
           /\ i \in Nat \ {0} /\ i + 1 \in 1 .. Len(toServer) /\ toServer'[i] = toServer[i + 1]
           /\ i + 1 # 1
  BY <1>1, Dropped DEF TypeOK, Packet
<1>5. /\ \A i \in 1 .. Len(toServer) : Mine(toServer[i]) =>
           /\ Rank(toServer[i]) = client.sent
           /\ client.sent > 0 => IsOpen /\ currentBlockNumber + 1 = client.sent
      /\ \A j \in 1 .. Len(toClient) : Mine(toClient[j]) =>
           /\ toClient[j].kind = "ack" /\ toClient[j].block = client.sent
           /\ client.sent < client.request.length =>
                IsOpen /\ currentBlockNumber = client.sent
      /\ \A i, j \in 1 .. Len(toServer) : Mine(toServer[i]) /\ Mine(toServer[j]) => i = j
      /\ \A i, j \in 1 .. Len(toClient) : Mine(toClient[i]) /\ Mine(toClient[j]) => i = j
      /\ \A i \in 1 .. Len(toServer), j \in 1 .. Len(toClient) :
           ~(Mine(toServer[i]) /\ Mine(toClient[j]))
  BY <1>1, <1>2 DEF InTurn
<1>6. CASE Mine(Packet)
  <2> DEFINE a == [kind |-> "ack", port |-> uploads, block |-> client.sent]
  <2>1. /\ toClient' = Append(toClient, a)
        /\ client.sent < client.request.length =>
             IsOpen' /\ currentBlockNumber' = client.sent
    BY <1>2, <1>3, <1>6, AnswerInTurn
  <2>2. a \in Answers
    <3>1. client.sent \in 0 .. BlockModulus - 1 /\ uploads \in Nat
      BY <1>1, <1>2, PathType, TftpAssumption DEF Counts, Clean
    <3> QED BY <3>1 DEF Answers
  <2>3. a.kind = "ack" /\ a.port = uploads /\ a.block = client.sent
    OBVIOUS
  <2> HIDE DEF a
  <2>4. /\ Len(toClient) \in Nat
        /\ \A i \in 1 .. Len(toClient') :
             \/ i \in 1 .. Len(toClient) /\ toClient'[i] = toClient[i]
             \/ i = Len(toClient) + 1 /\ toClient'[i] = a
    BY <1>1, <2>1, <2>2, Added DEF TypeOK
  <2>5. \A i \in 1 .. Len(toServer') : toServer'[i].port # uploads'
    BY <1>1, <1>4, <1>5, <1>6 DEF Mine
  <2>6. \A i \in 1 .. Len(toClient) : toClient[i].port # uploads
    BY <1>4, <1>5, <1>6 DEF Mine
  <2>7. \A i \in 1 .. Len(toClient') : toClient'[i].port = uploads' =>
           i = Len(toClient) + 1 /\ toClient'[i] = a
    BY <1>1, <2>4, <2>6
  <2> QED BY <1>1, <2>1, <2>3, <2>5, <2>7 DEF InTurn, Mine
<1>7. CASE ~Mine(Packet)
  <2>1. PICK kind \in {"ack", "error"}, block \in 0 .. BlockModulus - 1 :
          toClient' = Append(toClient,
                        [kind |-> kind, port |-> Packet.port, block |-> block])
    BY <1>1, ServerStep
  <2> DEFINE a == [kind |-> kind, port |-> Packet.port, block |-> block]
  <2>2. a \in Answers /\ a.port # uploads
    BY <1>1, <1>7, PacketTypes DEF Answers, Mine
  <2> HIDE DEF a
  <2>3. \A i \in 1 .. Len(toClient') :
           \/ i \in 1 .. Len(toClient) /\ toClient'[i] = toClient[i]
           \/ toClient'[i] = a
    BY <1>1, <2>1, <2>2, Added DEF TypeOK, a
  <2>4. \A i \in 1 .. Len(toClient') : toClient'[i].port = uploads =>
           i \in 1 .. Len(toClient) /\ toClient'[i] = toClient[i] /\ Mine(toClient[i])
    BY <2>2, <2>3 DEF Mine
  <2>5. \A i \in 1 .. Len(toServer') : toServer'[i].port = uploads => Mine(toServer[i + 1])
    BY <1>4 DEF Mine
  <2>6. ASSUME NEW k \in Nat, Acknowledged(k)
        PROVE  IsOpen' = IsOpen /\ currentBlockNumber' = currentBlockNumber
    <3>1. Packet.kind = "read"
      BY <1>1, <1>2, <1>7, <2>6, OldOnesGone
    <3>2. UNCHANGED serverVars
      BY <3>1 DEF Server, Received, RefuseMode, WriteRequest, UnexpectedData,
                  DataWritten, DataNotWritten, NotImplemented
    <3> QED BY <3>2 DEF serverVars, IsOpen
  <2>7. client.sent \in Nat
    BY <1>1 DEF TypeOK
  <2>8. client.sent > 0 => IsOpen' = IsOpen /\ currentBlockNumber' = currentBlockNumber
    <3>1. client.sent > 0 => client.sent - 1 \in Nat /\ Acknowledged(client.sent - 1)
      BY <2>7 DEF Acknowledged
    <3> QED BY <2>6, <3>1
  <2>9. ASSUME NEW j \in 1 .. Len(toClient), Mine(toClient[j])
        PROVE  IsOpen' = IsOpen /\ currentBlockNumber' = currentBlockNumber
    <3>1. Acknowledged(client.sent)
      BY <1>5, <2>9 DEF Acknowledged, MyAck
    <3> QED BY <2>6, <2>7, <3>1
  <2>10. /\ \A i \in 1 .. Len(toServer') : toServer'[i].port = uploads =>
              /\ Rank(toServer'[i]) = client.sent
              /\ client.sent > 0 => IsOpen' /\ currentBlockNumber' + 1 = client.sent
         /\ \A i, j \in 1 .. Len(toServer') :
              toServer'[i].port = uploads /\ toServer'[j].port = uploads => i = j
    <3>1. \A i \in 1 .. Len(toServer') : toServer'[i].port = uploads =>
              /\ Rank(toServer'[i]) = client.sent
              /\ client.sent > 0 => IsOpen' /\ currentBlockNumber' + 1 = client.sent
      BY <1>4, <1>5, <2>5, <2>8
    <3>2. \A i, j \in 1 .. Len(toServer') :
              toServer'[i].port = uploads /\ toServer'[j].port = uploads => i + 1 = j + 1
      BY <1>4, <1>5, <2>5
    <3>3. \A i, j \in 1 .. Len(toServer') : i + 1 = j + 1 => i = j
      BY <1>4
    <3> QED BY <3>1, <3>2, <3>3
  <2>11. /\ \A j \in 1 .. Len(toClient') : toClient'[j].port = uploads =>
              /\ toClient'[j].kind = "ack" /\ toClient'[j].block = client.sent
              /\ client.sent < client.request.length =>
                   IsOpen' /\ currentBlockNumber' = client.sent
         /\ \A i, j \in 1 .. Len(toClient') :
              toClient'[i].port = uploads /\ toClient'[j].port = uploads => i = j
    BY <1>5, <2>4, <2>9
  <2>12. \A i \in 1 .. Len(toServer'), j \in 1 .. Len(toClient') :
            ~(toServer'[i].port = uploads /\ toClient'[j].port = uploads)
    BY <1>4, <1>5, <2>4, <2>5
  <2> QED BY <1>1, <2>10, <2>11, <2>12 DEF InTurn, Mine
<1> QED BY <1>6, <1>7

LEMMA ClientInTurn == Inv /\ TypeOK' /\ Counts' /\ Client => InTurn'
<1> SUFFICES ASSUME Inv, TypeOK', Counts', Client, Clean'
             PROVE  InTurn'
  BY DEF InTurn
<1>1. /\ TypeOK /\ Counts /\ InOrder /\ AnswersInOrder /\ InTurn
      /\ client.sent \in Nat /\ uploads \in Nat
      /\ toServer \in Seq(Packets) /\ toClient \in Seq(Answers)
  BY DEF Inv, TypeOK
<1> DEFINE Packed(i) == toServer[i].port = uploads
           Replied(j) == toClient[j].port = uploads
<1>2. Clean =>
      /\ \A i \in 1 .. Len(toServer) : Packed(i) =>
           /\ Rank(toServer[i]) = client.sent
           /\ client.sent > 0 => IsOpen /\ currentBlockNumber + 1 = client.sent
      /\ \A j \in 1 .. Len(toClient) : Replied(j) =>
           /\ toClient[j].kind = "ack" /\ toClient[j].block = client.sent
           /\ client.sent < client.request.length =>
                IsOpen /\ currentBlockNumber = client.sent
      /\ \A i, j \in 1 .. Len(toServer) : Packed(i) /\ Packed(j) => i = j
      /\ \A i, j \in 1 .. Len(toClient) : Replied(i) /\ Replied(j) => i = j
      /\ \A i \in 1 .. Len(toServer), j \in 1 .. Len(toClient) : ~(Packed(i) /\ Replied(j))
  BY <1>1 DEF InTurn, Mine
<1>3. toClient # <<>> =>
        /\ 1 \in 1 .. Len(toClient) /\ Reply = toClient[1]
        /\ \A i \in 1 .. Len(Tail(toClient)) :
             /\ i \in Nat \ {0} /\ i + 1 \in 1 .. Len(toClient)
             /\ Tail(toClient)[i] = toClient[i + 1] /\ i + 1 # 1
  BY <1>1, Dropped DEF Reply
<1>4. CASE \E r \in Requests : Start(r)
  <2>1. PICK r \in Requests : Start(r)
    BY <1>4
  <2> DEFINE m == WritePacket(uploads', r)
  <2>2. /\ uploads' = uploads + 1 /\ client'.sent = 0 /\ toClient' = toClient
        /\ toServer' = Append(toServer, m)
    BY <2>1 DEF Start, Send
  <2>3. m \in Packets /\ m.kind = "write"
    BY <1>1, <2>2 DEF WritePacket, Packets
  <2> HIDE DEF m
  <2>4. /\ \A i \in 1 .. Len(toServer) : toServer[i].port <= uploads /\ toServer[i].port \in Nat
        /\ \A i \in 1 .. Len(toClient) : toClient[i].port <= uploads /\ toClient[i].port \in Nat
    <3>1. \A i \in 1 .. Len(toServer) : toServer[i] \in Packets
      BY <1>1
    <3>2. \A i \in 1 .. Len(toClient) : toClient[i] \in Answers
      BY <1>1
    <3>3. \A i \in 1 .. Len(toServer) : toServer[i].port \in Nat
      BY <3>1 DEF Packets
    <3>4. \A i \in 1 .. Len(toClient) : toClient[i].port \in Nat
      BY <3>2 DEF Answers
    <3> QED BY <1>1, <3>3, <3>4 DEF InOrder, AnswersInOrder
  <2>5. \A i \in 1 .. Len(toServer') : toServer'[i].port = uploads' =>
           i = Len(toServer) + 1 /\ toServer'[i] = m
    BY <1>1, <2>2, <2>3, <2>4, Added
  <2>6. \A j \in 1 .. Len(toClient') : toClient'[j].port # uploads'
    BY <1>1, <2>2, <2>4
  <2> QED BY <2>2, <2>3, <2>5, <2>6 DEF InTurn, Mine, Rank
<1>5. CASE Ignore
  <2>1. /\ UNCHANGED <<client, uploads, toServer, excused, serverVars>>
        /\ toClient # <<>> /\ toClient' = Tail(toClient)
    BY <1>5 DEF Ignore, Arrived, countVars
  <2>2. Clean
    BY <2>1 DEF Clean, Sending
  <2>3. \A i \in 1 .. Len(toClient') : toClient'[i] = toClient[i + 1] /\ i + 1 \in 1 .. Len(toClient)
    BY <1>3, <2>1
  <2>4. \A i, j \in 1 .. Len(toClient') : i + 1 = j + 1 => i = j
    BY <1>3, <2>1
  <2>5. UNCHANGED <<IsOpen, currentBlockNumber>>
    BY <2>1 DEF IsOpen, serverVars
  <2> QED BY <1>2, <2>1, <2>2, <2>3, <2>4, <2>5 DEF InTurn, Mine
<1>6. CASE SendNext
  <2> DEFINE n == client.sent + 1
             m == DataPacket(uploads, client.request, n)
  <2>1. /\ UNCHANGED <<uploads, excused, serverVars>> /\ Sending
        /\ client'.request = client.request /\ client'.sent = n
        /\ toClient # <<>> /\ toClient' = Tail(toClient)
        /\ toServer' = Append(toServer, m) /\ Reply.port = uploads
        /\ client.sent < client.request.length
    BY <1>1, <1>6 DEF SendNext, Arrived, Awaited, Sending, TypeOK, countVars, Send
  <2>2. Clean
    BY <2>1 DEF Clean
  <2>3. n \in 1 .. client.request.length /\ client.request \in Requests /\ n \in Nat
    BY <1>1, <2>1, PathType
  <2>4. m \in Packets /\ Rank(m) = n
    <3>1. m \in Packets /\ m.data = <<uploads, n>> /\ m.kind = "data"
      BY <1>1, <2>3, DataPacketType DEF DataPacket
    <3> QED BY <3>1 DEF Rank
  <2> HIDE DEF m
  <2>5. IsOpen /\ currentBlockNumber = client.sent /\ Replied(1)
    BY <1>2, <1>3, <2>1, <2>2
  <2>6. \A i \in 1 .. Len(toServer) : ~Packed(i)
    BY <1>2, <1>3, <2>1, <2>2, <2>5
  <2>7. \A j \in 1 .. Len(toClient') : toClient'[j].port # uploads'
    BY <1>2, <1>3, <2>1, <2>2, <2>5
  <2>8. \A i \in 1 .. Len(toServer') : toServer'[i].port = uploads' =>
           i = Len(toServer) + 1 /\ toServer'[i] = m
    BY <1>1, <2>1, <2>4, <2>6, Added
  <2>9. IsOpen' /\ currentBlockNumber' + 1 = client'.sent
    BY <2>1, <2>5 DEF IsOpen, serverVars
  <2> QED BY <2>1, <2>4, <2>7, <2>8, <2>9 DEF InTurn, Mine
<1>7. CASE Finish \/ Stop \/ GiveUp
  BY <1>1, <1>7 DEF Finish, Stop, GiveUp, Clean, Sending, TypeOK
<1>8. CASE Timeout
  BY <1>8 DEF Timeout, Clean
<1>9. CASE AskToRead
  <2> DEFINE m == [kind |-> "read", port |-> 0]
  <2>1. /\ UNCHANGED <<client, uploads, toClient, excused, serverVars>>
        /\ toServer' = Append(toServer, m)
    BY <1>9 DEF AskToRead, Send
  <2>2. Clean /\ m \in Packets /\ m.port # uploads
    BY <1>1, <2>1 DEF Clean, Sending, Counts, Packets
  <2> HIDE DEF m
  <2>3. \A i \in 1 .. Len(toServer') : toServer'[i].port = uploads =>
           i \in 1 .. Len(toServer) /\ toServer'[i] = toServer[i]
    BY <1>1, <2>1, <2>2, Added
  <2>4. UNCHANGED <<IsOpen, currentBlockNumber>>
    BY <2>1 DEF IsOpen, serverVars
  <2> QED BY <1>2, <2>1, <2>2, <2>3, <2>4 DEF InTurn, Mine
<1> QED BY <1>4, <1>5, <1>6, <1>7, <1>8, <1>9 DEF Client

-----------------------------------------------------------------------------
(* What was promised *)

LEMMA MayWriteTarget ==
  ASSUME TypeOK, NEW r \in Requests, r.octet
  PROVE  MayWrite(r, Target(r)) /\ Target(r) \in Paths
BY TargetType DEF MayWrite, Target, FolderOf

LEMMA ServerSafe == Inv /\ Server => Safe' /\ UploadedStays'
<1> SUFFICES ASSUME Inv, Server PROVE Safe' /\ UploadedStays'
  OBVIOUS
<1>1. /\ TypeOK /\ Safe /\ UploadedStays /\ toServer # <<>> /\ toServer' = Tail(toServer)
      /\ client' = client /\ uploads' = uploads /\ promised' = promised
  BY ServerStep DEF Inv
<1>2. 1 \in 1 .. Len(toServer) /\ Packet = toServer[1]
      /\ \A i \in 1 .. Len(toServer') :
           i + 1 \in 1 .. Len(toServer) /\ toServer'[i] = toServer[i + 1]
  BY <1>1, Dropped DEF TypeOK, Packet
<1>3. /\ \A i \in 1 .. Len(toServer') : toServer'[i].kind = "write" => Free(toServer'[i].request)
      /\ Sending' => Free(client.request)
  BY <1>1, <1>2 DEF Safe, Sending
<1>4. (IsOpen' => promised'[outFile'.path] = <<>>) => Safe'
  BY <1>1, <1>3 DEF Safe, Free
<1>5. ASSUME NEW p \in Paths, promised[p] = <<>>, NEW data \in Data,
             \/ UNCHANGED disk
             \/ disk' = [disk EXCEPT ![p] = data],
             IsOpen' => promised[outFile'.path] = <<>>
      PROVE  (IsOpen' => promised'[outFile'.path] = <<>>) /\ UploadedStays'
  BY <1>1, <1>5, PathType DEF UploadedStays
<1>6. CASE WriteRequest
  <2> DEFINE r == Packet.request
  <2>1. r \in Requests /\ r.octet /\ Packet.kind = "write"
    BY <1>1, <1>6, PacketTypes DEF WriteRequest, Received
  <2>2. Target(r) \in Paths /\ promised[Target(r)] = <<>>
    <3>1. Free(r)
      BY <1>1, <1>2, <2>1 DEF Safe
    <3> QED BY <1>1, <2>1, <3>1, MayWriteTarget DEF Free
  <2>3. <<>> \in Data
    BY DEF Data
  <2>4. IsOpen' => promised[outFile'.path] = <<>>
    BY <1>6, <2>2 DEF WriteRequest, Opened, NotOpen, IsOpen
  <2>5. UNCHANGED disk \/ disk' = [disk EXCEPT ![Target(r)] = <<>>]
    BY <1>6 DEF WriteRequest
  <2> QED BY <1>4, <1>5, <2>2, <2>3, <2>4, <2>5
<1>7. CASE RefuseMode \/ NotImplemented
  BY <1>1, <1>4, <1>7 DEF RefuseMode, NotImplemented, serverVars, Safe, IsOpen, UploadedStays
<1>8. CASE UnexpectedData \/ DataWritten \/ DataNotWritten
  <2>1. IsOpen' => outFile'.path = outFile.path /\ IsOpen
    BY <1>8 DEF UnexpectedData, DataWritten, DataNotWritten, Close, NotOpen, Opened, IsOpen
  <2>2. UNCHANGED disk \/ \E data \in Data : IsOpen /\ disk' = [disk EXCEPT ![outFile.path] = data]
    <3>1. outFile.data \in Data /\ (Append(outFile.data, Packet.data) \in Data \/ ~DataWritten)
      <4>1. DataWritten => Packet.data \in Blocks
        BY <1>1, PacketTypes DEF DataWritten, Received
      <4> QED BY <1>1, <4>1, PathType DEF Data
    <3>2. /\ outFile.data \in Data
          /\ \A part \in {<<>>, <<Torn>>} : outFile.data \o part \in Data
      BY <1>1, PathType DEF Data, Torn, Blocks
    <3>3. CASE UnexpectedData
      BY <3>2, <3>3 DEF UnexpectedData, Close
    <3>4. CASE DataWritten
      BY <3>1, <3>4 DEF DataWritten, Close
    <3>5. CASE DataNotWritten
      BY <3>2, <3>5 DEF DataNotWritten, Close
    <3> QED BY <1>8, <3>3, <3>4, <3>5
  <2>3. CASE IsOpen
    <3>1. outFile.path \in Paths /\ promised[outFile.path] = <<>>
      BY <1>1, <2>3, PathType DEF Safe
    <3>2. PICK data \in Data : UNCHANGED disk \/ disk' = [disk EXCEPT ![outFile.path] = data]
      BY <1>1, <2>2, PathType
    <3>3. IsOpen' => promised[outFile'.path] = <<>>
      BY <2>1, <3>1
    <3>4. (IsOpen' => promised'[outFile'.path] = <<>>) /\ UploadedStays'
      BY <1>5, <3>1, <3>2, <3>3
    <3> QED BY <1>4, <3>4
  <2>4. CASE ~IsOpen
    <3>1. ~IsOpen' /\ disk' = disk
      BY <2>1, <2>2, <2>4
    <3>2. (IsOpen' => promised'[outFile'.path] = <<>>)
      BY <3>1
    <3>3. UploadedStays'
      BY <1>1, <3>1 DEF UploadedStays
    <3> QED BY <1>4, <3>2, <3>3
  <2> QED BY <2>3, <2>4
<1> QED BY <1>6, <1>7, <1>8 DEF Server

LEMMA ClientSafe == Inv /\ (Client \/ Lose) => Safe' /\ UploadedStays'
<1> SUFFICES ASSUME Inv, Client \/ Lose PROVE Safe' /\ UploadedStays'
  OBVIOUS
<1>1. /\ TypeOK /\ InOrder /\ Kept /\ Safe /\ UploadedStays /\ Counts /\ AnswersInOrder
      /\ toServer \in Seq(Packets) /\ promised \in [Paths -> Data] /\ client.request \in Requests
  BY DEF Inv, TypeOK
<1>2. UNCHANGED serverVars /\ IsOpen' = IsOpen /\ outFile' = outFile /\ disk' = disk
  BY DEF Client, Start, Ignore, SendNext, Finish, Stop, Timeout, GiveUp, AskToRead, Lose,
         serverVars, IsOpen
<1>3. CASE \E r \in Requests : Start(r)
  <2>1. PICK r \in Requests : Start(r)
    BY <1>3
  <2> DEFINE m == WritePacket(uploads', r)
  <2>2. /\ toServer' = Append(toServer, m)
        /\ client'.request = r
        /\ promised' = [p \in Paths |-> IF MayWrite(r, p) THEN <<>> ELSE promised[p]]
    BY <2>1 DEF Start, Send
  <2>3. m \in Packets /\ m.request = r
    <3>1. uploads' \in Nat
      BY <1>1, <2>1 DEF Start, TypeOK
    <3> QED BY <3>1 DEF WritePacket, Packets
  <2> HIDE DEF m
  <2>4. \A p \in Paths : promised'[p] = <<>> \/ promised'[p] = promised[p]
    BY <2>2
  <2>5. Free(r)'
    <3>1. \A p \in Paths : MayWrite(r, p) => promised'[p] = <<>>
      BY <2>2
    <3> QED BY <3>1 DEF Free
  <2>6. \A q \in Requests : Free(q) => \A p \in Paths : MayWrite(q, p) => promised'[p] = <<>>
    BY <2>4 DEF Free
  <2>7. \A i \in 1 .. Len(toServer') :
           \/ i \in 1 .. Len(toServer) /\ toServer'[i] = toServer[i] /\ toServer[i] \in Packets
           \/ toServer'[i] = m
    BY <1>1, <2>2, <2>3, Added
  <2>8. ASSUME NEW i \in 1 .. Len(toServer'), toServer'[i].kind = "write"
        PROVE  \A p \in Paths : MayWrite(toServer'[i].request, p) => promised'[p] = <<>>
    <3>1. CASE toServer'[i] = m
      BY <2>2, <2>3, <3>1
    <3>2. CASE i \in 1 .. Len(toServer) /\ toServer'[i] = toServer[i] /\ toServer[i] \in Packets
      <4>1. toServer[i].request \in Requests /\ Free(toServer[i].request)
        BY <1>1, <2>8, <3>2 DEF Packets, Safe
      <4> QED BY <2>6, <3>2, <4>1
    <3> QED BY <2>7, <3>1, <3>2
  <2>9. IsOpen' => promised'[outFile'.path] = <<>>
    BY <1>1, <1>2, <2>4, PathType DEF Safe
  <2>10. Safe'
    BY <2>2, <2>5, <2>8, <2>9 DEF Safe, Free
  <2> QED BY <1>1, <1>2, <2>4, <2>10 DEF UploadedStays
<1>4. CASE Finish
  <2>1. /\ Sending /\ Arrived /\ Awaited /\ Reply.kind = "ack"
        /\ client.sent = client.request.length /\ ~Sending' /\ UNCHANGED toServer
    BY <1>1, <1>4 DEF Finish, Awaited, Sending, TypeOK
  <2>2. Acknowledged(client.sent) /\ client.sent \in Nat
    BY <1>1, <2>1, FirstAnswer DEF TypeOK
  <2>3. /\ ~IsOpen
        /\ \A i \in 1 .. Len(toServer) : toServer[i].kind # "read" =>
             Mine(toServer[i]) /\ client.sent <= Rank(toServer[i])
    BY <1>1, <2>1, <2>2 DEF Kept, Reached
  <2>4. \A i \in 1 .. Len(toServer) : toServer[i].kind # "write"
    <3> SUFFICES ASSUME NEW i \in 1 .. Len(toServer), toServer[i].kind = "write"
                 PROVE  FALSE
      OBVIOUS
    <3>1. Mine(toServer[i]) /\ client.sent <= Rank(toServer[i])
      BY <2>3
    <3>2. client.sent # 0
      BY <1>1, <2>1, PathType
    <3> QED BY <2>2, <3>1, <3>2 DEF Rank
  <2>5. Safe'
    BY <1>2, <2>1, <2>3, <2>4 DEF Safe
  <2>6. CASE Plain(client.request)
    <3>1. /\ promised' = [promised EXCEPT ![MyPath] = Content(uploads, client.request)]
          /\ MyPath \in Paths
      BY <1>1, <1>4, <2>6, PathType DEF Finish
    <3>2. disk[MyPath] = Content(uploads, client.request)
      BY <1>1, <2>1, <2>2, <2>6 DEF Kept, Stored
    <3> QED BY <1>1, <1>2, <2>5, <3>1, <3>2 DEF UploadedStays
  <2>7. CASE ~Plain(client.request)
    BY <1>1, <1>2, <1>4, <2>5, <2>7 DEF Finish, UploadedStays
  <2> QED BY <2>6, <2>7
<1>5. CASE SendNext \/ Timeout \/ AskToRead
  <2>1. /\ UNCHANGED promised /\ client'.request = client.request /\ (Sending' => Sending)
    BY <1>1, <1>5 DEF SendNext, Timeout, AskToRead, Sending, TypeOK
  <2>2. PICK m : toServer' = Append(toServer, m) /\ (m.kind = "write" => m.request = client.request /\ Sending)
    <3>1. CASE SendNext
      BY <3>1 DEF SendNext, Send, DataPacket
    <3>2. CASE Timeout
      BY <3>2 DEF Timeout, Send, DataPacket, WritePacket, Sending
    <3>3. CASE AskToRead
      BY <3>3 DEF AskToRead, Send
    <3> QED BY <1>5, <3>1, <3>2, <3>3
  <2>3. \A i \in 1 .. Len(toServer') :
           \/ i \in 1 .. Len(toServer) /\ toServer'[i] = toServer[i]
           \/ toServer'[i] = m
    BY <1>1, <2>2
  <2>4. \A i \in 1 .. Len(toServer') : toServer'[i].kind = "write" => Free(toServer'[i].request)
    BY <1>1, <2>2, <2>3 DEF Safe
  <2> QED BY <1>1, <1>2, <2>1, <2>4 DEF Safe, Free, UploadedStays
<1>6. CASE Ignore \/ Stop \/ GiveUp \/ Lose
  <2>1. /\ UNCHANGED promised /\ client'.request = client.request /\ (Sending' => Sending)
        /\ (UNCHANGED toServer \/ (toServer # <<>> /\ toServer' = Tail(toServer)))
    <3>1. CASE Ignore
      BY <3>1 DEF Ignore, Sending
    <3>2. CASE Stop
      BY <1>1, <3>2 DEF Stop, Sending, TypeOK
    <3>3. CASE GiveUp
      BY <1>1, <3>3 DEF GiveUp, Sending, TypeOK
    <3>4. CASE Lose
      BY <3>4 DEF Lose, Sending
    <3> QED BY <1>6, <3>1, <3>2, <3>3, <3>4
  <2>2. \A i \in 1 .. Len(toServer') : \E j \in 1 .. Len(toServer) : toServer'[i] = toServer[j]
    <3>1. CASE toServer' = toServer
      BY <3>1
    <3>2. CASE toServer # <<>> /\ toServer' = Tail(toServer)
      BY <1>1, <3>2, Dropped
    <3> QED BY <2>1, <3>1, <3>2
  <2>3. \A i \in 1 .. Len(toServer') : toServer'[i].kind = "write" => Free(toServer'[i].request)
    BY <1>1, <2>2 DEF Safe
  <2> QED BY <1>1, <1>2, <2>1, <2>3 DEF Safe, Free, UploadedStays
<1> QED BY <1>3, <1>4, <1>5, <1>6 DEF Client

LEMMA NextFails == Inv /\ TypeOK' /\ Next => FailsForAReason'
<1> SUFFICES ASSUME Inv, TypeOK', Next, client'.status = "failed"
             PROVE  excused' = TRUE \/ ~client'.request.octet
                      \/ client'.request.length >= BlockModulus
  BY DEF FailsForAReason, TypeOK
<1>1. /\ TypeOK /\ InTurn /\ FailsForAReason /\ excused \in BOOLEAN
      /\ client.request.length \in Nat /\ BlockModulus \in Nat
  BY PathType, TftpAssumption DEF Inv, TypeOK
<1>2. CASE Stop
  <2>1. Sending /\ Reply.kind = "error" /\ Mine(Reply) /\ toClient # <<>>
        /\ client'.request = client.request /\ excused' = excused
    BY <1>1, <1>2 DEF Stop, Arrived, Awaited, Sending, Mine, TypeOK
  <2>2. 1 \in 1 .. Len(toClient) /\ Reply = toClient[1]
    BY <1>1, <2>1, Dropped DEF TypeOK, Reply
  <2>3. ~Clean
    BY <1>1, <2>1, <2>2 DEF InTurn
  <2>4. excused \/ ~client.request.octet \/ ~(client.request.length < BlockModulus)
    BY <2>1, <2>3, Zenon DEF Clean
  <2>5. ~(client.request.length < BlockModulus) => client.request.length >= BlockModulus
    BY <1>1
  <2> QED BY <1>1, <2>1, <2>4, <2>5, Zenon
<1>3. CASE GiveUp
  <2>1. excused' = excused /\ excused
    BY <1>3, Zenon DEF GiveUp
  <2> QED BY <1>1, <2>1, Zenon
<1>4. CASE ~(Stop \/ GiveUp)
  <2>1. client.status = "failed" /\ client'.request = client.request
        /\ (excused' = excused \/ excused' = TRUE)
    <3>1. CASE Server
      BY <3>1 DEF Server, Received, RefuseMode, WriteRequest, UnexpectedData, DataWritten,
                  DataNotWritten, NotImplemented, Fault, NoFault
    <3>2. CASE \E r \in Requests : Start(r)
      BY <3>2 DEF Start
    <3>3. CASE Ignore \/ Timeout \/ AskToRead
      BY <3>3 DEF Ignore, Timeout, AskToRead
    <3>4. CASE SendNext \/ Finish
      BY <1>1, <3>4 DEF SendNext, Finish, TypeOK, Arrived, Awaited
    <3>5. CASE Lose
      BY <3>5 DEF Lose
    <3> QED BY <1>4, <3>1, <3>2, <3>3, <3>4, <3>5 DEF Next, Client
  <2>2. excused \/ ~client.request.octet \/ client.request.length >= BlockModulus
    BY <1>1, <2>1 DEF FailsForAReason
  <2> QED BY <1>1, <2>1, <2>2, Zenon
<1> QED BY <1>2, <1>3, <1>4
-----------------------------------------------------------------------------
(* The theorems *)

LEMMA InitInv == Init => Inv
<1> SUFFICES ASSUME Init PROVE Inv
  OBVIOUS
<1>1. /\ currentBlockNumber = -1 /\ outFile = NotOpen /\ cwd = Root
      /\ toServer = <<>> /\ toClient = <<>> /\ client.status = "idle" /\ client.sent = 0
      /\ client.request \in Requests /\ client \in ClientRecords
      /\ promised = [p \in Paths |-> <<>>] /\ disk = promised
      /\ uploads = 0 /\ retries = 0 /\ faults = 0
  BY TftpAssumption DEF Init, ClientRecords
<1>2. /\ outFile \in Files /\ promised \in [Paths -> Data]
      /\ client.request.length \in Nat /\ BlockModulus \in Nat \ {0, 1}
  <2>1. <<>> \in Data
    BY DEF Data
  <2>2. outFile \in Files /\ promised \in [Paths -> Data]
    BY <1>1, <2>1 DEF NotOpen, Files
  <2> QED BY <1>1, <2>2, ContentType, TftpAssumption
<1>3. excused \in BOOLEAN
  BY Zenon DEF Init
<1>4. toServer \in Seq(Packets) /\ toClient \in Seq(Answers)
  BY <1>1
<1>5. TypeOK
  BY <1>1, <1>2, <1>3, <1>4, TftpAssumption DEF TypeOK, ClientRecords, Files
<1>6. Counts /\ ~Sending
  BY <1>1, <1>2 DEF Counts, Sending
<1>7. InOrder /\ AnswersInOrder /\ Kept /\ InTurn
  BY <1>1, <1>6 DEF InOrder, AnswersInOrder, Kept, InTurn, Clean
<1>8. Safe /\ UploadedStays /\ FailsForAReason
  BY <1>1, <1>6 DEF Safe, IsOpen, NotOpen, UploadedStays, FailsForAReason
<1> QED BY <1>5, <1>6, <1>7, <1>8 DEF Inv

LEMMA NextInv == Inv /\ [Next]_vars => Inv'
<1> SUFFICES ASSUME Inv, [Next]_vars PROVE Inv'
  OBVIOUS
<1>1. TypeOK /\ Counts /\ InOrder /\ TypeOK'
  BY TypeNext DEF Inv
<1>2. CASE Server
  <2>1. Counts' /\ InOrder'
    BY <1>1, <1>2, ServerStep, TailInOrder DEF Counts, Sending
  <2>2. AnswersInOrder' /\ Kept' /\ InTurn'
    BY <1>1, <1>2, ServerAnswersInOrder, ServerKept, ServerInTurn
  <2>3. Safe' /\ UploadedStays' /\ FailsForAReason'
    BY <1>1, <1>2, ServerSafe, NextFails DEF Next
  <2> QED BY <1>1, <2>1, <2>2, <2>3 DEF Inv
<1>3. CASE Client
  <2>1. Counts' /\ InOrder' /\ AnswersInOrder' /\ Kept'
    BY <1>1, <1>3, ClientInOrder
  <2>2. InTurn'
    BY <1>1, <1>3, <2>1, ClientInTurn
  <2>3. Safe' /\ UploadedStays' /\ FailsForAReason'
    BY <1>1, <1>3, ClientSafe, NextFails DEF Next
  <2> QED BY <1>1, <2>1, <2>2, <2>3 DEF Inv
<1>4. CASE Lose
  <2>1. Counts' /\ InOrder' /\ AnswersInOrder' /\ Kept'
    BY <1>4, LoseInOrder
  <2>2. excused' = TRUE
    BY <1>4, Zenon DEF Lose
  <2>3. InTurn'
    BY <2>2, Zenon DEF InTurn, Clean
  <2>4. Safe' /\ UploadedStays' /\ FailsForAReason'
    BY <1>1, <1>4, ClientSafe, NextFails DEF Next
  <2> QED BY <1>1, <2>1, <2>3, <2>4 DEF Inv
<1>5. CASE UNCHANGED vars
  <2>1. UNCHANGED <<currentBlockNumber, outFile, cwd, disk, toServer, toClient, client, uploads,
                    retries, faults, excused, promised>>
    BY <1>5 DEF vars, serverVars, countVars
  <2>2. Counts' /\ InOrder' /\ AnswersInOrder'
    BY <2>1 DEF Inv, Counts, InOrder, AnswersInOrder, Sending, Mine, MyAck, Genuine
  <2>3. Kept'
    BY <2>1 DEF Inv, Kept, Sending, Acknowledged, MyAck, Reached, Stored, Mine, MyData, MyPath,
                IsOpen
  <2>4. InTurn'
    BY <2>1 DEF Inv, InTurn, Clean, Sending, Mine, IsOpen
  <2>5. Safe' /\ UploadedStays' /\ FailsForAReason'
    BY <2>1 DEF Inv, Safe, Free, Sending, IsOpen, UploadedStays, FailsForAReason
  <2> QED BY <1>1, <2>2, <2>3, <2>4, <2>5 DEF Inv
<1> QED BY <1>2, <1>3, <1>4, <1>5 DEF Next

LEMMA InvKeeps == Inv => AcknowledgedIsKept
<1> SUFFICES ASSUME Inv, Sending, Plain(client.request), NEW i \in 1 .. client.sent - 1
             PROVE  i <= Len(MyData) /\ MyData[i] = <<uploads, i>>
  BY DEF AcknowledgedIsKept, Sending, MyData, MyPath
<1>1. client.sent \in Nat /\ client.sent - 1 \in Nat /\ (client.sent - 1) + 1 = client.sent
  BY PathType DEF Inv
<1>2. Stored(client.sent - 1)
  BY <1>1 DEF Inv, Kept, Acknowledged
<1>3. MyData \in Data
  BY PathType DEF Inv
<1> QED BY <1>1, <1>2, <1>3 DEF Stored, Data

LEMMA Invariance == Spec => []Inv
BY InitInv, NextInv, PTL DEF Spec

\* The server's counters, queues and files have their types, however many
\* packets come: a block number received never leaves the 16 bits.
THEOREM TypeCorrect == Spec => []TypeOK
<1>1. Inv => TypeOK
  BY DEF Inv
<1> QED BY <1>1, Invariance, PTL

\* Every block the server acknowledged is in the file, at its place, whatever
\* was lost, repeated or refused (handleTftpData).
THEOREM AcknowledgedKept == Spec => []AcknowledgedIsKept
BY InvKeeps, Invariance, PTL

\* A file of which the client was told that it is complete is on the card, and
\* no packet still on its way takes it away.
THEOREM UploadsStay == Spec => []UploadedStays
<1>1. Inv => UploadedStays
  BY DEF Inv
<1> QED BY <1>1, Invariance, PTL

\* On a network and a card without faults the server refuses no transfer in
\* octet mode that has fewer blocks than there are block numbers.
THEOREM FailuresHaveReasons == Spec => []FailsForAReason
<1>1. Inv => FailsForAReason
  BY DEF Inv
<1> QED BY <1>1, Invariance, PTL
=============================================================================
