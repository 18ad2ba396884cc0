---------------------------- MODULE FileService ----------------------------
(***************************************************************************)
(* What the browse-mode drive promises the computer about its files.  A    *)
(* channel is a stream: closed, reading a stored file from a place on, or  *)
(* writing data that is stored when the stream is closed.  Buffers, the    *)
(* ATN sequence and the lazy opening of files are not visible here.        *)
(***************************************************************************)
EXTENDS Naturals, Sequences

CONSTANTS Streams, Names, NoName, Bytes, NoFile

VARIABLES
  stored,   \* what the folder holds of each name
  stream,   \* the state of each stream
  heard     \* what the computer has heard on each stream

vars == <<stored, stream, heard>>

Idle == [state |-> "closed", name |-> NoName, data |-> <<>>, at |-> 0]

Init ==
  /\ stored \in [Names -> Seq(Bytes) \union {NoFile}]
  /\ stream = [c \in Streams |-> Idle]
  /\ heard = [c \in Streams |-> <<>>]

\* A stream starts: on an empty file, at the end of a stored one, or at the
\* beginning of a stored one.
StartWriting(c) ==
  /\ stream[c].state = "closed"
  /\ \E n \in Names : \E base \in {<<>>, stored[n]} :
       /\ base # NoFile
       /\ stored' = [stored EXCEPT ![n] = base]
       /\ stream' = [stream EXCEPT ![c] = [state |-> "writing", name |-> n,
                                           data |-> base, at |-> 0]]
  /\ UNCHANGED heard

StartReading(c) ==
  /\ stream[c].state = "closed"
  /\ \E n \in Names :
       /\ stored[n] # NoFile
       /\ stream' = [stream EXCEPT ![c] = [state |-> "reading", name |-> n,
                                           data |-> <<>>, at |-> 0]]
  /\ UNCHANGED <<stored, heard>>

Put(c) ==
  /\ stream[c].state = "writing"
  /\ \E b \in Bytes : stream' = [stream EXCEPT ![c].data = Append(@, b)]
  /\ UNCHANGED <<stored, heard>>

\* The next byte in order.  EOI comes with the last byte of the file, and only
\* to a computer that has then heard the whole file.
Get(c) ==
  LET content == stored[stream[c].name]
      next    == stream[c].at + 1
  IN  /\ stream[c].state = "reading"
      /\ next <= Len(content)
      /\ stream' = [stream EXCEPT ![c].at = next]
      /\ \E eoi \in BOOLEAN :
           /\ heard' = [heard EXCEPT ![c] =
                          Append(@, [byte |-> content[next], eoi |-> eoi])]
           /\ eoi <=> Len(heard'[c]) = Len(content)
      /\ UNCHANGED stored

\* A transfer that is broken off may cost the reader some bytes, never repeat any.
Skip(c) ==
  /\ stream[c].state = "reading"
  /\ stream'[c].at > stream[c].at
  /\ stream' = [stream EXCEPT ![c].at = stream'[c].at]
  /\ UNCHANGED <<stored, heard>>

\* Closing a stream stores what was written.
Close(C) ==
  /\ \A c \in C : stream[c].state # "closed"
  /\ stream' = [c \in Streams |-> IF c \in C THEN Idle ELSE stream[c]]
  /\ stored' = [n \in Names |->
       IF \E c \in C : stream[c].state = "writing" /\ stream[c].name = n
       THEN stream[CHOOSE c \in C : stream[c].state = "writing" /\ stream[c].name = n].data
       ELSE stored[n]]
  /\ \/ UNCHANGED heard
     \/ heard' = [c \in Streams |-> IF c \in C THEN <<>> ELSE heard[c]]

\* The computer starts counting anew on a stream that is closed.
Forget(c) ==
  /\ stream[c].state = "closed"
  /\ heard' = [heard EXCEPT ![c] = <<>>]
  /\ UNCHANGED <<stored, stream>>

\* Copying, renaming and deleting leave the files in use alone.
Manage ==
  /\ \A c \in Streams : stream[c].state # "closed" =>
       stored'[stream[c].name] = stored[stream[c].name]
  /\ stored' \in [Names -> Seq(Bytes) \union {NoFile}]
  /\ UNCHANGED <<stream, heard>>

Next ==
  \/ \E c \in Streams : \/ StartWriting(c) \/ StartReading(c) \/ Put(c)
                        \/ Get(c) \/ Skip(c) \/ Forget(c)
  \/ \E C \in SUBSET Streams : Close(C)
  \/ Manage

Spec == Init /\ [][Next]_vars
=============================================================================
