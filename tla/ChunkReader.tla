---------------------------- MODULE ChunkReader ----------------------------
(***************************************************************************)
(* The reading half of ChunkStreamer, with the part of the server's        *)
(* message loop that feeds back into it (a SetChunkSize message).  One     *)
(* goroutine reads a connection, so a chunk is one step: header, data,     *)
(* assembly and, when the message is complete, processMessage.             *)
(***************************************************************************)
EXTENDS ChunkFormat

CONSTANTS
  WindowAckSize    \* cs.windowAckSize

ASSUME WindowAssumption == WindowAckSize \in Nat

VARIABLES
  readChunkSize,        \* cs.readChunkSize
  readStreamStates,     \* cs.readStreamStates; a missing entry is NewChunkState
  incompleteMessages,   \* cs.incompleteMessages, a map: its DOMAIN is the keys
  unacked,              \* cs.bytesReceived - cs.lastAckSent
  received              \* the messages ReadMessage has returned, in order

readerVars ==
  <<readChunkSize, readStreamStates, incompleteMessages, unacked, received>>

ReaderInit(size) ==
  /\ readChunkSize = size
  /\ readStreamStates = [c \in ChunkStreams |-> NewChunkState]
  /\ incompleteMessages = << >>
  /\ unacked = 0
  /\ received = << >>

----------------------------------------------------------------------------
\* A type 0 header whose timestamp field is full announces four more bytes;
\* the other formats never read them.
ReadsExtended(h) == h.fmt = 0 /\ h.stamp = ExtendedMark

\* The state the header leaves behind for its chunk stream, which is also the
\* complete header of this chunk.
readMessageHeader(h, st) ==
  CASE h.fmt = 0 ->
         [timestamp |-> IF ReadsExtended(h) THEN h.ext[1] ELSE h.stamp,
          length |-> h.length, type |-> h.type, msid |-> h.msid, delta |-> 0]
    [] h.fmt = 1 ->
         [timestamp |-> (st.timestamp + h.stamp) % U32, length |-> h.length,
          type |-> h.type, msid |-> st.msid, delta |-> h.stamp]
    [] h.fmt = 2 ->
         [st EXCEPT !.timestamp = (@ + h.stamp) % U32, !.delta = h.stamp]
    [] h.fmt = 3 ->
         [st EXCEPT !.timestamp = (@ + st.delta) % U32]

\* The remaining length is a uint32 difference with the length of THIS header.
calculateChunkDataSize(h) ==
  LET length == readMessageHeader(h, readStreamStates[h.csid]).length
      remaining == IF h.csid \in DOMAIN incompleteMessages
                   THEN (length - incompleteMessages[h.csid].bytesRead) % U32
                   ELSE length
  IN  Least(remaining, readChunkSize)

getChunkHeaderSize(fmt) == CASE fmt = 0 -> 12 [] fmt = 1 -> 8 [] fmt = 2 -> 4 [] fmt = 3 -> 1

\* The acknowledgement itself is not sent; only the counter restarts.
updateBytesReceived(n) ==
  unacked' = IF WindowAckSize > 0 /\ unacked + n >= WindowAckSize
             THEN 0 ELSE unacked + n

\* The message a chunk begins, and one it continues, with the bytes so far.
BeginMessage(csid, hd, data) ==
  [message |-> [csid |-> csid, msid |-> hd.msid, timestamp |-> hd.timestamp,
                type |-> hd.type, data |-> CopyInto(Blanks(hd.length), 0, data)],
   bytesRead |-> Len(data)]

\* Mutant: a chunk overwrites the beginning of its message.
RestartMessage(inc, data) ==
  [message |-> [inc.message EXCEPT !.data = CopyInto(@, 0, data)],
   bytesRead |-> inc.bytesRead + Len(data)]

ContinueMessage(inc, data) ==
  [message |-> [inc.message EXCEPT !.data = CopyInto(@, inc.bytesRead, data)],
   bytesRead |-> inc.bytesRead + Len(data)]

\* Mutant: a full message waits for one more byte.
IsOverfull(inc) == inc.bytesRead > Len(inc.message.data)

IsComplete(inc) == inc.bytesRead >= Len(inc.message.data)

\* Mutant: a zero size is accepted.
ReadSizeUnchecked(size) ==
  readChunkSize' = IF size <= MaxChunkSize THEN size ELSE readChunkSize

\* An illegal size is an error that the message loop drops.
SetReadChunkSize(size) ==
  readChunkSize' = IF size \in 1 .. MaxChunkSize THEN size ELSE readChunkSize

processMessage(msg) ==
  IF msg.type = MessageTypeSetChunkSize /\ Len(msg.data) >= 4
  THEN SetReadChunkSize(BigEndian(msg.data))
  ELSE UNCHANGED readChunkSize

assembleMessage(csid, hd, data) ==
  LET inc == IF csid \in DOMAIN incompleteMessages
             THEN ContinueMessage(incompleteMessages[csid], data)
             ELSE BeginMessage(csid, hd, data)
  IN  IF IsComplete(inc)
      THEN /\ received' = Append(received, inc.message)
           /\ incompleteMessages' =
                [c \in DOMAIN incompleteMessages \ {csid} |-> incompleteMessages[c]]
           /\ processMessage(inc.message)
      ELSE /\ incompleteMessages' =
                [c \in DOMAIN incompleteMessages \cup {csid} |->
                   IF c = csid THEN inc ELSE incompleteMessages[c]]
           /\ UNCHANGED <<received, readChunkSize>>

\* One turn of ReadMessage's loop on a chunk with header h and payload data.
ReadChunk(h, data) ==
  LET hd == readMessageHeader(h, readStreamStates[h.csid])
  IN  /\ Len(data) = calculateChunkDataSize(h)
      /\ readStreamStates' = [readStreamStates EXCEPT ![h.csid] = hd]
      /\ updateBytesReceived(Len(data) + getChunkHeaderSize(h.fmt))
      /\ assembleMessage(h.csid, hd, data)

----------------------------------------------------------------------------
Incomplete == [message : Message, bytesRead : Nat]

\* The reader's variables hold values of their Go types.
ReaderTypeOK ==
  /\ readChunkSize \in 1 .. MaxChunkSize
  /\ readStreamStates \in [ChunkStreams -> ChunkState]
  /\ DOMAIN incompleteMessages \subseteq ChunkStreams
  /\ incompleteMessages \in [DOMAIN incompleteMessages -> Incomplete]
  /\ unacked \in Nat
  /\ received \in Seq(Message)

\* A message in assembly always has room left and has begun: the slice
\* message.Data[bytesRead:] in assembleMessage is in range whatever lengths
\* the peer announces in the middle of a message.
AssemblyInBounds ==
  \A c \in DOMAIN incompleteMessages :
    LET inc == incompleteMessages[c]
    IN  /\ inc.message.csid = c
        /\ 0 < inc.bytesRead
        /\ inc.bytesRead < Len(inc.message.data)

\* Received bytes fill a message from the front without a gap, and a message
\* is handed on only when none of its bytes is missing, whatever the peer
\* says the length is and however chunk streams interleave.
NoHoles ==
  /\ \A c \in DOMAIN incompleteMessages :
       LET inc == incompleteMessages[c]
       IN  \A i \in 1 .. Len(inc.message.data) :
             (inc.message.data[i] = Blank) <=> (i > inc.bytesRead)
  /\ \A k \in 1 .. Len(received) :
       \A i \in 1 .. Len(received[k].data) : received[k].data[i] # Blank

=============================================================================
