---------------------------- MODULE ChunkWriter ----------------------------
(***************************************************************************)
(* The writing half of ChunkStreamer.  ServerConnection.WriteMessage holds *)
(* writeLock from the first chunk of a message to the last, so outq, the   *)
(* chunks of the message under way, is empty when a message begins.        *)
(***************************************************************************)
EXTENDS ChunkFormat

CONSTANTS
  LastAutoID   \* 65535: the last id getNextChunkStreamID hands out

ASSUME AutoIDAssumption ==
  /\ LastAutoID \in Nat \ {0, 1}
  /\ 2 .. LastAutoID \subseteq ChunkStreams

VARIABLES
  writeChunkSize,      \* cs.writeChunkSize
  writeStreamStates,   \* cs.writeStreamStates; a missing entry is NewChunkState
  nextWriteChunkID,    \* cs.nextWriteChunkID
  outq                 \* the chunks of WriteMessage's loop still to be written

writerVars == <<writeChunkSize, writeStreamStates, nextWriteChunkID, outq>>

WriterInit(size) ==
  /\ writeChunkSize = size
  /\ writeStreamStates = [c \in ChunkStreams |-> NewChunkState]
  /\ nextWriteChunkID = 2
  /\ outq = << >>

----------------------------------------------------------------------------
\* Mutants: forget that the length, or the type, is what a short header inherits.
FormatIgnoringLength(m, st) ==
  IF st.msid # m.msid \/ st.type # m.type THEN 0
  ELSE IF st.timestamp # m.timestamp THEN 1 ELSE 2

FormatIgnoringType(m, st) ==
  IF st.msid # m.msid \/ st.length # Len(m.data) THEN 0
  ELSE IF st.timestamp # m.timestamp THEN 1 ELSE 2

\* The format of a message's first chunk: a short header only when the chunk
\* stream already carries what the short header leaves out.
FirstFormat(m, st) ==
  IF st.msid # m.msid \/ st.length # Len(m.data) \/ st.type # m.type THEN 0
  ELSE IF st.timestamp # m.timestamp THEN 1 ELSE 2

\* header.Timestamp of that chunk: absolute, a wrapped difference, or nothing.
FirstStamp(m, st) ==
  CASE FirstFormat(m, st) = 0 -> m.timestamp
    [] FirstFormat(m, st) = 1 -> (m.timestamp - st.timestamp) % U32
    [] OTHER -> 0

\* What writeChunk puts on the wire.  createChunks never sets TimestampDelta,
\* the field a type 1 or type 2 header is encoded from, so their three-byte
\* stamp is 0; the extended timestamp follows any header whose Timestamp
\* reached the mark.
createMessageHeader(fmt, stamp, m) ==
  [basic |-> createBasicHeader(fmt, m.csid),
   stamp |-> IF fmt = 0 THEN Least(stamp, ExtendedMark) ELSE 0,
   ext |-> IF stamp >= ExtendedMark THEN <<stamp>> ELSE << >>,
   length |-> IF fmt \in {0, 1} THEN Len(m.data) % U24 ELSE 0,
   type |-> IF fmt \in {0, 1} THEN m.type ELSE 0,
   msid |-> IF fmt = 0 THEN m.msid ELSE 0]

\* Mutant: the offset does not advance.
ChunkBytesFromStart(m, k) ==
  SubSeq(m.data, 1, Least(writeChunkSize, Len(m.data) - (k - 1) * writeChunkSize))

\* The k-th slice of the data, writeChunkSize bytes but for the last.
ChunkBytes(m, k) ==
  SubSeq(m.data, (k - 1) * writeChunkSize + 1,
         Least(k * writeChunkSize, Len(m.data)))

\* Mutant: the short chunk at the end is left out.
WholeChunks(m) == Len(m.data) \div writeChunkSize

ChunkCount(m) == (Len(m.data) + writeChunkSize - 1) \div writeChunkSize

\* An empty message has no chunk at all.
createChunks(m) ==
  LET st == writeStreamStates[m.csid]
  IN  [k \in 1 .. ChunkCount(m) |->
        [header |-> IF k = 1
                    THEN createMessageHeader(FirstFormat(m, st), FirstStamp(m, st), m)
                    ELSE createMessageHeader(3, 0, m),
         data |-> ChunkBytes(m, k)]]

\* Mutant: the id is never reset.
NextIDUnbounded == nextWriteChunkID' = nextWriteChunkID + 1

getNextChunkStreamID ==
  nextWriteChunkID' = IF nextWriteChunkID + 1 > LastAutoID THEN 2
                      ELSE nextWriteChunkID + 1

\* WriteMessage up to its loop: m already carries its chunk stream id.  The
\* stream's state is that of m from here on, whether or not m gets written.
BeginWrite(m) ==
  /\ outq = << >>
  /\ outq' = createChunks(m)
  /\ writeStreamStates' = [writeStreamStates EXCEPT ![m.csid] =
       [@ EXCEPT !.timestamp = m.timestamp, !.length = Len(m.data),
                 !.type = m.type, !.msid = m.msid]]
  /\ UNCHANGED writeChunkSize

\* Chunk stream 0 asks for a stream of the writer's choice.
Addressed(m) == IF m.csid = 0 THEN [m EXCEPT !.csid = nextWriteChunkID] ELSE m

WriteMessage(m) ==
  /\ BeginWrite(Addressed(m))
  /\ IF m.csid = 0 THEN getNextChunkStreamID ELSE UNCHANGED nextWriteChunkID

\* Mutant: an illegal size is clamped where the other end ignores it.
WriteSizeClamped(size) ==
  /\ writeChunkSize' = IF size = 0 THEN 1 ELSE Least(size, MaxChunkSize)
  /\ UNCHANGED <<writeStreamStates, nextWriteChunkID, outq>>

\* An illegal size is an error, and leaves the size as it is.
SetWriteChunkSize(size) ==
  /\ writeChunkSize' = IF size \in 1 .. MaxChunkSize THEN size ELSE writeChunkSize
  /\ UNCHANGED <<writeStreamStates, nextWriteChunkID, outq>>

=============================================================================
