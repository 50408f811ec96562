----------------------------- MODULE ChunkLink -----------------------------
(***************************************************************************)
(* Two ChunkStreamers joined by one direction of a TCP connection: the     *)
(* writer of one end, the bytes in flight and the reader of the other.     *)
(* Each end keeps its own idea of the chunk size and of every chunk        *)
(* stream's last header; nothing on the wire says where a chunk ends, so   *)
(* the reader finds the next one only if the two ideas agree.              *)
(***************************************************************************)
EXTENDS ChunkWriter, ChunkReader, SequencesExt

CONSTANTS
  Messages,        \* what applications write: csid 0 lets the writer choose
  Sizes,           \* the chunk sizes applications ask for
  InitialSize,     \* the size both ends start from
  Steady,          \* TRUE: no timestamp step reaches the extended mark
  MaxSent          \* bound on the messages written

\* Applications change the chunk size by AnnounceChunkSize only; a size has 31
\* bits, and its message is on chunk stream 2 and 4 bytes long.
ASSUME LinkAssumption ==
  /\ Messages \subseteq [csid : ChunkStreams \cup {0}, msid : 0 .. U32 - 1,
                         timestamp : 0 .. U32 - 1, type : Byte \ {MessageTypeSetChunkSize},
                         data : Seq(Byte)]
  /\ \A m \in Messages : Len(m.data) < U24
  /\ \A s \in Sizes : s \in Nat /\ ((s \div 256) \div 256) \div 256 < 128
  /\ 2 \in ChunkStreams
  /\ 4 < U24
  /\ InitialSize \in 1 .. MaxChunkSize
  /\ Steady \in BOOLEAN
  /\ MaxSent \in Nat

VARIABLES
  wire,         \* the chunks in flight; one whose write failed is cut
  broken,       \* a write has failed, and every later one would
  garbled,      \* the reader has taken bytes for what they are not
  announcing,   \* a size whose SetChunkSize message is written, or 0 .. none
  sent          \* the messages with a payload WriteMessage was given

linkVars == <<wire, broken, garbled, announcing, sent>>
vars == <<writerVars, readerVars, linkVars>>

NoSize == -1

Init ==
  /\ WriterInit(InitialSize)
  /\ ReaderInit(InitialSize)
  /\ wire = << >>
  /\ broken = FALSE
  /\ garbled = FALSE
  /\ announcing = NoSize
  /\ sent = << >>

----------------------------------------------------------------------------
(* The writing end.  One caller at a time: writeLock.                      *)

\* A step of a timestamp that the three bytes of a short header cannot hold.
LongDelta(m) ==
  LET st == writeStreamStates[m.csid]
  IN  FirstFormat(m, st) = 1 /\ FirstStamp(m, st) >= ExtendedMark

Write(m) ==
  /\ ~broken
  /\ Len(sent) < MaxSent
  /\ Steady => ~LongDelta(Addressed(m))
  /\ WriteMessage(m)
  /\ sent' = IF m.data = << >> THEN sent ELSE Append(sent, Addressed(m))
  /\ UNCHANGED <<readerVars, wire, broken, garbled>>

SendMessage ==
  /\ announcing = NoSize
  /\ \E m \in Messages : Write(m)
  /\ UNCHANGED announcing

\* The protocol control message for a size, written before the size is used.
SetChunkSizeMessage(size) ==
  [csid |-> 2, msid |-> 0, timestamp |-> 0, type |-> MessageTypeSetChunkSize,
   data |-> <<((size \div 256) \div 256) \div 256, ((size \div 256) \div 256) % 256,
              (size \div 256) % 256, size % 256>>]

AnnounceChunkSize ==
  /\ announcing = NoSize
  /\ \E size \in Sizes : Write(SetChunkSizeMessage(size)) /\ announcing' = size

UseChunkSize ==
  /\ announcing # NoSize
  /\ outq = << >>
  /\ SetWriteChunkSize(announcing)
  /\ announcing' = NoSize
  /\ UNCHANGED <<readerVars, wire, broken, garbled, sent>>

WriteChunk ==
  /\ outq # << >>
  /\ wire' = Append(wire, [header |-> Head(outq).header, data |-> Head(outq).data,
                           cut |-> FALSE])
  /\ outq' = Tail(outq)
  /\ UNCHANGED <<writeChunkSize, writeStreamStates, nextWriteChunkID,
                 readerVars, broken, garbled, announcing, sent>>

\* One of writeChunk's Writes fails part way, and WriteMessage returns.
WriteFails ==
  /\ outq # << >>
  /\ wire' = Append(wire, [header |-> Head(outq).header, data |-> << >>, cut |-> TRUE])
  /\ outq' = << >>
  /\ broken' = TRUE
  /\ UNCHANGED <<writeChunkSize, writeStreamStates, nextWriteChunkID,
                 readerVars, garbled, announcing, sent>>

----------------------------------------------------------------------------
(* The reading end.                                                        *)

\* The header the reader makes of a chunk's bytes, if it takes them all.
Decoded(w) ==
  [fmt |-> parseFormat(w.basic), csid |-> parseChunkStreamID(w.basic),
   stamp |-> w.stamp, ext |-> w.ext, length |-> w.length, type |-> w.type,
   msid |-> w.msid]

\* The reader consumes exactly this chunk's bytes: basic header, message
\* header, extended timestamp and data are as long as it expects.
InStep(chunk) ==
  /\ BasicHeaderSize(chunk.header.basic[1]) = Len(chunk.header.basic)
  /\ ReadsExtended(Decoded(chunk.header)) <=> chunk.header.ext # << >>
  /\ Len(chunk.data) = calculateChunkDataSize(Decoded(chunk.header))

Receive ==
  /\ ~garbled
  /\ wire # << >>
  /\ ~Head(wire).cut
  /\ wire' = Tail(wire)
  /\ IF InStep(Head(wire))
     THEN /\ ReadChunk(Decoded(Head(wire).header), Head(wire).data)
          /\ UNCHANGED garbled
     ELSE /\ garbled' = TRUE
          /\ UNCHANGED readerVars
  /\ UNCHANGED <<writerVars, broken, announcing, sent>>

----------------------------------------------------------------------------
LinkNext ==
  \/ SendMessage \/ AnnounceChunkSize \/ UseChunkSize
  \/ WriteChunk \/ WriteFails \/ Receive

\* WriteMessage's loop and the connection's read goroutine keep running;
\* nothing obliges an application to write, or a write to fail.
LinkSpec ==
  Init /\ [][LinkNext]_vars /\ WF_vars(WriteChunk) /\ WF_vars(Receive)

----------------------------------------------------------------------------
LinkTypeOK ==
  /\ ReaderTypeOK
  /\ writeChunkSize \in 1 .. MaxChunkSize
  /\ writeStreamStates \in [ChunkStreams -> ChunkState]
  /\ nextWriteChunkID \in 2 .. LastAutoID
  /\ broken \in BOOLEAN
  /\ garbled \in BOOLEAN
  /\ announcing \in Sizes \cup {NoSize}
  /\ sent \in Seq(Message)

\* Every chunk begins where the reader looks for it: sizes in force on the
\* two ends, inherited header fields and the extended timestamps of full
\* headers never disagree while chunks are in flight, also across a change of
\* the chunk size.  It is said of timestamps that take steps below the mark
\* (Steady): behind a type 1 header the writer puts an extended timestamp too
\* (chunk_streamer.go:293) and the reader looks for none.
Aligned == ~garbled

\* With nothing in flight the two ends hold the same header for every chunk
\* stream that carried a message last; one written without a payload left
\* length 0 behind, which no message with a payload can inherit.
HeadersAgree ==
  outq = << >> /\ wire = << >> /\ ~broken =>
    \A c \in ChunkStreams :
      LET w == writeStreamStates[c]
          r == readStreamStates[c]
      IN  w.length # 0 => /\ r.length = w.length
                          /\ r.type = w.type
                          /\ r.msid = w.msid

\* And the same chunk size, unless one is about to be put in use.
SizesAgree ==
  outq = << >> /\ wire = << >> /\ ~broken /\ announcing = NoSize =>
    readChunkSize = writeChunkSize

\* What the receiver must get of a message; its timestamp apart.
Content(m) == [csid |-> m.csid, msid |-> m.msid, type |-> m.type, data |-> m.data]

Arriving == IF broken THEN Front(sent) ELSE sent

\* The messages that can be on their way.
Sendable ==
  {m \in Messages : m.csid # 0}
    \cup {[m EXCEPT !.csid = c] : m \in {x \in Messages : x.csid = 0}, c \in 2 .. LastAutoID}
    \cup {SetChunkSizeMessage(size) : size \in Sizes}

Fifo == INSTANCE MessageFifo WITH
  Contents <- {Content(m) : m \in Sendable},
  inflight <- [k \in 1 .. Len(Arriving) - Len(received) |->
                 Content(Arriving[Len(received) + k])],
  delivered <- [k \in 1 .. Len(received) |-> Content(received[k])],
  open <- ~broken

\* The link implements the message queue: whole messages, in order, once.
ImplementsFifo == Fifo!Spec

\* Every message written is received, unless the connection breaks first.
EveryMessageArrives ==
  \A k \in 1 .. MaxSent : Len(sent) >= k ~> Len(received) >= k \/ broken

\* README, Chunk Streaming: "Proper timestamp handling".
TimestampsIntact ==
  \A k \in 1 .. Len(received) :
    k <= Len(sent) => received[k].timestamp = sent[k].timestamp

=============================================================================
