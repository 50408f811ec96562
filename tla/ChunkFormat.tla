---------------------------- MODULE ChunkFormat ----------------------------
(***************************************************************************)
(* The vocabulary of the RTMP chunk stream that the writing and the        *)
(* reading half of ChunkStreamer share: the widths of the header fields,   *)
(* messages, the per-chunk-stream header state and the basic header.       *)
(***************************************************************************)
EXTENDS Integers, Sequences

CONSTANTS
  U24,            \* 2^24: the range of the three-byte header fields
  U32,            \* 2^32: the range of uint32, where subtraction wraps
  MaxChunkSize,   \* the largest chunk size SetRead/WriteChunkSize accept
  ChunkStreams    \* the chunk stream ids in use

ASSUME WidthsAssumption ==
  /\ U24 \in Nat \ {0, 1}
  /\ U32 \in Nat
  /\ U24 <= U32
  /\ MaxChunkSize \in Nat \ {0}

ASSUME ChunkStreamsAssumption == \A c \in ChunkStreams : c \in Nat /\ 2 <= c /\ c <= 65599

\* A three-byte timestamp of 0xFFFFFF says that an extended one follows.
ExtendedMark == U24 - 1

\* MessageType values the streamer or the server's message loop looks at.
MessageTypeSetChunkSize == 1

Byte == 0 .. 255

\* A buffer byte that no chunk has filled yet.  make([]byte, n) zeroes it; a
\* value of its own keeps a hole in a message apart from a byte that is 0.
Blank == 256

\* Length is not a field: ReadMessage and NewMessage make it Len(data).
Message == [csid : ChunkStreams, msid : 0 .. U32 - 1, timestamp : 0 .. U32 - 1,
            type : Byte, data : Seq(0 .. 256)]

ChunkState == [timestamp : 0 .. U32 - 1, length : 0 .. U32 - 1, type : Byte,
               msid : 0 .. U32 - 1, delta : 0 .. U32 - 1]

\* A chunk stream that no message has used: the zero chunkStreamState.
NewChunkState ==
  [timestamp |-> 0, length |-> 0, type |-> 0, msid |-> 0, delta |-> 0]

\* A header as it stands on the wire; a field its format lacks is 0 or <<>>.
WireHeader == [fmt : 0 .. 3, csid : ChunkStreams, stamp : 0 .. U24 - 1,
               ext : {<<>>} \cup {<<t>> : t \in 0 .. U32 - 1},
               length : 0 .. U24 - 1, type : Byte, msid : 0 .. U32 - 1]

Least(a, b) == IF a <= b THEN a ELSE b

\* make([]byte, n) and Go's copy(buf[at:], src), which stops at buf's end.
Blanks(n) == [i \in 1 .. n |-> Blank]
CopyInto(buf, at, src) ==
  [i \in 1 .. Len(buf) |-> IF i - at \in 1 .. Len(src) THEN src[i - at] ELSE buf[i]]

\* The number that four bytes are.
BigEndian(data) == ((data[1] * 256 + data[2]) * 256 + data[3]) * 256 + data[4]

----------------------------------------------------------------------------
(* The basic header: two bits of format, then a chunk stream id in one of  *)
(* three forms.                                                            *)

createBasicHeader(fmt, csid) ==
  IF csid < 64 THEN << 64 * fmt + csid >>
  ELSE IF csid < 320 THEN << 64 * fmt, csid - 64 >>
  ELSE << 64 * fmt + 1, (csid - 64) % 256, ((csid - 64) \div 256) % 256 >>

\* How many bytes readBasicHeader takes, which the first of them decides.
BasicHeaderSize(first) ==
  IF first % 64 = 0 THEN 2 ELSE IF first % 64 = 1 THEN 3 ELSE 1

parseFormat(basic) == basic[1] \div 64

parseChunkStreamID(basic) ==
  IF basic[1] % 64 = 0 THEN basic[2] + 64
  ELSE IF basic[1] % 64 = 1 THEN basic[2] + basic[3] * 256 + 64
  ELSE basic[1] % 64

=============================================================================
