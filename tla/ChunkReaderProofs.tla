------------------------- MODULE ChunkReaderProofs -------------------------
(***************************************************************************)
(* What the reading half of ChunkStreamer keeps, for every width of the    *)
(* header fields, every chunk size and every chunk it may read: one turn   *)
(* of ReadMessage preserves ReaderInv.                                     *)
(***************************************************************************)
EXTENDS ChunkReader, TLAPS

\* A function on 1 .. n is a sequence of length n.
LEMMA FunctionIsSeq ==
  ASSUME NEW S, NEW n \in Nat, NEW f \in [1 .. n -> S]
  PROVE  f \in Seq(S) /\ Len(f) = n
  OBVIOUS

\* An element of a sequence of bytes or blanks is a byte or a blank.
LEMMA SeqElement ==
  ASSUME NEW S, NEW s \in Seq(S), NEW i \in 1 .. Len(s)
  PROVE  s[i] \in S
  OBVIOUS

\* No byte of a chunk is a blank.
LEMMA ByteNotBlank ==
  \A b \in Byte : b # Blank
  BY DEF Byte, Blank

\* uint32 arithmetic stays within uint32.
LEMMA ModRange ==
  ASSUME NEW a \in Int
  PROVE  a % U32 \in 0 .. U32 - 1
  BY WidthsAssumption

\* make([]byte, n) gives n blanks.
LEMMA BlanksType ==
  ASSUME NEW n \in Nat
  PROVE  /\ Blanks(n) \in Seq(0 .. 256)
         /\ Len(Blanks(n)) = n
         /\ \A i \in 1 .. n : Blanks(n)[i] = Blank
<1>1. Blanks(n) \in [1 .. n -> 0 .. 256]
  BY DEF Blanks, Blank
<1> QED
  BY <1>1, FunctionIsSeq DEF Blanks, Blank

\* copy keeps the buffer's length; what it writes is at its place.
LEMMA CopyIntoType ==
  ASSUME NEW buf \in Seq(0 .. 256), NEW at \in Nat, NEW src \in Seq(Byte)
  PROVE  /\ CopyInto(buf, at, src) \in Seq(0 .. 256)
         /\ Len(CopyInto(buf, at, src)) = Len(buf)
         /\ \A i \in 1 .. Len(buf) :
              CopyInto(buf, at, src)[i] =
                IF i - at \in 1 .. Len(src) THEN src[i - at] ELSE buf[i]
<1>1. Len(buf) \in Nat
  OBVIOUS
<1>2. CopyInto(buf, at, src) \in [1 .. Len(buf) -> 0 .. 256]
  <2> DEFINE e(i) == IF i - at \in 1 .. Len(src) THEN src[i - at] ELSE buf[i]
  <2>1. ASSUME NEW i \in 1 .. Len(buf)
        PROVE  e(i) \in 0 .. 256
    <3>1. buf[i] \in 0 .. 256
      BY SeqElement
    <3>2. ASSUME i - at \in 1 .. Len(src)
          PROVE  src[i - at] \in 0 .. 255
      BY <3>2, SeqElement DEF Byte
    <3> QED
      BY <3>1, <3>2
  <2> HIDE DEF e
  <2>2. [i \in 1 .. Len(buf) |-> e(i)] \in [1 .. Len(buf) -> 0 .. 256]
    BY <2>1
  <2> QED
    BY <2>2 DEF CopyInto, e
<1>3. CopyInto(buf, at, src) \in Seq(0 .. 256) /\ Len(CopyInto(buf, at, src)) = Len(buf)
  <2> DEFINE f == CopyInto(buf, at, src)
  <2>1. f \in [1 .. Len(buf) -> 0 .. 256]
    BY <1>2
  <2> HIDE DEF f
  <2>2. f \in Seq(0 .. 256) /\ Len(f) = Len(buf)
    BY <1>1, <2>1, FunctionIsSeq, ZenonT(30)
  <2> QED
    BY <2>2 DEF f
<1>4. \A i \in 1 .. Len(buf) :
        CopyInto(buf, at, src)[i] =
          IF i - at \in 1 .. Len(src) THEN src[i - at] ELSE buf[i]
  BY DEF CopyInto
<1> QED
  BY <1>3, <1>4

----------------------------------------------------------------------------
\* Whatever form createBasicHeader chooses for a chunk stream id, the reader
\* takes as many bytes as were written and finds the format and the id again.
THEOREM BasicHeaderRoundTrip ==
  ASSUME NEW fmt \in 0 .. 3, NEW csid \in Nat, 2 <= csid, csid < 256 * 256 + 64
  PROVE  LET basic == createBasicHeader(fmt, csid)
         IN  /\ parseFormat(basic) = fmt
             /\ parseChunkStreamID(basic) = csid
             /\ BasicHeaderSize(basic[1]) = Len(basic)
<1> DEFINE basic == createBasicHeader(fmt, csid)
<1> SUFFICES /\ parseFormat(basic) = fmt
             /\ parseChunkStreamID(basic) = csid
             /\ BasicHeaderSize(basic[1]) = Len(basic)
  OBVIOUS
<1>1. CASE csid < 64
  <2>1. basic = << 64 * fmt + csid >>
    BY <1>1, Zenon DEF createBasicHeader
  <2>2. basic[1] = 64 * fmt + csid /\ Len(basic) = 1
    BY <2>1
  <2>3. basic[1] \div 64 = fmt /\ basic[1] % 64 = csid
    BY <1>1, <2>2
  <2>4. csid # 0 /\ csid # 1
    OBVIOUS
  <2> HIDE DEF basic
  <2> QED
    BY <2>2, <2>3, <2>4, Zenon DEF parseFormat, parseChunkStreamID, BasicHeaderSize
<1>2. CASE 64 <= csid /\ csid < 320
  <2>1. ~(csid < 64) /\ csid < 320
    BY <1>2
  <2>2. basic = << 64 * fmt, csid - 64 >>
    BY <2>1 DEF createBasicHeader
  <2>3. basic[1] = 64 * fmt /\ basic[2] = csid - 64 /\ Len(basic) = 2
    BY <2>2
  <2>4. basic[1] \div 64 = fmt /\ basic[1] % 64 = 0 /\ basic[2] + 64 = csid
    BY <2>3
  <2> HIDE DEF basic
  <2> QED
    BY <2>3, <2>4, Zenon DEF parseFormat, parseChunkStreamID, BasicHeaderSize
<1>3. CASE 320 <= csid
  <2> DEFINE low == (csid - 64) % 256
             high == ((csid - 64) \div 256) % 256
  <2>1. ~(csid < 64) /\ ~(csid < 320)
    BY <1>3
  <2>2. basic = << 64 * fmt + 1, low, high >>
    BY <2>1, Zenon DEF createBasicHeader
  <2>3. basic[1] = 64 * fmt + 1 /\ basic[2] = low /\ basic[3] = high /\ Len(basic) = 3
    BY <2>2
  <2>4. basic[1] \div 64 = fmt /\ basic[1] % 64 = 1 /\ 1 # 0
    BY <2>3
  <2>5. (csid - 64) \div 256 \in 0 .. 255
    BY <1>3
  <2>6. high = (csid - 64) \div 256
    BY <2>5
  <2>7. low + high * 256 + 64 = csid
    BY <1>3, <2>6
  <2>8. basic[2] + basic[3] * 256 + 64 = csid
    BY <2>3, <2>7, ZenonT(30)
  <2> HIDE DEF basic, low, high
  <2> QED
    BY <2>3, <2>4, <2>8, Zenon DEF parseFormat, parseChunkStreamID, BasicHeaderSize
<1>4. csid < 64 \/ (64 <= csid /\ csid < 320) \/ 320 <= csid
  OBVIOUS
<1> QED
  BY <1>1, <1>2, <1>3, <1>4

----------------------------------------------------------------------------
\* A chunk stream state with a new timestamp and delta is a chunk stream state.
LEMMA StampedType ==
  ASSUME NEW st \in ChunkState, NEW t \in 0 .. U32 - 1, NEW d \in 0 .. U32 - 1
  PROVE  /\ [st EXCEPT !.timestamp = t] \in ChunkState
         /\ [st EXCEPT !.timestamp = t, !.delta = d] \in ChunkState
  BY DEF ChunkState

\* A header leaves a chunk stream's state within its Go types.
LEMMA HeaderType ==
  ASSUME NEW h \in WireHeader, NEW st \in ChunkState,
         ReadsExtended(h) => h.ext # << >>
  PROVE  readMessageHeader(h, st) \in ChunkState
<1>1. CASE h.fmt = 0
  <2>1. (IF ReadsExtended(h) THEN h.ext[1] ELSE h.stamp) \in 0 .. U32 - 1
    BY WidthsAssumption DEF WireHeader
  <2> QED
    BY <1>1, <2>1, WidthsAssumption DEF readMessageHeader, WireHeader, ChunkState
<1>2. CASE h.fmt = 1
  BY <1>2, ModRange, WidthsAssumption, SMTT(20) DEF readMessageHeader, WireHeader, ChunkState
<1>3. CASE h.fmt = 2
  <2>1. (st.timestamp + h.stamp) % U32 \in 0 .. U32 - 1
    <3>1. st.timestamp + h.stamp \in Int
      BY DEF WireHeader, ChunkState
    <3> QED
      BY <3>1, ModRange, Zenon
  <2>2. h.stamp \in 0 .. U32 - 1
    BY WidthsAssumption DEF WireHeader
  <2>3. readMessageHeader(h, st) =
          [st EXCEPT !.timestamp = (@ + h.stamp) % U32, !.delta = h.stamp]
    BY <1>3 DEF readMessageHeader
  <2> QED
    BY <2>1, <2>2, <2>3, StampedType, ZenonT(30)
<1>4. CASE h.fmt = 3
  <2>1. (st.timestamp + st.delta) % U32 \in 0 .. U32 - 1
    <3>1. st.timestamp + st.delta \in Int
      BY DEF ChunkState
    <3> QED
      BY <3>1, ModRange, Zenon
  <2>2. readMessageHeader(h, st) = [st EXCEPT !.timestamp = (@ + st.delta) % U32]
    BY <1>4 DEF readMessageHeader
  <2>3. st.delta \in 0 .. U32 - 1
    BY DEF ChunkState
  <2> QED
    BY <2>1, <2>2, <2>3, StampedType
<1> QED
  BY <1>1, <1>2, <1>3, <1>4 DEF WireHeader

\* The reader takes between none and readChunkSize bytes of payload.
LEMMA DataSizeType ==
  ASSUME ReaderTypeOK, NEW h \in WireHeader, ReadsExtended(h) => h.ext # << >>
  PROVE  calculateChunkDataSize(h) \in 0 .. readChunkSize
<1> DEFINE hd == readMessageHeader(h, readStreamStates[h.csid])
           remaining == IF h.csid \in DOMAIN incompleteMessages
                        THEN (hd.length - incompleteMessages[h.csid].bytesRead) % U32
                        ELSE hd.length
<1>1. hd \in ChunkState
  BY HeaderType DEF ReaderTypeOK, WireHeader
<1>2. hd.length \in 0 .. U32 - 1
  BY <1>1 DEF ChunkState
<1> HIDE DEF hd
<1>3. remaining \in Nat
  <2>1. CASE h.csid \in DOMAIN incompleteMessages
    <3>1. incompleteMessages[h.csid].bytesRead \in Nat
      BY <2>1 DEF ReaderTypeOK, Incomplete
    <3>2. hd.length - incompleteMessages[h.csid].bytesRead \in Int
      BY <1>2, <3>1
    <3>3. (hd.length - incompleteMessages[h.csid].bytesRead) % U32 \in 0 .. U32 - 1
      BY <3>2, ModRange, Zenon
    <3> QED
      BY <2>1, <3>3
  <2>2. CASE h.csid \notin DOMAIN incompleteMessages
    BY <1>2, <2>2
  <2> QED
    BY <2>1, <2>2
<1> HIDE DEF remaining
<1>4. calculateChunkDataSize(h) = Least(remaining, readChunkSize)
  BY DEF calculateChunkDataSize, remaining, hd
<1> QED
  BY <1>3, <1>4 DEF Least, ReaderTypeOK

----------------------------------------------------------------------------
\* The inductive invariant: that a message in assembly has room left needs
\* chunk sizes to be positive; that it has no holes needs both.
ReaderInv == ReaderTypeOK /\ AssemblyInBounds /\ NoHoles

\* The bytes of an assembly: filled from the front, and only so far.
Filled(inc) ==
  \A i \in 1 .. Len(inc.message.data) :
    (inc.message.data[i] = Blank) <=> (i > inc.bytesRead)

\* A message's first chunk fills it from the front.
LEMMA BeginMessageFilled ==
  ASSUME NEW c \in ChunkStreams, NEW hd \in ChunkState, NEW data \in Seq(Byte)
  PROVE  /\ BeginMessage(c, hd, data) \in Incomplete
         /\ BeginMessage(c, hd, data).message.csid = c
         /\ BeginMessage(c, hd, data).bytesRead = Len(data)
         /\ Len(BeginMessage(c, hd, data).message.data) = hd.length
         /\ Filled(BeginMessage(c, hd, data))
<1> DEFINE buf == CopyInto(Blanks(hd.length), 0, data)
<1>1. hd.length \in Nat
  BY WidthsAssumption DEF ChunkState
<1>2. /\ Blanks(hd.length) \in Seq(0 .. 256)
      /\ Len(Blanks(hd.length)) = hd.length
      /\ \A i \in 1 .. hd.length : Blanks(hd.length)[i] = Blank
  BY <1>1, BlanksType, Zenon
<1>3. /\ buf \in Seq(0 .. 256)
      /\ Len(buf) = hd.length
      /\ \A i \in 1 .. hd.length :
           buf[i] = IF i - 0 \in 1 .. Len(data) THEN data[i - 0] ELSE Blanks(hd.length)[i]
  <2> DEFINE bl == Blanks(hd.length)
  <2>1. 0 \in Nat /\ bl \in Seq(0 .. 256) /\ Len(bl) = hd.length
    BY <1>2
  <2> HIDE DEF bl
  <2>2. /\ CopyInto(bl, 0, data) \in Seq(0 .. 256)
        /\ Len(CopyInto(bl, 0, data)) = Len(bl)
        /\ \A i \in 1 .. Len(bl) :
             CopyInto(bl, 0, data)[i] =
               IF i - 0 \in 1 .. Len(data) THEN data[i - 0] ELSE bl[i]
    BY <2>1, CopyIntoType, ZenonT(30)
  <2> QED
    BY <2>1, <2>2 DEF bl
<1> HIDE DEF buf
<1>4. Len(data) \in Nat
  OBVIOUS
<1>5. ASSUME NEW i \in 1 .. hd.length
      PROVE  (buf[i] = Blank) <=> (i > Len(data))
  <2>1. CASE i <= Len(data)
    <3>1. i \in 1 .. Len(data)
      BY <1>1, <1>4, <2>1
    <3>2. data[i] \in Byte
      BY <3>1, SeqElement, Zenon
    <3>3. buf[i] = data[i]
      BY <1>1, <1>3, <3>1
    <3>4. data[i] # Blank
      BY <3>2, ByteNotBlank, Zenon
    <3> QED
      BY <1>4, <2>1, <3>3, <3>4
  <2>2. CASE i > Len(data)
    BY <1>1, <1>2, <1>3, <1>4, <2>2
  <2> QED
    BY <1>1, <1>4, <2>1, <2>2
<1>6. BeginMessage(c, hd, data) =
        [message |-> [csid |-> c, msid |-> hd.msid, timestamp |-> hd.timestamp,
                      type |-> hd.type, data |-> buf],
         bytesRead |-> Len(data)]
  BY DEF BeginMessage, buf
<1> QED
  BY <1>3, <1>4, <1>5, <1>6 DEF Incomplete, Message, Filled, ChunkState

\* A further chunk fills it on, up to its end at most.
LEMMA ContinueMessageFilled ==
  ASSUME NEW inc \in Incomplete, Filled(inc), inc.bytesRead < Len(inc.message.data),
         NEW data \in Seq(Byte)
  PROVE  /\ ContinueMessage(inc, data) \in Incomplete
         /\ ContinueMessage(inc, data).message.csid = inc.message.csid
         /\ ContinueMessage(inc, data).bytesRead = inc.bytesRead + Len(data)
         /\ Len(ContinueMessage(inc, data).message.data) = Len(inc.message.data)
         /\ Filled(ContinueMessage(inc, data))
<1> DEFINE old == inc.message.data
           at == inc.bytesRead
           buf == CopyInto(old, at, data)
<1>1. at \in Nat /\ old \in Seq(0 .. 256) /\ Len(old) \in Nat /\ Len(data) \in Nat
  <2>1. old \in Seq(0 .. 256)
    BY DEF Incomplete, Message
  <2>2. Len(old) \in Nat
    BY <2>1
  <2> QED
    BY <2>1, <2>2 DEF Incomplete
<1>2. at < Len(old)
  OBVIOUS
<1>3. \A i \in 1 .. Len(old) : (old[i] = Blank) <=> (i > at)
  BY DEF Filled
<1>4. ContinueMessage(inc, data) =
        [message |-> [inc.message EXCEPT !.data = buf], bytesRead |-> at + Len(data)]
  BY DEF ContinueMessage
<1> HIDE DEF old, at
<1>5. /\ buf \in Seq(0 .. 256)
      /\ Len(buf) = Len(old)
      /\ \A i \in 1 .. Len(old) :
           buf[i] = IF i - at \in 1 .. Len(data) THEN data[i - at] ELSE old[i]
  BY <1>1, CopyIntoType, ZenonT(30)
<1> HIDE DEF buf
<1>6. ASSUME NEW i \in 1 .. Len(old)
      PROVE  (buf[i] = Blank) <=> (i > at + Len(data))
  <2>1. CASE i - at \in 1 .. Len(data)
    <3>1. data[i - at] \in Byte
      BY <2>1, SeqElement, Zenon
    <3>2. data[i - at] # Blank
      BY <3>1, ByteNotBlank, Zenon
    <3>3. buf[i] = data[i - at]
      BY <1>5, <2>1
    <3>4. ~(i > at + Len(data))
      BY <1>1, <2>1
    <3> QED
      BY <3>2, <3>3, <3>4
  <2>2. CASE i - at \notin 1 .. Len(data)
    <3>1. buf[i] = old[i]
      BY <1>5, <2>2
    <3>2. (i > at) <=> (i > at + Len(data))
      BY <1>1, <2>2
    <3> QED
      BY <1>3, <3>1, <3>2
  <2> QED
    BY <2>1, <2>2
<1> DEFINE m == [inc.message EXCEPT !.data = buf]
<1>7. inc.message \in Message
  BY DEF Incomplete
<1>8. m \in Message /\ m.data = buf /\ m.csid = inc.message.csid
  BY <1>5, <1>7 DEF Message
<1>9. ContinueMessage(inc, data) = [message |-> m, bytesRead |-> at + Len(data)]
  BY <1>4
<1> HIDE DEF m
<1>10. ContinueMessage(inc, data) \in Incomplete
  BY <1>1, <1>8, <1>9 DEF Incomplete
<1>11. /\ ContinueMessage(inc, data).message.data = buf
       /\ ContinueMessage(inc, data).message.csid = inc.message.csid
       /\ ContinueMessage(inc, data).bytesRead = at + Len(data)
  BY <1>8, <1>9
<1>12. Filled(ContinueMessage(inc, data))
  BY <1>5, <1>6, <1>11 DEF Filled
<1> QED
  BY <1>5, <1>10, <1>11, <1>12 DEF at, old

----------------------------------------------------------------------------
\* A new streamer satisfies the invariant.
LEMMA ReaderInitInv ==
  ASSUME NEW size \in 1 .. MaxChunkSize, ReaderInit(size)
  PROVE  ReaderInv
<1>1. NewChunkState \in ChunkState
  BY WidthsAssumption DEF NewChunkState, ChunkState, Byte
<1>2. incompleteMessages = << >> /\ DOMAIN incompleteMessages = {}
  BY DEF ReaderInit
<1>3. received = << >> /\ Len(received) = 0 /\ received \in Seq(Message)
  BY DEF ReaderInit
<1>4. incompleteMessages \in [{} -> Incomplete]
  BY <1>2
<1>5. ReaderTypeOK
  BY <1>1, <1>2, <1>3, <1>4 DEF ReaderInit, ReaderTypeOK
<1> QED
  BY <1>2, <1>3, <1>5 DEF ReaderInv, AssemblyInBounds, NoHoles

\* What a chunk makes of its message, begun before or by this chunk.
Assembled(c, hd, data) ==
  IF c \in DOMAIN incompleteMessages
  THEN ContinueMessage(incompleteMessages[c], data)
  ELSE BeginMessage(c, hd, data)

\* Either way the message a chunk belongs to is filled up to bytesRead.
LEMMA AssembledFilled ==
  ASSUME ReaderInv, NEW h \in WireHeader, ReadsExtended(h) => h.ext # << >>,
         NEW data \in Seq(Byte), Len(data) = calculateChunkDataSize(h)
  PROVE  LET inc == Assembled(h.csid, readMessageHeader(h, readStreamStates[h.csid]), data)
         IN  /\ inc \in Incomplete
             /\ inc.message.csid = h.csid
             /\ Filled(inc)
             /\ ~IsComplete(inc) => 0 < inc.bytesRead /\ inc.bytesRead < Len(inc.message.data)
<1> DEFINE c == h.csid
           hd == readMessageHeader(h, readStreamStates[h.csid])
           inc == Assembled(h.csid, hd, data)
<1>1. ReaderTypeOK /\ c \in ChunkStreams
  BY DEF ReaderInv, WireHeader
<1>2. hd \in ChunkState
  BY <1>1, HeaderType DEF ReaderTypeOK
<1>3. Len(data) \in Nat
  OBVIOUS
<1>4. CASE c \in DOMAIN incompleteMessages
  <2> DEFINE old == incompleteMessages[c]
  <2>1. old \in Incomplete /\ old.bytesRead \in Nat /\ 0 < old.bytesRead
    BY <1>1, <1>4 DEF ReaderInv, ReaderTypeOK, AssemblyInBounds, Incomplete
  <2>2. old.message.csid = c /\ old.bytesRead < Len(old.message.data)
    BY <1>4 DEF ReaderInv, AssemblyInBounds
  <2>3. Filled(old)
    BY <1>4 DEF ReaderInv, NoHoles, Filled
  <2>4. inc = ContinueMessage(old, data)
    BY <1>4 DEF Assembled
  <2> HIDE DEF old, inc
  <2>5. /\ inc \in Incomplete
        /\ inc.message.csid = c
        /\ inc.bytesRead = old.bytesRead + Len(data)
        /\ Filled(inc)
    BY <2>1, <2>2, <2>3, <2>4, ContinueMessageFilled
  <2>6. inc.message.data \in Seq(0 .. 256)
    BY <2>5 DEF Incomplete, Message
  <2>7. Len(inc.message.data) \in Nat
    BY <2>6
  <2> QED
    BY <1>3, <2>1, <2>5, <2>7 DEF IsComplete, inc
<1>5. CASE c \notin DOMAIN incompleteMessages
  <2>1. inc = BeginMessage(c, hd, data)
    BY <1>5 DEF Assembled
  <2> HIDE DEF inc, hd
  <2>2. /\ inc \in Incomplete
        /\ inc.message.csid = c
        /\ inc.bytesRead = Len(data)
        /\ Len(inc.message.data) = hd.length
        /\ Filled(inc)
    BY <1>1, <1>2, <2>1, BeginMessageFilled
  <2>3. Len(data) = Least(hd.length, readChunkSize)
    BY <1>5 DEF calculateChunkDataSize, hd
  <2>4. hd.length \in Nat /\ readChunkSize \in Nat \ {0}
    BY <1>1, <1>2, WidthsAssumption, SMTT(20) DEF ChunkState, ReaderTypeOK
  <2> QED
    BY <1>3, <2>2, <2>3, <2>4 DEF IsComplete, Least, inc, hd
<1> QED
  BY <1>4, <1>5

----------------------------------------------------------------------------
\* One turn of ReadMessage's loop, on any chunk, keeps the invariant.
LEMMA ReadChunkInv ==
  ASSUME ReaderInv, NEW h \in WireHeader, ReadsExtended(h) => h.ext # << >>,
         NEW data \in Seq(Byte), ReadChunk(h, data)
  PROVE  ReaderInv'
<1> DEFINE c == h.csid
           hd == readMessageHeader(h, readStreamStates[h.csid])
           inc == Assembled(h.csid, hd, data)
<1>1. ReaderTypeOK /\ c \in ChunkStreams /\ AssemblyInBounds /\ NoHoles
  BY DEF ReaderInv, WireHeader
<1>2. hd \in ChunkState
  BY <1>1, HeaderType DEF ReaderTypeOK
<1>3. Len(data) = calculateChunkDataSize(h) /\ Len(data) \in Nat
  BY DEF ReadChunk
<1>4. /\ inc \in Incomplete
      /\ inc.message.csid = c
      /\ Filled(inc)
      /\ ~IsComplete(inc) => 0 < inc.bytesRead /\ inc.bytesRead < Len(inc.message.data)
  BY <1>3, AssembledFilled
<1>5. IF IsComplete(inc)
      THEN /\ received' = Append(received, inc.message)
           /\ incompleteMessages' =
                [d \in DOMAIN incompleteMessages \ {c} |-> incompleteMessages[d]]
           /\ processMessage(inc.message)
      ELSE /\ incompleteMessages' =
                [d \in DOMAIN incompleteMessages \cup {c} |->
                   IF d = c THEN inc ELSE incompleteMessages[d]]
           /\ UNCHANGED <<received, readChunkSize>>
  BY DEF ReadChunk, assembleMessage, Assembled
<1>6. readStreamStates' \in [ChunkStreams -> ChunkState]
  <2>1. readStreamStates' = [readStreamStates EXCEPT ![c] = hd]
    BY DEF ReadChunk
  <2> HIDE DEF hd
  <2> QED
    BY <1>1, <1>2, <2>1 DEF ReaderTypeOK
<1>7. unacked' \in Nat
  <2>1. getChunkHeaderSize(h.fmt) \in Nat
    BY DEF getChunkHeaderSize, WireHeader
  <2> QED
    BY <1>1, <1>3, <2>1 DEF ReadChunk, updateBytesReceived, ReaderTypeOK
<1> HIDE DEF inc, hd
<1>8. CASE IsComplete(inc)
  <2>1. readChunkSize' \in 1 .. MaxChunkSize
    BY <1>1, <1>5, <1>8 DEF processMessage, SetReadChunkSize, ReaderTypeOK
  <2>2. inc.message \in Message
    BY <1>4 DEF Incomplete
  <2>3. received' = Append(received, inc.message) /\ received \in Seq(Message)
    BY <1>1, <1>5, <1>8 DEF ReaderTypeOK
  <2>4. received' \in Seq(Message)
    BY <2>2, <2>3
  <2>5. /\ DOMAIN incompleteMessages' \subseteq DOMAIN incompleteMessages
        /\ \A d \in DOMAIN incompleteMessages' :
             incompleteMessages'[d] = incompleteMessages[d]
        /\ incompleteMessages' = [d \in DOMAIN incompleteMessages' |-> incompleteMessages[d]]
    BY <1>5, <1>8
  <2>6. incompleteMessages' \in [DOMAIN incompleteMessages' -> Incomplete]
    BY <1>1, <2>5 DEF ReaderTypeOK
  <2>7. ReaderTypeOK'
    BY <1>1, <1>6, <1>7, <2>1, <2>4, <2>5, <2>6 DEF ReaderTypeOK
  <2>8. AssemblyInBounds'
    BY <1>1, <2>5 DEF AssemblyInBounds
  <2>9. \A i \in 1 .. Len(inc.message.data) : inc.message.data[i] # Blank
    <3>1. inc.bytesRead \in Nat /\ Len(inc.message.data) \in Nat
      BY <1>4, <2>2 DEF Incomplete, Message
    <3> QED
      BY <1>4, <1>8, <3>1 DEF IsComplete, Filled
  <2>10. \A k \in 1 .. Len(received') :
           \A i \in 1 .. Len(received'[k].data) : received'[k].data[i] # Blank
    <3>1. /\ Len(received') = Len(received) + 1
          /\ received'[Len(received) + 1] = inc.message
          /\ \A k \in 1 .. Len(received) : received'[k] = received[k]
          /\ Len(received) \in Nat
      BY <2>2, <2>3
    <3>2. \A k \in 1 .. Len(received) :
            \A i \in 1 .. Len(received[k].data) : received[k].data[i] # Blank
      BY <1>1 DEF NoHoles
    <3>3. \A k \in 1 .. Len(received') : k \in 1 .. Len(received) \/ k = Len(received) + 1
      BY <3>1
    <3> QED
      BY <2>9, <3>1, <3>2, <3>3, Zenon
  <2>11. NoHoles'
    BY <1>1, <2>5, <2>10 DEF NoHoles
  <2> QED
    BY <2>7, <2>8, <2>11 DEF ReaderInv
<1>9. CASE ~IsComplete(inc)
  <2>1. /\ DOMAIN incompleteMessages' = DOMAIN incompleteMessages \cup {c}
        /\ incompleteMessages'[c] = inc
        /\ \A d \in DOMAIN incompleteMessages' \ {c} :
             d \in DOMAIN incompleteMessages /\ incompleteMessages'[d] = incompleteMessages[d]
        /\ incompleteMessages' =
             [d \in DOMAIN incompleteMessages \cup {c} |->
                IF d = c THEN inc ELSE incompleteMessages[d]]
    BY <1>5, <1>9
  <2>2. UNCHANGED <<received, readChunkSize>>
    BY <1>5, <1>9
  <2>3. incompleteMessages' \in [DOMAIN incompleteMessages' -> Incomplete]
    BY <1>1, <1>4, <2>1 DEF ReaderTypeOK
  <2>4. ReaderTypeOK'
    BY <1>1, <1>6, <1>7, <2>1, <2>2, <2>3 DEF ReaderTypeOK
  <2>5. AssemblyInBounds'
    BY <1>1, <1>4, <1>9, <2>1 DEF AssemblyInBounds
  <2>6. NoHoles'
    BY <1>1, <1>4, <2>1, <2>2 DEF NoHoles, Filled
  <2> QED
    BY <2>4, <2>5, <2>6 DEF ReaderInv
<1> QED
  BY <1>8, <1>9

=============================================================================
