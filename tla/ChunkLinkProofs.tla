-------------------------- MODULE ChunkLinkProofs --------------------------
(***************************************************************************)
(* Two ChunkStreamers and the connection between them, for all messages,   *)
(* chunk sizes and interleavings of chunk streams: the reader never loses  *)
(* its place, and what comes out is a queue of the messages that went in.  *)
(*                                                                         *)
(* A chunk in flight does not say what it is: its length, type and message *)
(* stream are those of chunks before it, its size was in force when it was *)
(* written.  The invariant therefore speaks of a pedigree: a sequence that *)
(* tells, for each chunk in flight, what the writer made it from.          *)
(***************************************************************************)
EXTENDS ChunkLink, ChunkReaderProofs

ByteMessage == [csid : ChunkStreams, msid : 0 .. U32 - 1, timestamp : 0 .. U32 - 1,
                type : Byte, data : Seq(Byte)]

\* A header as createMessageHeader makes it, and a chunk with one.
Header == [basic : Seq(Nat), stamp : 0 .. U24 - 1,
           ext : {<< >>} \cup {<<t>> : t \in 0 .. U32 - 1},
           length : 0 .. U24 - 1, type : Byte, msid : 0 .. U32 - 1]
Chunk == [header : Header, data : Seq(Byte)]
CutChunk == [header : Header, data : Seq(Byte), cut : BOOLEAN]

----------------------------------------------------------------------------
(* Pedigrees.  A chunk is size bytes, or what is left, of message m, the   *)
(* n-th one sent, after its first from bytes; f and t are the format of    *)
(* its header and its Timestamp.                                           *)

Origin == {e \in [m : ByteMessage, n : Nat \ {0}, from : Nat, size : 1 .. MaxChunkSize,
                  f : 0 .. 3, t : 0 .. U32 - 1] :
             /\ e.from < Len(e.m.data)
             /\ Len(e.m.data) < U24
             /\ e.f = 3 <=> e.from # 0
             /\ e.f # 0 => e.t < ExtendedMark
             /\ e.m.type = MessageTypeSetChunkSize =>
                  \E s \in Sizes : e.m = SetChunkSizeMessage(s)}

Slice(data, from, size) == SubSeq(data, from + 1, Least(from + size, Len(data)))

HeaderOf(e) == createMessageHeader(e.f, e.t, e.m)
DataOf(e) == Slice(e.m.data, e.from, e.size)

\* The chunk is the last of its message.
Final(e) == e.from + e.size >= Len(e.m.data)

\* The chunk size after a request for size s, and that of the reader after e.
NewSize(s, old) == IF s \in 1 .. MaxChunkSize THEN s ELSE old
SizeAfter(e) ==
  IF e.m.type = MessageTypeSetChunkSize
  THEN NewSize(BigEndian(e.m.data), e.size) ELSE e.size

\* Chunks of a message follow each other; only then comes the next message,
\* and a new chunk size.
Follows(d, e) ==
  IF Final(d) THEN e.n = d.n + 1 /\ e.from = 0 /\ e.size = SizeAfter(d)
  ELSE e.n = d.n /\ e.m = d.m /\ e.from = d.from + d.size /\ e.size = d.size

Chained(g) == \A i \in 1 .. Len(g) - 1 : Follows(g[i], g[i + 1])

\* What a short header leaves to the chunk before it.
Inherited(m) == <<Len(m.data), m.type, m.msid>>
InheritedState(st) == <<st.length, st.type, st.msid>>

\* The reader that has taken the first i chunks holds x for chunk stream c.
Holds(g, i, c, x) ==
  /\ \A j \in 1 .. i :
       g[j].m.csid = c /\ (\A l \in j + 1 .. i : g[l].m.csid # c) => Inherited(g[j].m) = x
  /\ (\A j \in 1 .. i : g[j].m.csid # c) => InheritedState(readStreamStates[c]) = x

----------------------------------------------------------------------------
(* The parts of the invariant, for a pedigree g of the chunks in flight.   *)

LinkTypes ==
  /\ ReaderInv
  /\ writeChunkSize \in 1 .. MaxChunkSize
  /\ writeStreamStates \in [ChunkStreams -> ChunkState]
  /\ nextWriteChunkID \in 2 .. LastAutoID
  /\ outq \in Seq(Chunk)
  /\ wire \in Seq(CutChunk)
  /\ broken \in BOOLEAN
  /\ garbled \in BOOLEAN
  /\ announcing \in Sizes \cup {NoSize}
  /\ sent \in Seq(ByteMessage)

\* The chunks are what the pedigree says.
Described(g) ==
  /\ Len(g) = Len(wire) + Len(outq)
  /\ \A i \in 1 .. Len(wire) :
       /\ wire[i].header = HeaderOf(g[i])
       /\ ~wire[i].cut => wire[i].data = DataOf(g[i])
  /\ \A i \in 1 .. Len(outq) :
       /\ outq[i].header = HeaderOf(g[Len(wire) + i])
       /\ outq[i].data = DataOf(g[Len(wire) + i])

\* They are of messages sent, the last ones of the last message.
Numbered(g) ==
  /\ \A i \in 1 .. Len(g) : g[i].n \in 1 .. Len(sent) /\ sent[g[i].n] = g[i].m
  /\ \A i \in Len(wire) + 1 .. Len(g) : g[i].n = Len(sent)
  /\ g # << >> => g[Len(g)].n = Len(sent)

\* The size the writer will use next.
Agreed == NewSize(announcing, writeChunkSize)

\* Messages are written to their end, and the writer's size is the reader's
\* when it gets there.
AtEnd(g) ==
  ~broken => IF g = << >> THEN Len(sent) = Len(received) /\ readChunkSize = Agreed
             ELSE Final(g[Len(g)]) /\ SizeAfter(g[Len(g)]) = Agreed

\* An assembly of message m that has come as far as n bytes.
Grown(inc, m, n) ==
  /\ inc.bytesRead = n
  /\ Len(inc.message.data) = Len(m.data)
  /\ inc.message.csid = m.csid
  /\ inc.message.type = m.type
  /\ inc.message.msid = m.msid
  /\ \A x \in 1 .. n : inc.message.data[x] = m.data[x]

\* The one message in assembly is m.
Assembling(m, n) ==
  /\ DOMAIN incompleteMessages = {m.csid}
  /\ InheritedState(readStreamStates[m.csid]) = Inherited(m)
  /\ Grown(incompleteMessages[m.csid], m, n)

AtStart(g) ==
  IF g = << >> THEN DOMAIN incompleteMessages = {}
  ELSE /\ g[1].n = Len(received) + 1
       /\ g[1].size = readChunkSize
       /\ IF g[1].from = 0 THEN DOMAIN incompleteMessages = {}
          ELSE Assembling(g[1].m, g[1].from)

\* Only the last chunk of a broken connection is cut.
CutLast ==
  /\ \A i \in 1 .. Len(wire) : wire[i].cut => broken /\ i = Len(wire)
  /\ broken => outq = << >> /\ wire # << >> /\ wire[Len(wire)].cut

\* What a short header leaves out the reader will hold when it gets there; and
\* after all chunks in flight it will hold what the writer does.
HeadersCarried(g) ==
  /\ \A i \in 1 .. Len(g) :
       g[i].f \in {1, 2} => Holds(g, i - 1, g[i].m.csid, Inherited(g[i].m))
  /\ ~broken =>
       \A c \in ChunkStreams :
         writeStreamStates[c].length # 0 =>
           Holds(g, Len(g), c, InheritedState(writeStreamStates[c]))

\* What was received is what was sent.
Faithful ==
  /\ Len(received) <= Len(sent)
  /\ \A k \in 1 .. Len(received) : Content(received[k]) = Content(sent[k])

LinkInv(g) ==
  /\ LinkTypes /\ ~garbled
  /\ Chained(g) /\ Described(g) /\ Numbered(g)
  /\ AtEnd(g) /\ AtStart(g) /\ CutLast /\ HeadersCarried(g) /\ Faithful

InStepInv == \E g \in Seq(Origin) : LinkInv(g)

----------------------------------------------------------------------------
(* Arithmetic, sequences and headers.                                      *)

\* What does not wrap is as it is.
LEMMA SmallMod ==
  ASSUME NEW a \in Nat, NEW b \in Nat, a < b
  PROVE  a % b = a
  OBVIOUS

\* A chunk's data: so many bytes, from the right place on.
LEMMA SliceFacts ==
  ASSUME NEW data \in Seq(Byte), NEW from \in Nat, from < Len(data), NEW size \in Nat \ {0}
  PROVE  /\ Slice(data, from, size) \in Seq(Byte)
         /\ Len(Slice(data, from, size)) = Least(size, Len(data) - from)
         /\ \A i \in 1 .. Len(Slice(data, from, size)) :
              Slice(data, from, size)[i] = data[from + i]
<1> DEFINE to == Least(from + size, Len(data))
<1>1. Len(data) \in Nat
  OBVIOUS
<1>2. to \in Nat /\ to <= Len(data) /\ from < to /\ to - from = Least(size, Len(data) - from)
  BY <1>1 DEF Least
<1>3. Slice(data, from, size) = SubSeq(data, from + 1, to)
  BY DEF Slice
<1> HIDE DEF to
<1> QED
  BY <1>1, <1>2, <1>3

\* The last of a number's bytes, and the rest of it.
LEMMA LastByte ==
  ASSUME NEW n \in Nat
  PROVE  /\ n % 256 \in Byte
         /\ n \div 256 \in Nat
         /\ n = (n \div 256) * 256 + (n % 256)
  BY DEF Byte

\* Four bytes of a size give the size.
LEMMA SizeBytes ==
  ASSUME NEW s \in Nat, ((s \div 256) \div 256) \div 256 < 128
  PROVE  /\ SetChunkSizeMessage(s).data \in Seq(Byte)
         /\ Len(SetChunkSizeMessage(s).data) = 4
         /\ BigEndian(SetChunkSizeMessage(s).data) = s
<1> DEFINE p == s \div 256
           q == p \div 256
           a == q \div 256
           b == q % 256
           c == p % 256
           d == s % 256
<1>1. s \in Nat
  OBVIOUS
<1>2. SetChunkSizeMessage(s).data = <<a, b, c, d>>
  BY DEF SetChunkSizeMessage
<1>3. d \in Byte /\ p \in Nat /\ s = p * 256 + d
  BY <1>1, LastByte
<1>4. c \in Byte /\ q \in Nat /\ p = q * 256 + c
  <2> HIDE DEF p
  <2> QED
    BY <1>3, LastByte
<1>5. b \in Byte /\ a \in Nat /\ q = a * 256 + b
  <2> HIDE DEF q
  <2> QED
    BY <1>4, LastByte
<1>6. a \in Byte
  <2>1. a < 128
    BY Zenon
  <2> HIDE DEF a
  <2> QED
    BY <1>5, <2>1 DEF Byte
<1> HIDE DEF a, b, c, d, p, q
<1>7. BigEndian(<<a, b, c, d>>) = ((a * 256 + b) * 256 + c) * 256 + d
  BY DEF BigEndian
<1>8. ((a * 256 + b) * 256 + c) * 256 + d = s
  BY <1>3, <1>4, <1>5
<1>9. <<a, b, c, d>> \in Seq(Byte) /\ Len(<<a, b, c, d>>) = 4
  BY <1>3, <1>4, <1>5, <1>6
<1> QED
  BY <1>2, <1>7, <1>8, <1>9, ZenonT(30)

\* An origin, taken apart.
LEMMA OriginFacts ==
  ASSUME NEW e \in Origin
  PROVE  /\ e.m \in ByteMessage /\ e.m.data \in Seq(Byte) /\ e.m.csid \in ChunkStreams
         /\ e.m.type \in Byte /\ e.m.msid \in 0 .. U32 - 1
         /\ Len(e.m.data) \in Nat /\ Len(e.m.data) < U24
         /\ e.n \in Nat \ {0}
         /\ e.from \in Nat /\ e.from < Len(e.m.data)
         /\ e.size \in 1 .. MaxChunkSize
         /\ e.f \in 0 .. 3 /\ (e.f = 3 <=> e.from # 0)
         /\ e.t \in 0 .. U32 - 1 /\ (e.f # 0 => e.t < ExtendedMark)
         /\ e.m.type = MessageTypeSetChunkSize =>
              \E s \in Sizes : e.m = SetChunkSizeMessage(s)
<1>1. e.m \in ByteMessage
  BY DEF Origin
<1>2. e.m.data \in Seq(Byte)
  BY <1>1 DEF ByteMessage
<1> QED
  BY <1>1, <1>2 DEF Origin, ByteMessage

\* Chunk stream ids are ones that a basic header can hold.
LEMMA StreamID ==
  \A c \in ChunkStreams : c \in Nat /\ 2 <= c /\ c < 256 * 256 + 64
<1>1. 65599 < 256 * 256 + 64
  OBVIOUS
<1> QED
  BY <1>1, ChunkStreamsAssumption

\* Lengths fit in three bytes.
LEMMA LengthFits ==
  \A n \in Nat : n < U24 => n % U24 = n /\ n \in 0 .. U24 - 1 /\ n \in 0 .. U32 - 1
  BY WidthsAssumption

\* The writer's header is read back, and it has an extended timestamp
\* exactly if the reader looks for one.
LEMMA HeaderFacts ==
  ASSUME NEW e \in Origin
  PROVE  LET h == Decoded(HeaderOf(e))
         IN  /\ HeaderOf(e) \in Header
             /\ h \in WireHeader
             /\ h.fmt = e.f
             /\ h.csid = e.m.csid
             /\ BasicHeaderSize(HeaderOf(e).basic[1]) = Len(HeaderOf(e).basic)
             /\ ReadsExtended(h) <=> HeaderOf(e).ext # << >>
             /\ ReadsExtended(h) => h.ext # << >>
             /\ e.f \in {0, 1} => h.length = Len(e.m.data) /\ h.type = e.m.type
             /\ e.f = 0 => h.msid = e.m.msid
<1> DEFINE w == HeaderOf(e)
           h == Decoded(w)
           basic == createBasicHeader(e.f, e.m.csid)
<1>1. e.m.csid \in Nat /\ 2 <= e.m.csid /\ e.m.csid < 256 * 256 + 64
  <2>1. e.m.csid \in ChunkStreams
    BY OriginFacts
  <2> QED
    BY <2>1, StreamID, Zenon
<1>2. /\ parseFormat(basic) = e.f
      /\ parseChunkStreamID(basic) = e.m.csid
      /\ BasicHeaderSize(basic[1]) = Len(basic)
  BY <1>1, OriginFacts, BasicHeaderRoundTrip
<1>3. basic \in Seq(Nat)
  <2>1. (e.m.csid - 64) % 256 \in Nat /\ ((e.m.csid - 64) \div 256) % 256 \in Nat
    BY <1>1
  <2>2. e.f \in Nat
    BY OriginFacts
  <2>3. CASE e.m.csid < 64
    BY <1>1, <2>2, <2>3 DEF createBasicHeader
  <2>4. CASE e.m.csid >= 64
    BY <1>1, <2>1, <2>2, <2>4 DEF createBasicHeader
  <2> QED
    BY <1>1, <2>3, <2>4
<1> HIDE DEF basic
<1>4. w = [basic |-> basic,
           stamp |-> IF e.f = 0 THEN Least(e.t, ExtendedMark) ELSE 0,
           ext |-> IF e.t >= ExtendedMark THEN <<e.t>> ELSE << >>,
           length |-> IF e.f \in {0, 1} THEN Len(e.m.data) % U24 ELSE 0,
           type |-> IF e.f \in {0, 1} THEN e.m.type ELSE 0,
           msid |-> IF e.f = 0 THEN e.m.msid ELSE 0]
  BY DEF HeaderOf, createMessageHeader, basic
<1>5. /\ w.basic = basic
      /\ w.stamp \in 0 .. U24 - 1
      /\ w.ext \in {<< >>} \cup {<<t>> : t \in 0 .. U32 - 1}
      /\ w.length \in 0 .. U24 - 1
      /\ w.type \in Byte
      /\ w.msid \in 0 .. U32 - 1
      /\ e.f \in {0, 1} => w.length = Len(e.m.data) /\ w.type = e.m.type
      /\ e.f = 0 => w.msid = e.m.msid
  <2>1. Least(e.t, ExtendedMark) \in 0 .. U24 - 1
    BY OriginFacts, WidthsAssumption DEF Least, ExtendedMark
  <2>2. Len(e.m.data) % U24 = Len(e.m.data) /\ Len(e.m.data) \in 0 .. U24 - 1
    <3>1. Len(e.m.data) \in Nat /\ Len(e.m.data) < U24
      BY OriginFacts
    <3> QED
      BY <3>1, LengthFits, Zenon
  <2>3. 0 \in 0 .. U24 - 1 /\ 0 \in 0 .. U32 - 1 /\ 0 \in Byte
    BY WidthsAssumption DEF Byte
  <2> QED
    BY <1>4, <2>1, <2>2, <2>3, OriginFacts
<1>6. (w.stamp = ExtendedMark /\ e.f = 0) <=> w.ext # << >>
  <2>1. CASE e.f = 0
    BY <1>4, <2>1, OriginFacts, WidthsAssumption DEF Least, ExtendedMark
  <2>2. CASE e.f # 0
    BY <1>4, <2>2, OriginFacts, WidthsAssumption DEF ExtendedMark
  <2> QED
    BY <2>1, <2>2
<1>7. w \in Header
  BY <1>3, <1>4, <1>5 DEF Header
<1>8. /\ h.fmt = e.f /\ h.csid = e.m.csid
      /\ h.stamp = w.stamp /\ h.ext = w.ext /\ h.length = w.length
      /\ h.type = w.type /\ h.msid = w.msid
      /\ h = [fmt |-> h.fmt, csid |-> h.csid, stamp |-> h.stamp, ext |-> h.ext,
              length |-> h.length, type |-> h.type, msid |-> h.msid]
  BY <1>2, <1>5 DEF Decoded
<1> HIDE DEF w, h
<1>9. h \in WireHeader
  BY <1>5, <1>8, OriginFacts DEF WireHeader
<1>10. ReadsExtended(h) <=> w.ext # << >>
  BY <1>6, <1>8 DEF ReadsExtended
<1> QED
  BY <1>2, <1>5, <1>7, <1>8, <1>9, <1>10 DEF w, h

\* A chunk's data are bytes, and as many as are left or the size allows.
LEMMA DataFacts ==
  ASSUME NEW e \in Origin
  PROVE  /\ DataOf(e) \in Seq(Byte)
         /\ Len(DataOf(e)) \in Nat
         /\ Len(DataOf(e)) = Least(e.size, Len(e.m.data) - e.from)
         /\ \A i \in 1 .. Len(DataOf(e)) : DataOf(e)[i] = e.m.data[e.from + i]
         /\ e.from + Len(DataOf(e)) = IF Final(e) THEN Len(e.m.data) ELSE e.from + e.size
<1>1. e.size \in Nat \ {0}
  BY OriginFacts, WidthsAssumption
<1>2. /\ DataOf(e) \in Seq(Byte)
      /\ Len(DataOf(e)) = Least(e.size, Len(e.m.data) - e.from)
      /\ \A i \in 1 .. Len(DataOf(e)) : DataOf(e)[i] = e.m.data[e.from + i]
  BY <1>1, OriginFacts, SliceFacts DEF DataOf
<1>3. e.from + Least(e.size, Len(e.m.data) - e.from)
        = IF Final(e) THEN Len(e.m.data) ELSE e.from + e.size
  BY <1>1, OriginFacts DEF Least, Final
<1> QED
  BY <1>1, <1>2, <1>3, OriginFacts DEF Least

----------------------------------------------------------------------------
(* The reader takes a chunk.                                               *)

\* Sequences are equal that have equal elements.
LEMMA SameSequence ==
  ASSUME NEW S, NEW T, NEW s \in Seq(S), NEW t \in Seq(T), Len(s) = Len(t),
         \A i \in 1 .. Len(s) : s[i] = t[i]
  PROVE  s = t
  OBVIOUS

\* The header that the reader completes is that of the chunk's message.
LEMMA HeaderCompleted ==
  ASSUME LinkTypes, NEW g \in Seq(Origin), g # << >>, AtStart(g), HeadersCarried(g)
  PROVE  LET e == g[1]
             h == Decoded(HeaderOf(e))
             hd == readMessageHeader(h, readStreamStates[h.csid])
         IN  e \in Origin /\ hd \in ChunkState /\ InheritedState(hd) = Inherited(e.m)
<1> DEFINE e == g[1]
           h == Decoded(HeaderOf(e))
           st == readStreamStates[e.m.csid]
           hd == readMessageHeader(h, st)
<1>1. e \in Origin /\ 1 \in 1 .. Len(g)
  OBVIOUS
<1>2. /\ e.f \in 0 .. 3 /\ (e.f = 3 <=> e.from # 0)
      /\ e.m.csid \in ChunkStreams
  BY <1>1, OriginFacts
<1>3. /\ h \in WireHeader /\ h.fmt = e.f /\ h.csid = e.m.csid
      /\ ReadsExtended(h) => h.ext # << >>
      /\ e.f \in {0, 1} => h.length = Len(e.m.data) /\ h.type = e.m.type
      /\ e.f = 0 => h.msid = e.m.msid
  BY <1>1, HeaderFacts
<1>4. st \in ChunkState
  BY <1>2 DEF LinkTypes, ReaderInv, ReaderTypeOK
<1>5. hd \in ChunkState
  BY <1>3, <1>4, HeaderType
<1>6. e.f \in {1, 2} => InheritedState(st) = Inherited(e.m)
  <2> SUFFICES ASSUME e.f \in {1, 2}
               PROVE  InheritedState(st) = Inherited(e.m)
    OBVIOUS
  <2>1. Holds(g, 0, e.m.csid, Inherited(e.m))
    BY <1>1 DEF HeadersCarried
  <2> QED
    BY <2>1 DEF Holds
<1>7. e.f = 3 => InheritedState(st) = Inherited(e.m)
  BY <1>2 DEF AtStart, Assembling
<1>8. e.f # 0 => st.length = Len(e.m.data) /\ st.type = e.m.type /\ st.msid = e.m.msid
  BY <1>2, <1>6, <1>7 DEF InheritedState, Inherited
<1> HIDE DEF e, h, st
<1>9. hd.length = Len(e.m.data) /\ hd.type = e.m.type /\ hd.msid = e.m.msid
  <2>1. CASE e.f = 0
    BY <1>3, <2>1 DEF readMessageHeader
  <2>2. CASE e.f = 1
    BY <1>3, <1>8, <2>2 DEF readMessageHeader
  <2>3. CASE e.f = 2
    <3>1. hd = [st EXCEPT !.timestamp = (@ + h.stamp) % U32, !.delta = h.stamp]
      BY <1>3, <2>3 DEF readMessageHeader
    <3> QED
      BY <1>4, <1>8, <2>3, <3>1 DEF ChunkState
  <2>4. CASE e.f = 3
    <3>1. hd = [st EXCEPT !.timestamp = (@ + st.delta) % U32]
      BY <1>3, <2>4 DEF readMessageHeader
    <3> QED
      BY <1>4, <1>8, <2>4, <3>1 DEF ChunkState
  <2> QED
    BY <1>2, <2>1, <2>2, <2>3, <2>4
<1>10. InheritedState(hd) = Inherited(e.m)
  BY <1>9 DEF InheritedState, Inherited
<1> QED
  BY <1>1, <1>3, <1>5, <1>10 DEF e, h, st

\* It asks for as many bytes as the chunk has.
LEMMA SizeExpected ==
  ASSUME LinkTypes, NEW g \in Seq(Origin), g # << >>, AtStart(g), HeadersCarried(g)
  PROVE  calculateChunkDataSize(Decoded(HeaderOf(g[1]))) = Len(DataOf(g[1]))
<1> DEFINE e == g[1]
           h == Decoded(HeaderOf(e))
           hd == readMessageHeader(h, readStreamStates[h.csid])
           len == Len(e.m.data)
<1>1. e \in Origin /\ InheritedState(hd) = Inherited(e.m)
  BY HeaderCompleted
<1>2. /\ len \in Nat /\ len < U24 /\ e.from \in Nat /\ e.from < len
      /\ e.size \in 1 .. MaxChunkSize
  BY <1>1, OriginFacts
<1>3. h.csid = e.m.csid
  BY <1>1, HeaderFacts
<1>4. hd.length = len
  BY <1>1 DEF InheritedState, Inherited
<1>5. e.size = readChunkSize
  BY DEF AtStart
<1>6. Len(DataOf(e)) = Least(e.size, len - e.from)
  BY <1>1, DataFacts
<1>7. e.size \in Nat
  BY <1>2, WidthsAssumption
<1> DEFINE remaining == IF h.csid \in DOMAIN incompleteMessages
                        THEN (hd.length - incompleteMessages[h.csid].bytesRead) % U32
                        ELSE hd.length
<1>8. remaining = len - e.from
  <2>1. CASE e.from = 0
    <3>1. h.csid \notin DOMAIN incompleteMessages
      BY <2>1 DEF AtStart
    <3> QED
      BY <1>2, <1>4, <2>1, <3>1
  <2>2. CASE e.from # 0
    <3>1. h.csid \in DOMAIN incompleteMessages /\ incompleteMessages[h.csid].bytesRead = e.from
      BY <1>3, <2>2 DEF AtStart, Assembling, Grown
    <3>2. len - e.from \in Nat /\ len - e.from < U32 /\ U32 \in Nat
      <4> HIDE DEF len
      <4>1. ASSUME NEW a \in Nat, NEW b \in Nat, a < b, b < U24
            PROVE  b - a \in Nat /\ b - a < U32 /\ U32 \in Nat
        BY <4>1, WidthsAssumption
      <4> QED
        BY <1>2, <4>1, Zenon
    <3>3. (len - e.from) % U32 = len - e.from
      <4> HIDE DEF len
      <4> QED
        BY <3>2, SmallMod, Zenon
    <3> QED
      BY <1>4, <3>1, <3>3
  <2> QED
    BY <2>1, <2>2
<1>9. calculateChunkDataSize(h) = Least(remaining, readChunkSize)
  BY DEF calculateChunkDataSize
<1> HIDE DEF remaining, h, hd, len, e
<1>10. calculateChunkDataSize(h) = Least(len - e.from, e.size)
  BY <1>5, <1>8, <1>9
<1>11. Least(len - e.from, e.size) = Least(e.size, len - e.from)
  BY <1>2, <1>7 DEF Least
<1> QED
  BY <1>6, <1>10, <1>11 DEF e, h

\* So it takes the bytes of this chunk and no others.
LEMMA TakesChunk ==
  ASSUME LinkTypes, NEW g \in Seq(Origin), g # << >>, AtStart(g), HeadersCarried(g),
         NEW w, w.header = HeaderOf(g[1]), w.data = DataOf(g[1])
  PROVE  InStep(w)
<1>1. g[1] \in Origin
  OBVIOUS
<1>2. /\ BasicHeaderSize(w.header.basic[1]) = Len(w.header.basic)
      /\ ReadsExtended(Decoded(w.header)) <=> w.header.ext # << >>
  BY <1>1, HeaderFacts
<1>3. Len(w.data) = calculateChunkDataSize(Decoded(w.header))
  BY SizeExpected
<1> QED
  BY <1>2, <1>3 DEF InStep

\* The assembly grows by the chunk's data, and is m's as far as it goes.
LEMMA AssemblyGrows ==
  ASSUME LinkTypes, NEW g \in Seq(Origin), g # << >>, AtStart(g), HeadersCarried(g)
  PROVE  LET e == g[1]
             h == Decoded(HeaderOf(e))
             inc == Assembled(h.csid, readMessageHeader(h, readStreamStates[h.csid]), DataOf(e))
         IN  /\ inc \in Incomplete
             /\ Grown(inc, e.m, e.from + Len(DataOf(e)))
<1> DEFINE e == g[1]
           h == Decoded(HeaderOf(e))
           hd == readMessageHeader(h, readStreamStates[h.csid])
           data == DataOf(e)
           inc == Assembled(h.csid, hd, data)
<1>1. e \in Origin /\ hd \in ChunkState /\ InheritedState(hd) = Inherited(e.m)
  BY HeaderCompleted
<1>2. /\ h.csid = e.m.csid /\ h \in WireHeader
      /\ ReadsExtended(h) => h.ext # << >>
  BY <1>1, HeaderFacts
<1>3. /\ data \in Seq(Byte) /\ Len(data) \in Nat
      /\ \A i \in 1 .. Len(data) : data[i] = e.m.data[e.from + i]
      /\ e.from \in Nat /\ e.from < Len(e.m.data) /\ Len(e.m.data) \in Nat
      /\ e.from + Len(data) <= Len(e.m.data)
  <2>1. e.from + Len(data) = IF Final(e) THEN Len(e.m.data) ELSE e.from + e.size
    BY <1>1, DataFacts
  <2>2. e.size \in Nat
    BY <1>1, OriginFacts, WidthsAssumption
  <2> QED
    BY <1>1, <2>1, <2>2, DataFacts, OriginFacts DEF Final
<1>4. ReaderInv
  BY DEF LinkTypes
<1>5. Len(data) = calculateChunkDataSize(h)
  BY SizeExpected
<1>6. inc \in Incomplete /\ inc.message.csid = h.csid
  <2> HIDE DEF h, data, hd
  <2> QED
    BY <1>2, <1>3, <1>4, <1>5, AssembledFilled DEF hd
<1>7. hd.length = Len(e.m.data) /\ hd.type = e.m.type /\ hd.msid = e.m.msid
  BY <1>1 DEF InheritedState, Inherited
<1> HIDE DEF h, data, hd
<1>8. CASE e.from = 0
  <2> DEFINE old == Blanks(hd.length)
             buf == CopyInto(old, 0, data)
  <2>1. h.csid \notin DOMAIN incompleteMessages
    BY <1>8 DEF AtStart
  <2>2. inc = BeginMessage(h.csid, hd, data)
    BY <2>1 DEF Assembled
  <2>3. /\ inc.message.data = buf /\ inc.bytesRead = Len(data)
        /\ inc.message.type = hd.type /\ inc.message.msid = hd.msid
    BY <2>2 DEF BeginMessage
  <2>4. old \in Seq(0 .. 256) /\ Len(old) = Len(e.m.data)
    BY <1>3, <1>7, BlanksType
  <2> HIDE DEF old
  <2>5. /\ Len(buf) = Len(old)
        /\ \A i \in 1 .. Len(old) :
             buf[i] = IF i - 0 \in 1 .. Len(data) THEN data[i - 0] ELSE old[i]
    <3>1. 0 \in Nat /\ old \in Seq(0 .. 256) /\ data \in Seq(Byte)
      BY <1>3, <2>4
    <3>2. /\ CopyInto(old, 0, data) \in Seq(0 .. 256)
          /\ Len(CopyInto(old, 0, data)) = Len(old)
          /\ \A i \in 1 .. Len(old) :
               CopyInto(old, 0, data)[i] =
                 IF i - 0 \in 1 .. Len(data) THEN data[i - 0] ELSE old[i]
      BY <3>1, CopyIntoType, ZenonT(30)
    <3> QED
      BY <3>2
  <2> HIDE DEF buf
  <2>6. \A x \in 1 .. Len(data) : buf[x] = e.m.data[x]
    BY <1>3, <1>8, <2>4, <2>5
  <2>7. e.from + Len(data) = Len(data)
    BY <1>3, <1>8
  <2>8. Grown(inc, e.m, Len(data))
    BY <1>2, <1>6, <1>7, <2>3, <2>4, <2>5, <2>6 DEF Grown
  <2> QED
    BY <1>6, <2>7, <2>8 DEF h, data, hd
<1>9. CASE e.from # 0
  <2> DEFINE was == incompleteMessages[h.csid]
             old == was.message.data
             buf == CopyInto(old, was.bytesRead, data)
  <2>1. /\ h.csid \in DOMAIN incompleteMessages
        /\ Grown(was, e.m, e.from)
    BY <1>2, <1>9 DEF AtStart, Assembling
  <2>2. inc = ContinueMessage(was, data)
    BY <2>1 DEF Assembled
  <2>3. was \in Incomplete
    BY <1>4, <2>1 DEF ReaderInv, ReaderTypeOK
  <2>4. was.message \in Message
    BY <2>3 DEF Incomplete
  <2>5. old \in Seq(0 .. 256) /\ Len(old) = Len(e.m.data) /\ was.bytesRead = e.from
    BY <2>1, <2>4 DEF Message, Grown
  <2>6. /\ inc.message = [was.message EXCEPT !.data = buf]
        /\ inc.bytesRead = e.from + Len(data)
    BY <2>2, <2>5 DEF ContinueMessage
  <2>7. /\ inc.message.data = buf
        /\ inc.message.type = e.m.type /\ inc.message.msid = e.m.msid
    <3> HIDE DEF buf, was
    <3> QED
      BY <2>1, <2>4, <2>6 DEF Message, Grown
  <2>8. \A x \in 1 .. e.from : old[x] = e.m.data[x]
    BY <2>1 DEF Grown
  <2> HIDE DEF old, was
  <2>9. /\ Len(buf) = Len(old)
        /\ \A i \in 1 .. Len(old) :
             buf[i] = IF i - e.from \in 1 .. Len(data) THEN data[i - e.from] ELSE old[i]
    <3> DEFINE at == e.from
    <3>1. at \in Nat /\ old \in Seq(0 .. 256) /\ data \in Seq(Byte)
      BY <1>3, <2>5
    <3>2. buf = CopyInto(old, at, data)
      BY <2>5
    <3> HIDE DEF at, buf
    <3>3. /\ CopyInto(old, at, data) \in Seq(0 .. 256)
          /\ Len(CopyInto(old, at, data)) = Len(old)
          /\ \A i \in 1 .. Len(old) :
               CopyInto(old, at, data)[i] =
                 IF i - at \in 1 .. Len(data) THEN data[i - at] ELSE old[i]
      BY <3>1, CopyIntoType, ZenonT(30)
    <3> QED
      BY <3>2, <3>3 DEF at
  <2> HIDE DEF buf
  <2>10. ASSUME NEW x \in 1 .. e.from + Len(data)
         PROVE  buf[x] = e.m.data[x]
    <3> DEFINE from == e.from
               n == Len(data)
    <3>0. /\ from \in Nat /\ n \in Nat /\ x \in Nat /\ x >= 1 /\ x <= from + n
          /\ x \in 1 .. Len(old)
      BY <1>3, <2>5, <2>10
    <3>1. CASE x <= from
      <4>1. x \in 1 .. from /\ ~(x - from \in 1 .. n)
        BY <3>0, <3>1
      <4> QED
        BY <2>8, <2>9, <3>0, <4>1
    <3>2. CASE x > from
      <4>1. x - from \in 1 .. n /\ from + (x - from) = x
        BY <3>0, <3>2
      <4>2. buf[x] = data[x - from]
        BY <2>9, <3>0, <4>1
      <4>3. data[x - from] = e.m.data[from + (x - from)]
        BY <1>3, <4>1
      <4> QED
        BY <4>1, <4>2, <4>3
    <3> QED
      BY <3>0, <3>1, <3>2
  <2>11. Grown(inc, e.m, e.from + Len(data))
    BY <1>2, <1>6, <2>5, <2>6, <2>7, <2>9, <2>10 DEF Grown
  <2> QED
    BY <1>6, <2>11 DEF h, data, hd
<1> QED
  BY <1>8, <1>9

\* What the reader holds after the first chunk: a message more if that was the
\* last of its message, else a longer part of it; and for its chunk stream the
\* message's header.
LEMMA ChunkTaken ==
  ASSUME LinkTypes, NEW g \in Seq(Origin), g # << >>, AtStart(g), HeadersCarried(g),
         ReadChunk(Decoded(HeaderOf(g[1])), DataOf(g[1]))
  PROVE  LET e == g[1]
         IN  /\ ReaderInv'
             /\ InheritedState(readStreamStates'[e.m.csid]) = Inherited(e.m)
             /\ \A c \in ChunkStreams :
                  c # e.m.csid => readStreamStates'[c] = readStreamStates[c]
             /\ Final(e) =>
                  /\ \E msg \in Message :
                       received' = Append(received, msg) /\ Content(msg) = Content(e.m)
                  /\ DOMAIN incompleteMessages' = {}
                  /\ readChunkSize' = SizeAfter(e)
             /\ ~Final(e) =>
                  /\ received' = received
                  /\ readChunkSize' = readChunkSize
                  /\ Assembling(e.m, e.from + e.size)'
<1> DEFINE e == g[1]
           h == Decoded(HeaderOf(e))
           hd == readMessageHeader(h, readStreamStates[h.csid])
           data == DataOf(e)
           inc == Assembled(h.csid, hd, data)
<1>1. e \in Origin /\ hd \in ChunkState /\ InheritedState(hd) = Inherited(e.m)
  BY HeaderCompleted
<1>2. /\ h.csid = e.m.csid /\ h \in WireHeader
      /\ ReadsExtended(h) => h.ext # << >>
  BY <1>1, HeaderFacts
<1>3. /\ data \in Seq(Byte)
      /\ e.from + Len(data) = IF Final(e) THEN Len(e.m.data) ELSE e.from + e.size
  BY <1>1, DataFacts
<1>4. /\ e.m.csid \in ChunkStreams /\ e.m.data \in Seq(Byte) /\ Len(e.m.data) \in Nat
      /\ e.from \in Nat /\ e.size \in Nat
  BY <1>1, OriginFacts, WidthsAssumption
<1>5. inc \in Incomplete /\ Grown(inc, e.m, e.from + Len(data))
  BY AssemblyGrows
<1>6. DOMAIN incompleteMessages \subseteq {e.m.csid} /\ e.size = readChunkSize
  BY DEF AtStart, Assembling
<1>7. ReaderInv /\ readStreamStates \in [ChunkStreams -> ChunkState]
  BY DEF LinkTypes, ReaderInv, ReaderTypeOK
<1>8. ReadChunk(h, data)
  OBVIOUS
<1>9. inc.message \in Message /\ inc.message.data \in Seq(0 .. 256)
  BY <1>5 DEF Incomplete, Message
<1> HIDE DEF h, data
<1>10. ReaderInv'
  BY <1>2, <1>3, <1>7, <1>8, ReadChunkInv
<1>11. /\ readStreamStates' = [readStreamStates EXCEPT ![e.m.csid] = hd]
       /\ IF IsComplete(inc)
          THEN /\ received' = Append(received, inc.message)
               /\ incompleteMessages' =
                    [c \in DOMAIN incompleteMessages \ {e.m.csid} |-> incompleteMessages[c]]
               /\ processMessage(inc.message)
          ELSE /\ incompleteMessages' =
                    [c \in DOMAIN incompleteMessages \cup {e.m.csid} |->
                       IF c = e.m.csid THEN inc ELSE incompleteMessages[c]]
               /\ UNCHANGED <<received, readChunkSize>>
  BY <1>2, <1>8, ZenonT(30) DEF ReadChunk, assembleMessage, Assembled
<1> HIDE DEF e, hd, inc
<1>12. /\ readStreamStates'[e.m.csid] = hd
       /\ \A c \in ChunkStreams :
            c # e.m.csid => readStreamStates'[c] = readStreamStates[c]
  BY <1>4, <1>7, <1>11
<1>13. IsComplete(inc) <=> Final(e)
  <2>1. inc.bytesRead = (IF Final(e) THEN Len(e.m.data) ELSE e.from + e.size)
        /\ Len(inc.message.data) = Len(e.m.data)
    BY <1>3, <1>5 DEF Grown
  <2> QED
    BY <1>4, <2>1 DEF IsComplete, Final
<1>14. CASE Final(e)
  <2>1. e.from + Len(data) = Len(e.m.data)
    BY <1>3, <1>14
  <2>2. /\ Len(inc.message.data) = Len(e.m.data)
        /\ \A x \in 1 .. Len(inc.message.data) : inc.message.data[x] = e.m.data[x]
    BY <1>5, <2>1 DEF Grown
  <2>3. inc.message.data = e.m.data
    <3> DEFINE a == inc.message.data
               b == e.m.data
    <3>1. /\ a \in Seq(0 .. 256) /\ b \in Seq(Byte) /\ Len(a) = Len(b)
          /\ \A x \in 1 .. Len(a) : a[x] = b[x]
      BY <1>4, <1>9, <2>2
    <3> HIDE DEF a, b
    <3>2. a = b
      BY <3>1, SameSequence
    <3> QED
      BY <3>2 DEF a, b
  <2>4. Content(inc.message) = Content(e.m)
    BY <1>5, <2>3 DEF Content, Grown
  <2>5. DOMAIN incompleteMessages' = {}
    BY <1>6, <1>11, <1>13, <1>14
  <2>6. readChunkSize' = SizeAfter(e)
    <3>1. processMessage(inc.message)
      BY <1>11, <1>13, <1>14
    <3>2. inc.message.type = e.m.type
      BY <1>5 DEF Grown
    <3>3. CASE e.m.type # MessageTypeSetChunkSize
      BY <1>6, <3>1, <3>2, <3>3 DEF processMessage, SizeAfter
    <3>4. CASE e.m.type = MessageTypeSetChunkSize
      <4>1. PICK s \in Sizes : e.m = SetChunkSizeMessage(s)
        BY <1>1, <3>4, OriginFacts
      <4>2. s \in Nat /\ ((s \div 256) \div 256) \div 256 < 128
        BY LinkAssumption, Zenon
      <4>3. Len(e.m.data) = 4
        BY <4>1, <4>2, SizeBytes
      <4>4. SetReadChunkSize(BigEndian(e.m.data))
        BY <2>3, <3>1, <3>2, <3>4, <4>3 DEF processMessage
      <4> QED
        BY <1>6, <3>4, <4>4 DEF SetReadChunkSize, SizeAfter, NewSize
    <3> QED
      BY <3>3, <3>4
  <2> QED
    BY <1>1, <1>9, <1>10, <1>11, <1>12, <1>13, <1>14, <2>4, <2>5, <2>6 DEF e
<1>15. CASE ~Final(e)
  <2>1. /\ incompleteMessages' =
             [c \in DOMAIN incompleteMessages \cup {e.m.csid} |->
                IF c = e.m.csid THEN inc ELSE incompleteMessages[c]]
        /\ received' = received /\ readChunkSize' = readChunkSize
    BY <1>11, <1>13, <1>15
  <2>2. DOMAIN incompleteMessages' = {e.m.csid} /\ incompleteMessages'[e.m.csid] = inc
    BY <1>6, <2>1
  <2>3. Grown(inc, e.m, e.from + e.size)
    BY <1>3, <1>5, <1>15
  <2>4. InheritedState(readStreamStates'[e.m.csid]) = Inherited(e.m)
    BY <1>1, <1>12
  <2>5. Assembling(e.m, e.from + e.size)'
    BY <2>2, <2>3, <2>4 DEF Assembling, e
  <2> QED
    BY <1>1, <1>10, <1>12, <1>15, <2>1, <2>5 DEF e
<1> QED
  BY <1>14, <1>15

\* What the reader will hold later it holds after one chunk less.
LEMMA HoldsTail ==
  ASSUME NEW g \in Seq(Origin), NEW i \in 0 .. Len(g) - 1, NEW c, NEW x,
         Holds(g, i + 1, c, x),
         InheritedState(readStreamStates'[g[1].m.csid]) = Inherited(g[1].m),
         c # g[1].m.csid => readStreamStates'[c] = readStreamStates[c]
  PROVE  Holds(Tail(g), i, c, x)'
<1> DEFINE h == Tail(g)
<1>1. Len(g) \in Nat /\ i \in Nat /\ i + 1 \in 1 .. Len(g)
  OBVIOUS
<1>2. \A j \in 1 .. i : h[j] = g[j + 1]
  BY <1>1
<1> HIDE DEF h
<1>3. ASSUME NEW j \in 1 .. i, h[j].m.csid = c, \A l \in j + 1 .. i : h[l].m.csid # c
      PROVE  Inherited(h[j].m) = x
  <2>1. j + 1 \in 1 .. i + 1 /\ h[j] = g[j + 1]
    BY <1>1, <1>2
  <2>2. ASSUME NEW l \in (j + 1) + 1 .. i + 1
        PROVE  g[l].m.csid # c
    <3>1. l - 1 \in j + 1 .. i /\ l - 1 \in 1 .. i /\ (l - 1) + 1 = l
      BY <1>1, <2>2
    <3> QED
      BY <1>2, <1>3, <3>1
  <2> QED
    BY <1>3, <2>1, <2>2 DEF Holds
<1>4. ASSUME \A j \in 1 .. i : h[j].m.csid # c
      PROVE  InheritedState(readStreamStates'[c]) = x
  <2>1. ASSUME NEW l \in 2 .. i + 1
        PROVE  g[l].m.csid # c
    <3>1. l - 1 \in 1 .. i /\ (l - 1) + 1 = l
      BY <1>1, <2>1
    <3> QED
      BY <1>2, <1>4, <3>1
  <2>2. CASE g[1].m.csid = c
    <3>1. 1 \in 1 .. i + 1 /\ 1 + 1 = 2
      BY <1>1
    <3>2. Inherited(g[1].m) = x
      BY <2>1, <2>2, <3>1 DEF Holds
    <3> QED
      BY <2>2, <3>2
  <2>3. CASE g[1].m.csid # c
    <3>1. ASSUME NEW l \in 1 .. i + 1
          PROVE  g[l].m.csid # c
      <4>1. l = 1 \/ l \in 2 .. i + 1
        BY <1>1, <3>1
      <4> QED
        BY <2>1, <2>3, <4>1
    <3> QED
      BY <2>3, <3>1 DEF Holds
  <2> QED
    BY <2>2, <2>3
<1> QED
  BY <1>3, <1>4 DEF Holds, h

\* The pedigree without its first origin is a chain.
LEMMA ChainedTail ==
  ASSUME NEW g \in Seq(Origin), g # << >>, Chained(g)
  PROVE  /\ Tail(g) \in Seq(Origin) /\ Len(Tail(g)) = Len(g) - 1
         /\ \A i \in 1 .. Len(g) - 1 : Tail(g)[i] = g[i + 1]
         /\ Chained(Tail(g))
<1>1. Len(g) \in Nat \ {0}
  OBVIOUS
<1>2. /\ Tail(g) \in Seq(Origin) /\ Len(Tail(g)) = Len(g) - 1
      /\ \A i \in 1 .. Len(g) - 1 : Tail(g)[i] = g[i + 1]
  BY <1>1
<1>3. ASSUME NEW i \in 1 .. Len(g) - 2
      PROVE  Follows(Tail(g)[i], Tail(g)[i + 1])
  <2>1. /\ i + 1 \in 1 .. Len(g) - 1 /\ i \in 1 .. Len(g) - 1
        /\ (Len(g) - 1) - 1 = Len(g) - 2
    BY <1>1, <1>3
  <2>2. Tail(g)[i] = g[i + 1] /\ Tail(g)[i + 1] = g[(i + 1) + 1]
    BY <1>2, <2>1
  <2> QED
    BY <2>1, <2>2 DEF Chained
<1>4. (Len(g) - 1) - 1 = Len(g) - 2
  BY <1>1
<1> QED
  BY <1>2, <1>3, <1>4 DEF Chained

\* A chunk that the reader takes leaves the invariant to the rest.
LEMMA ReceiveInv ==
  ASSUME NEW g \in Seq(Origin), LinkInv(g), Receive
  PROVE  Tail(g) \in Seq(Origin) /\ LinkInv(Tail(g))'
<1> DEFINE h == Tail(g)
           e == g[1]
<1>1. /\ LinkTypes /\ ~garbled /\ Chained(g) /\ Described(g) /\ Numbered(g)
      /\ AtEnd(g) /\ AtStart(g) /\ CutLast /\ HeadersCarried(g) /\ Faithful
  BY DEF LinkInv
<1>2. /\ wire \in Seq(CutChunk) /\ outq \in Seq(Chunk) /\ sent \in Seq(ByteMessage)
      /\ received \in Seq(Message)
  BY <1>1 DEF LinkTypes, ReaderInv, ReaderTypeOK
<1>3. /\ wire # << >> /\ ~wire[1].cut /\ wire' = Tail(wire) /\ Head(wire) = wire[1]
      /\ UNCHANGED <<writerVars, broken, announcing, sent>>
  BY <1>2 DEF Receive
<1>4. /\ Len(wire) \in Nat \ {0} /\ Len(outq) \in Nat /\ Len(sent) \in Nat
      /\ Len(received) \in Nat
      /\ Len(g) = Len(wire) + Len(outq) /\ Len(g) \in Nat \ {0} /\ g # << >>
      /\ 1 \in 1 .. Len(wire) /\ 1 \in 1 .. Len(g)
  BY <1>1, <1>2, <1>3 DEF Described
<1>5. e \in Origin
  BY <1>4
<1>6. wire[1].header = HeaderOf(e) /\ wire[1].data = DataOf(e)
  BY <1>1, <1>3, <1>4 DEF Described
<1>7. InStep(wire[1])
  BY <1>1, <1>4, <1>6, TakesChunk
<1>8. ReadChunk(Decoded(HeaderOf(e)), DataOf(e)) /\ garbled' = garbled
  BY <1>3, <1>6, <1>7 DEF Receive
<1>9. /\ ReaderInv'
      /\ InheritedState(readStreamStates'[e.m.csid]) = Inherited(e.m)
      /\ \A c \in ChunkStreams :
           c # e.m.csid => readStreamStates'[c] = readStreamStates[c]
      /\ Final(e) =>
           /\ \E msg \in Message :
                received' = Append(received, msg) /\ Content(msg) = Content(e.m)
           /\ DOMAIN incompleteMessages' = {}
           /\ readChunkSize' = SizeAfter(e)
      /\ ~Final(e) =>
           /\ received' = received
           /\ readChunkSize' = readChunkSize
           /\ Assembling(e.m, e.from + e.size)'
  BY <1>1, <1>4, <1>8, ChunkTaken
<1>10. /\ h \in Seq(Origin) /\ Len(h) = Len(g) - 1 /\ Chained(h)
       /\ \A i \in 1 .. Len(g) - 1 : h[i] = g[i + 1]
  BY <1>1, <1>4, ChainedTail
<1>11. /\ wire' \in Seq(CutChunk) /\ Len(wire') = Len(wire) - 1
       /\ \A i \in 1 .. Len(wire) - 1 : wire'[i] = wire[i + 1]
  BY <1>2, <1>3, <1>4
<1>12. /\ writeChunkSize' = writeChunkSize /\ writeStreamStates' = writeStreamStates
       /\ nextWriteChunkID' = nextWriteChunkID /\ outq' = outq /\ broken' = broken
       /\ announcing' = announcing /\ sent' = sent
  BY <1>3 DEF writerVars
<1>13. e.from \in Nat /\ e.size \in Nat \ {0}
  BY <1>5, OriginFacts, WidthsAssumption
<1> HIDE DEF h, e
<1>14. LinkTypes'
  BY <1>1, <1>8, <1>9, <1>11, <1>12 DEF LinkTypes
<1>15. Described(h)'
  <2>1. Len(h) = Len(wire') + Len(outq')
    BY <1>4, <1>10, <1>11, <1>12
  <2>2. ASSUME NEW i \in 1 .. Len(wire')
        PROVE  /\ wire'[i].header = HeaderOf(h[i])
               /\ ~wire'[i].cut => wire'[i].data = DataOf(h[i])
    <3>1. /\ i + 1 \in 1 .. Len(wire) /\ i \in 1 .. Len(wire) - 1
          /\ i \in 1 .. Len(g) - 1
      BY <1>4, <1>11
    <3>2. wire'[i] = wire[i + 1] /\ h[i] = g[i + 1]
      BY <1>10, <1>11, <3>1
    <3> QED
      BY <1>1, <3>1, <3>2 DEF Described
  <2>3. ASSUME NEW i \in 1 .. Len(outq')
        PROVE  /\ outq'[i].header = HeaderOf(h[Len(wire') + i])
               /\ outq'[i].data = DataOf(h[Len(wire') + i])
    <3>1. /\ i \in 1 .. Len(outq) /\ Len(wire') + i \in 1 .. Len(g) - 1
          /\ (Len(wire') + i) + 1 = Len(wire) + i
      BY <1>4, <1>11, <1>12
    <3>2. h[Len(wire') + i] = g[Len(wire) + i]
      BY <1>10, <3>1
    <3> QED
      BY <1>1, <1>12, <3>1, <3>2 DEF Described
  <2> QED
    BY <2>1, <2>2, <2>3 DEF Described
<1>16. Numbered(h)'
  <2>1. ASSUME NEW i \in 1 .. Len(h)
        PROVE  h[i].n \in 1 .. Len(sent') /\ sent'[h[i].n] = h[i].m
    <3>1. i \in 1 .. Len(g) - 1 /\ i + 1 \in 1 .. Len(g)
      BY <1>4, <1>10
    <3> QED
      BY <1>1, <1>10, <1>12, <3>1 DEF Numbered
  <2>2. ASSUME NEW i \in Len(wire') + 1 .. Len(h)
        PROVE  h[i].n = Len(sent')
    <3>1. i \in 1 .. Len(g) - 1 /\ i + 1 \in Len(wire) + 1 .. Len(g)
      BY <1>4, <1>10, <1>11
    <3> QED
      BY <1>1, <1>10, <1>12, <3>1 DEF Numbered
  <2>3. h # << >> => h[Len(h)].n = Len(sent')
    <3>1. ASSUME h # << >>
          PROVE  h[Len(h)] = g[Len(g)]
      <4>1. Len(h) \in 1 .. Len(g) - 1 /\ Len(h) + 1 = Len(g)
        BY <1>4, <1>10, <3>1
      <4> QED
        BY <1>10, <4>1
    <3> QED
      BY <1>1, <1>4, <1>12, <3>1 DEF Numbered
  <2> QED
    BY <2>1, <2>2, <2>3 DEF Numbered
<1>17. e.n = Len(received) + 1 /\ e.size = readChunkSize
  BY <1>1, <1>4 DEF AtStart, e
<1>18. /\ Final(e) => Len(received') = Len(received) + 1
       /\ ~Final(e) => Len(received') = Len(received)
  BY <1>2, <1>9
<1>19. h = << >> => ~broken /\ Len(g) = 1 /\ Final(e)
  <2> SUFFICES ASSUME h = << >>
               PROVE  ~broken /\ Len(g) = 1 /\ Final(e)
    OBVIOUS
  <2>1. Len(g) = 1 /\ Len(wire) = 1
    <3>1. Len(h) = 0
      OBVIOUS
    <3>2. (Len(wire) + Len(outq)) - 1 = 0
      <4>1. Len(g) - 1 = 0
        BY <1>10, <3>1, Zenon
      <4> QED
        BY <1>4, <4>1, Zenon
    <3>3. ASSUME NEW a \in Nat \ {0}, NEW b \in Nat, (a + b) - 1 = 0
          PROVE  a + b = 1 /\ a = 1
      BY <3>3
    <3>4. Len(wire) + Len(outq) = 1 /\ Len(wire) = 1
      BY <1>4, <3>2, <3>3, Zenon
    <3> QED
      BY <1>4, <3>4, Zenon
  <2>2. ~broken
    BY <1>1, <1>3, <2>1 DEF CutLast
  <2> QED
    BY <1>1, <1>4, <2>1, <2>2 DEF AtEnd, e
<1>20. AtEnd(h)'
  <2>1. ASSUME ~broken, h = << >>
        PROVE  Len(sent') = Len(received') /\ readChunkSize' = Agreed'
    <3>1. SizeAfter(e) = Agreed /\ Len(sent) = e.n
      BY <1>1, <1>4, <1>19, <2>1 DEF AtEnd, Numbered, e
    <3> QED
      BY <1>9, <1>12, <1>17, <1>18, <1>19, <2>1, <3>1 DEF Agreed
  <2>2. ASSUME ~broken, h # << >>
        PROVE  Final(h[Len(h)]) /\ SizeAfter(h[Len(h)]) = Agreed'
    <3>1. Len(h) \in 1 .. Len(g) - 1 /\ Len(h) + 1 = Len(g)
      BY <1>4, <1>10, <2>2
    <3>2. h[Len(h)] = g[Len(g)]
      BY <1>10, <3>1
    <3> QED
      BY <1>1, <1>4, <1>12, <2>2, <3>2 DEF AtEnd, Agreed
  <2> QED
    BY <1>12, <2>1, <2>2 DEF AtEnd
<1>21. AtStart(h)'
  <2>1. CASE h = << >>
    BY <1>9, <1>19, <2>1 DEF AtStart
  <2>2. CASE h # << >>
    <3>1. 1 \in 1 .. Len(g) - 1 /\ 1 + 1 = 2
      BY <1>4, <1>10, <2>2
    <3>2. h[1] = g[2] /\ Follows(e, g[2])
      BY <1>1, <1>10, <3>1 DEF Chained, e
    <3>3. CASE Final(e)
      <4>1. h[1].n = Len(received') + 1 /\ h[1].from = 0 /\ h[1].size = readChunkSize'
        BY <1>4, <1>9, <1>17, <1>18, <3>2, <3>3 DEF Follows
      <4> QED
        BY <1>9, <2>2, <3>3, <4>1 DEF AtStart
    <3>4. CASE ~Final(e)
      <4>1. /\ h[1].n = Len(received') + 1 /\ h[1].m = e.m /\ h[1].size = readChunkSize'
            /\ h[1].from = e.from + e.size
        BY <1>9, <1>17, <1>18, <3>2, <3>4 DEF Follows
      <4>2. h[1].from # 0
        BY <1>13, <4>1
      <4>3. Assembling(h[1].m, h[1].from)'
        BY <1>9, <3>4, <4>1
      <4> QED
        BY <2>2, <4>1, <4>2, <4>3 DEF AtStart
    <3> QED
      BY <3>3, <3>4
  <2> QED
    BY <2>1, <2>2
<1>22. CutLast'
  <2>1. ASSUME NEW i \in 1 .. Len(wire'), wire'[i].cut
        PROVE  broken' /\ i = Len(wire')
    <3>1. i \in 1 .. Len(wire) - 1 /\ i + 1 \in 1 .. Len(wire)
      BY <1>4, <1>11
    <3>2. broken /\ i + 1 = Len(wire)
      BY <1>1, <1>11, <2>1, <3>1 DEF CutLast
    <3> QED
      BY <1>4, <1>11, <1>12, <3>1, <3>2
  <2>2. ASSUME broken
        PROVE  outq' = << >> /\ wire' # << >> /\ wire'[Len(wire')].cut
    <3>1. outq = << >> /\ wire[Len(wire)].cut /\ Len(wire) # 1
      BY <1>1, <1>3, <2>2 DEF CutLast
    <3>2. Len(wire') \in 1 .. Len(wire) - 1 /\ Len(wire') + 1 = Len(wire)
      BY <1>4, <1>11, <3>1
    <3> QED
      BY <1>11, <1>12, <3>1, <3>2
  <2> QED
    BY <1>12, <2>1, <2>2 DEF CutLast
<1>23. HeadersCarried(h)'
  <2>1. ASSUME NEW i \in 1 .. Len(h), h[i].f \in {1, 2}
        PROVE  Holds(h, i - 1, h[i].m.csid, Inherited(h[i].m))'
    <3> DEFINE c == h[i].m.csid
               x == Inherited(h[i].m)
    <3>1. /\ i \in 1 .. Len(g) - 1 /\ i + 1 \in 1 .. Len(g) /\ (i + 1) - 1 = (i - 1) + 1
          /\ i - 1 \in 0 .. Len(g) - 1
      BY <1>4, <1>10
    <3>2. h[i] = g[i + 1] /\ h[i] \in Origin
      BY <1>10, <3>1
    <3>3. Holds(g, (i - 1) + 1, c, x)
      BY <1>1, <2>1, <3>1, <3>2 DEF HeadersCarried
    <3>4. c \in ChunkStreams
      BY <3>2, OriginFacts
    <3> HIDE DEF c, x
    <3>5. Holds(h, i - 1, c, x)'
      BY <1>9, <3>1, <3>3, <3>4, HoldsTail DEF e, h
    <3> QED
      BY <3>5 DEF c, x
  <2>2. ASSUME ~broken, NEW c \in ChunkStreams, writeStreamStates[c].length # 0
        PROVE  Holds(h, Len(h), c, InheritedState(writeStreamStates[c]))'
    <3> DEFINE n == Len(h)
    <3>0. PICK x : x = InheritedState(writeStreamStates[c])
      OBVIOUS
    <3>1. n \in 0 .. Len(g) - 1 /\ n + 1 = Len(g)
      BY <1>4, <1>10
    <3>2. Holds(g, n + 1, c, x)
      BY <1>1, <2>2, <3>0, <3>1 DEF HeadersCarried
    <3>3. InheritedState(writeStreamStates'[c]) = x
      BY <1>12, <3>0
    <3> HIDE DEF n
    <3>4. c # e.m.csid => readStreamStates'[c] = readStreamStates[c]
      BY <1>9
    <3>5. Holds(h, n, c, x)'
      BY <1>9, <3>1, <3>2, <3>4, HoldsTail DEF e, h
    <3> QED
      BY <3>3, <3>5 DEF Holds, n
  <2> QED
    BY <1>12, <2>1, <2>2 DEF HeadersCarried
<1>24. Faithful'
  <2>1. CASE ~Final(e)
    BY <1>1, <1>9, <1>12, <2>1 DEF Faithful
  <2>2. CASE Final(e)
    <3>1. PICK msg \in Message :
            received' = Append(received, msg) /\ Content(msg) = Content(e.m)
      BY <1>9, <2>2
    <3>2. e.n \in 1 .. Len(sent) /\ sent[e.n] = e.m
      BY <1>1, <1>4 DEF Numbered, e
    <3>3. Len(received') = Len(received) + 1 /\ Len(received) + 1 <= Len(sent)
      BY <1>4, <1>17, <1>18, <2>2, <3>2
    <3>4. ASSUME NEW k \in 1 .. Len(received')
          PROVE  Content(received'[k]) = Content(sent[k])
      <4>1. CASE k = Len(received) + 1
        <5>1. received'[k] = msg
          BY <1>2, <3>1, <4>1
        <5> QED
          BY <1>17, <3>1, <3>2, <4>1, <5>1
      <4>2. CASE k # Len(received) + 1
        <5>1. k \in 1 .. Len(received) /\ received'[k] = received[k]
          BY <1>2, <1>4, <3>1, <3>3, <4>2
        <5> QED
          BY <1>1, <5>1 DEF Faithful
      <4> QED
        BY <4>1, <4>2
    <3> QED
      BY <1>12, <3>3, <3>4 DEF Faithful
  <2> QED
    BY <2>1, <2>2
<1>25. ~garbled'
  BY <1>1, <1>8
<1> QED
  BY <1>10, <1>14, <1>15, <1>16, <1>20, <1>21, <1>22, <1>23, <1>24, <1>25 DEF LinkInv, h


----------------------------------------------------------------------------
(* The writing end's steps.                                                *)

\* What the reader holds depends on no more than the chunks it takes.
LEMMA HoldsSame ==
  ASSUME NEW g, NEW h, NEW i \in Nat, \A j \in 1 .. i : h[j] = g[j],
         readStreamStates' = readStreamStates,
         NEW c, NEW x, Holds(g, i, c, x)
  PROVE  Holds(h, i, c, x)'
<1>1. ASSUME NEW j \in 1 .. i, h[j].m.csid = c, \A l \in j + 1 .. i : h[l].m.csid # c
      PROVE  Inherited(h[j].m) = x
  <2>1. ASSUME NEW l \in j + 1 .. i
        PROVE  g[l].m.csid # c
    <3>1. l \in 1 .. i
      BY <1>1, <2>1
    <3> QED
      BY <1>1, <2>1, <3>1
  <2> QED
    BY <1>1, <2>1 DEF Holds
<1>2. ASSUME \A j \in 1 .. i : h[j].m.csid # c
      PROVE  InheritedState(readStreamStates[c]) = x
  BY <1>2 DEF Holds
<1> QED
  BY <1>1, <1>2 DEF Holds

\* Steps of the writer leave the reader as it is.
LEMMA ReaderKept ==
  ASSUME NEW g, UNCHANGED readerVars
  PROVE  /\ ReaderInv => ReaderInv'
         /\ AtStart(g) => AtStart(g)'
<1>1. /\ readChunkSize' = readChunkSize /\ readStreamStates' = readStreamStates
      /\ incompleteMessages' = incompleteMessages /\ unacked' = unacked
      /\ received' = received
  BY DEF readerVars
<1>2. ReaderInv => ReaderInv'
  BY <1>1 DEF ReaderInv, ReaderTypeOK, AssemblyInBounds, NoHoles
<1>3. AtStart(g) => AtStart(g)'
  BY <1>1 DEF AtStart, Assembling, Grown
<1> QED
  BY <1>2, <1>3

\* A chunk put on the wire is still the chunk it was.
LEMMA WriteChunkInv ==
  ASSUME NEW g \in Seq(Origin), LinkInv(g), WriteChunk
  PROVE  LinkInv(g)'
<1> DEFINE w == [header |-> Head(outq).header, data |-> Head(outq).data, cut |-> FALSE]
<1>1. /\ LinkTypes /\ ~garbled /\ Chained(g) /\ Described(g) /\ Numbered(g)
      /\ AtEnd(g) /\ AtStart(g) /\ CutLast /\ HeadersCarried(g) /\ Faithful
  BY DEF LinkInv
<1>2. /\ wire \in Seq(CutChunk) /\ outq \in Seq(Chunk) /\ outq # << >>
  BY <1>1 DEF LinkTypes, WriteChunk
<1>3. /\ wire' = Append(wire, w) /\ outq' = Tail(outq)
      /\ writeChunkSize' = writeChunkSize /\ writeStreamStates' = writeStreamStates
      /\ nextWriteChunkID' = nextWriteChunkID /\ UNCHANGED readerVars
      /\ broken' = broken /\ garbled' = garbled /\ announcing' = announcing
      /\ sent' = sent
  BY DEF WriteChunk
<1>4. /\ readChunkSize' = readChunkSize /\ readStreamStates' = readStreamStates
      /\ received' = received
  BY <1>3 DEF readerVars
<1>5. ~broken
  BY <1>1, <1>2 DEF CutLast
<1>6. /\ w \in CutChunk /\ w.cut = FALSE
      /\ w.header = outq[1].header /\ w.data = outq[1].data
  <2>1. Head(outq) = outq[1] /\ outq[1] \in Chunk
    BY <1>2
  <2>2. outq[1].header \in Header /\ outq[1].data \in Seq(Byte)
    BY <2>1 DEF Chunk
  <2> QED
    BY <2>1, <2>2 DEF CutChunk
<1> HIDE DEF w
<1>7. /\ Len(wire) \in Nat /\ Len(outq) \in Nat \ {0}
      /\ wire' \in Seq(CutChunk) /\ outq' \in Seq(Chunk)
      /\ Len(wire') = Len(wire) + 1 /\ Len(outq') = Len(outq) - 1
      /\ \A i \in 1 .. Len(wire) : wire'[i] = wire[i]
      /\ wire'[Len(wire) + 1] = w
      /\ \A i \in 1 .. Len(outq) - 1 : outq'[i] = outq[i + 1]
  BY <1>2, <1>3, <1>6
<1>8. LinkTypes'
  BY <1>1, <1>3, <1>7, ReaderKept DEF LinkTypes
<1>9. Described(g)'
  <2>1. Len(g) = Len(wire') + Len(outq')
    BY <1>1, <1>7 DEF Described
  <2>2. ASSUME NEW i \in 1 .. Len(wire')
        PROVE  /\ wire'[i].header = HeaderOf(g[i])
               /\ ~wire'[i].cut => wire'[i].data = DataOf(g[i])
    <3>1. CASE i \in 1 .. Len(wire)
      BY <1>1, <1>7, <3>1 DEF Described
    <3>2. CASE i = Len(wire) + 1
      <4>1. 1 \in 1 .. Len(outq)
        BY <1>7
      <4> QED
        BY <1>1, <1>6, <1>7, <3>2, <4>1 DEF Described
    <3> QED
      BY <1>7, <3>1, <3>2
  <2>3. ASSUME NEW i \in 1 .. Len(outq')
        PROVE  /\ outq'[i].header = HeaderOf(g[Len(wire') + i])
               /\ outq'[i].data = DataOf(g[Len(wire') + i])
    <3>1. /\ i \in 1 .. Len(outq) - 1 /\ i + 1 \in 1 .. Len(outq)
          /\ Len(wire') + i = Len(wire) + (i + 1)
      BY <1>7
    <3> QED
      BY <1>1, <1>7, <3>1 DEF Described
  <2> QED
    BY <2>1, <2>2, <2>3 DEF Described
<1>10. Numbered(g)'
  <2>1. ASSUME NEW i \in Len(wire') + 1 .. Len(g)
        PROVE  i \in Len(wire) + 1 .. Len(g)
    BY <1>7
  <2> QED
    BY <1>1, <1>3, <2>1 DEF Numbered
<1>11. AtEnd(g)'
  BY <1>1, <1>3, <1>4 DEF AtEnd, Agreed
<1>12. CutLast'
  <2>1. ASSUME NEW i \in 1 .. Len(wire')
        PROVE  ~wire'[i].cut
    <3>1. i \in 1 .. Len(wire) \/ i = Len(wire) + 1
      BY <1>7
    <3> QED
      BY <1>1, <1>5, <1>6, <1>7, <3>1 DEF CutLast
  <2> QED
    BY <1>3, <1>5, <2>1 DEF CutLast
<1>13. HeadersCarried(g)'
  BY <1>1, <1>3, <1>4 DEF HeadersCarried, Holds
<1>14. Faithful'
  BY <1>1, <1>3, <1>4 DEF Faithful
<1> QED
  BY <1>1, <1>3, <1>8, <1>9, <1>10, <1>11, <1>12, <1>13, <1>14, ReaderKept DEF LinkInv

\* A write that fails cuts the pedigree where it cuts the message.
LEMMA WriteFailsInv ==
  ASSUME NEW g \in Seq(Origin), LinkInv(g), WriteFails
  PROVE  \E h \in Seq(Origin) : LinkInv(h)'
<1> DEFINE w == [header |-> Head(outq).header, data |-> << >>, cut |-> TRUE]
<1>1. /\ LinkTypes /\ ~garbled /\ Chained(g) /\ Described(g) /\ Numbered(g)
      /\ AtEnd(g) /\ AtStart(g) /\ CutLast /\ HeadersCarried(g) /\ Faithful
  BY DEF LinkInv
<1>2. /\ wire \in Seq(CutChunk) /\ outq \in Seq(Chunk) /\ outq # << >>
  BY <1>1 DEF LinkTypes, WriteFails
<1>3. /\ wire' = Append(wire, w) /\ outq' = << >>
      /\ writeChunkSize' = writeChunkSize /\ writeStreamStates' = writeStreamStates
      /\ nextWriteChunkID' = nextWriteChunkID /\ UNCHANGED readerVars
      /\ broken' = TRUE /\ garbled' = garbled /\ announcing' = announcing
      /\ sent' = sent
  BY DEF WriteFails
<1>4. /\ readChunkSize' = readChunkSize /\ readStreamStates' = readStreamStates
      /\ received' = received
  BY <1>3 DEF readerVars
<1>5. ~broken
  BY <1>1, <1>2 DEF CutLast
<1>6. /\ w \in CutChunk /\ w.cut = TRUE /\ w.header = outq[1].header
  <2>1. Head(outq) = outq[1] /\ outq[1] \in Chunk
    BY <1>2
  <2>2. outq[1].header \in Header /\ << >> \in Seq(Byte)
    BY <2>1 DEF Chunk
  <2> QED
    BY <2>1, <2>2 DEF CutChunk
<1> HIDE DEF w
<1>7. /\ Len(wire) \in Nat /\ Len(outq) \in Nat \ {0} /\ Len(g) \in Nat
      /\ wire' \in Seq(CutChunk) /\ outq' \in Seq(Chunk)
      /\ Len(wire') = Len(wire) + 1 /\ Len(outq') = 0
      /\ \A i \in 1 .. Len(wire) : wire'[i] = wire[i]
      /\ wire'[Len(wire) + 1] = w
  BY <1>2, <1>3, <1>6
<1>8. PICK n \in Nat : n = Len(wire) + 1
  BY <1>7
<1>9. n \in 1 .. Len(g) /\ 1 \in 1 .. Len(outq) /\ n - 1 = Len(wire)
  BY <1>1, <1>7, <1>8 DEF Described
<1> DEFINE h == SubSeq(g, 1, n)
<1>10. /\ h \in Seq(Origin) /\ Len(h) = n /\ h # << >>
       /\ \A i \in 1 .. n : h[i] = g[i]
  BY <1>9
<1> HIDE DEF h
<1>11. LinkTypes'
  BY <1>1, <1>3, <1>7, ReaderKept DEF LinkTypes
<1>12. Chained(h)
  <2>1. ASSUME NEW i \in 1 .. Len(h) - 1
        PROVE  Follows(h[i], h[i + 1])
    <3>1. i \in 1 .. n /\ i + 1 \in 1 .. n /\ i \in 1 .. Len(g) - 1
      BY <1>7, <1>9, <1>10
    <3> QED
      BY <1>1, <1>10, <3>1 DEF Chained
  <2> QED
    BY <2>1 DEF Chained
<1>13. Described(h)'
  <2>1. ASSUME NEW i \in 1 .. Len(wire')
        PROVE  /\ wire'[i].header = HeaderOf(h[i])
               /\ ~wire'[i].cut => wire'[i].data = DataOf(h[i])
    <3>1. CASE i \in 1 .. Len(wire)
      <4>1. h[i] = g[i] /\ wire'[i] = wire[i]
        BY <1>7, <1>8, <1>10, <3>1
      <4> QED
        BY <1>1, <3>1, <4>1 DEF Described
    <3>2. CASE i = Len(wire) + 1
      <4>1. h[i] = g[Len(wire) + 1] /\ wire'[i] = w
        BY <1>7, <1>8, <1>9, <1>10, <3>2
      <4> QED
        BY <1>1, <1>6, <1>9, <4>1 DEF Described
    <3> QED
      BY <1>7, <3>1, <3>2
  <2>2. Len(h) = Len(wire') + Len(outq')
    BY <1>7, <1>8, <1>10
  <2>3. ASSUME NEW i \in 1 .. Len(outq')
        PROVE  FALSE
    BY <1>7, <2>3
  <2> QED
    BY <2>1, <2>2, <2>3 DEF Described
<1>14. Numbered(h)'
  <2>1. ASSUME NEW i \in Len(wire') + 1 .. Len(h)
        PROVE  FALSE
    BY <1>7, <1>8, <1>10, <2>1
  <2>2. h[Len(h)].n = Len(sent)
    <3>1. n \in Len(wire) + 1 .. Len(g) /\ n \in 1 .. n
      BY <1>7, <1>8, <1>9
    <3> QED
      BY <1>1, <1>10, <3>1 DEF Numbered
  <2>3. ASSUME NEW i \in 1 .. Len(h)
        PROVE  i \in 1 .. Len(g) /\ h[i] = g[i]
    BY <1>7, <1>9, <1>10
  <2> QED
    BY <1>1, <1>3, <2>1, <2>2, <2>3 DEF Numbered
<1>15. AtEnd(h)'
  BY <1>3 DEF AtEnd
<1>16. AtStart(h)'
  <2>1. h[1] = g[1] /\ g # << >>
    BY <1>9, <1>10
  <2> QED
    BY <1>1, <1>3, <1>10, <2>1, ReaderKept DEF AtStart
<1>17. CutLast'
  <2>1. ASSUME NEW i \in 1 .. Len(wire'), wire'[i].cut
        PROVE  i = Len(wire')
    <3>1. i \in 1 .. Len(wire) \/ i = Len(wire) + 1
      BY <1>7
    <3> QED
      BY <1>1, <1>5, <1>7, <2>1, <3>1 DEF CutLast
  <2>2. wire' # << >> /\ wire'[Len(wire')].cut
    BY <1>6, <1>7
  <2> QED
    BY <1>3, <2>1, <2>2 DEF CutLast
<1>18. HeadersCarried(h)'
  <2>1. ASSUME NEW i \in 1 .. Len(h), h[i].f \in {1, 2}
        PROVE  Holds(h, i - 1, h[i].m.csid, Inherited(h[i].m))'
    <3>1. i - 1 \in Nat /\ i \in 1 .. Len(g) /\ h[i] = g[i]
      BY <1>7, <1>9, <1>10
    <3>2. ASSUME NEW j \in 1 .. i - 1
          PROVE  h[j] = g[j]
      <4>1. j \in 1 .. n
        BY <1>10, <3>2
      <4> QED
        BY <1>10, <4>1
    <3>3. Holds(g, i - 1, h[i].m.csid, Inherited(h[i].m))
      BY <1>1, <2>1, <3>1 DEF HeadersCarried
    <3> QED
      BY <1>4, <3>1, <3>2, <3>3, HoldsSame
  <2> QED
    BY <1>3, <2>1 DEF HeadersCarried
<1>19. Faithful'
  BY <1>1, <1>3, <1>4 DEF Faithful
<1> QED
  BY <1>1, <1>3, <1>10, <1>11, <1>12, <1>13, <1>14, <1>15, <1>16, <1>17, <1>18, <1>19
  DEF LinkInv

\* The size was agreed upon when its message was written.
LEMMA UseChunkSizeInv ==
  ASSUME NEW g \in Seq(Origin), LinkInv(g), UseChunkSize
  PROVE  LinkInv(g)'
<1>1. /\ LinkTypes /\ ~garbled /\ Chained(g) /\ Described(g) /\ Numbered(g)
      /\ AtEnd(g) /\ AtStart(g) /\ CutLast /\ HeadersCarried(g) /\ Faithful
  BY DEF LinkInv
<1>2. /\ writeChunkSize' = NewSize(announcing, writeChunkSize) /\ announcing' = NoSize
      /\ writeStreamStates' = writeStreamStates /\ nextWriteChunkID' = nextWriteChunkID
      /\ outq' = outq /\ wire' = wire /\ broken' = broken /\ garbled' = garbled
      /\ sent' = sent /\ UNCHANGED readerVars
  BY DEF UseChunkSize, SetWriteChunkSize, NewSize
<1>3. /\ readChunkSize' = readChunkSize /\ readStreamStates' = readStreamStates
      /\ received' = received
  BY <1>2 DEF readerVars
<1>4. writeChunkSize' \in 1 .. MaxChunkSize
  BY <1>1, <1>2 DEF LinkTypes, NewSize
<1>5. Agreed' = Agreed
  BY <1>2 DEF Agreed, NewSize, NoSize
<1>6. LinkTypes'
  BY <1>1, <1>2, <1>4, ReaderKept DEF LinkTypes
<1>7. AtEnd(g)'
  BY <1>1, <1>2, <1>3, <1>5 DEF AtEnd
<1>8. HeadersCarried(g)'
  BY <1>1, <1>2, <1>3 DEF HeadersCarried, Holds
<1>9. Described(g)' /\ Numbered(g)' /\ CutLast' /\ Faithful'
  BY <1>1, <1>2, <1>3 DEF Described, Numbered, CutLast, Faithful
<1> QED
  BY <1>1, <1>2, <1>6, <1>7, <1>8, <1>9, ReaderKept DEF LinkInv

----------------------------------------------------------------------------
(* A message cut into chunks.                                              *)

\* A product grows with its factor.
LEMMA TimesMonotone ==
  ASSUME NEW a \in Nat, NEW b \in Nat, NEW s \in Nat, a <= b
  PROVE  a * s <= b * s /\ a * s \in Nat
<1>1. (b - a) * s >= 0
  OBVIOUS
<1>2. b * s = a * s + (b - a) * s
  OBVIOUS
<1> QED
  BY <1>1, <1>2

\* n bytes in chunks of s bytes: all but the last chunk are full.
LEMMA ChunkNumbers ==
  ASSUME NEW n \in Nat, NEW s \in Nat \ {0}, NEW k, k = (n + s - 1) \div s
  PROVE  /\ k \in Nat
         /\ n = 0 => k = 0
         /\ n # 0 => k # 0
         /\ \A i \in 1 .. k : /\ (i - 1) * s \in Nat
                              /\ (i - 1) * s < n
                              /\ (i - 1) * s + s = i * s
                              /\ i # 1 => (i - 1) * s # 0
                              /\ (i - 1) * s + s >= n <=> i = k
<1>1. k \in Int /\ k * s <= n + s - 1 /\ n + s - 1 < k * s + s
  OBVIOUS
<1>2. k \in Nat
  <2>1. ASSUME k <= -1
        PROVE  FALSE
    <3>1. (-1 - k) * s >= 0
      BY <1>1, <2>1
    <3>2. (-1 - k) * s = -s - k * s
      BY <1>1
    <3> QED
      BY <1>1, <3>1, <3>2
  <2> QED
    BY <1>1, <2>1
<1>3. n = 0 => k = 0
  <2>1. ASSUME n = 0, 1 <= k
        PROVE  FALSE
    <3>1. 1 * s <= k * s
      BY <1>2, <2>1, TimesMonotone
    <3> QED
      BY <1>1, <2>1, <3>1
  <2> QED
    BY <1>2, <2>1
<1>4. n # 0 => k # 0
  BY <1>1, <1>2
<1>5. ASSUME NEW i \in 1 .. k
      PROVE  /\ (i - 1) * s \in Nat
             /\ (i - 1) * s < n
             /\ (i - 1) * s + s = i * s
             /\ i # 1 => (i - 1) * s # 0
             /\ (i - 1) * s + s >= n <=> i = k
  <2>1. i - 1 \in Nat /\ i \in Nat /\ i <= k
    BY <1>2, <1>5
  <2>2. (i - 1) * s + s = i * s
    BY <2>1
  <2>3. (i - 1) * s \in Nat
    BY <2>1
  <2>4. i * s <= k * s
    BY <1>2, <2>1, TimesMonotone
  <2>5. (i - 1) * s < n
    BY <1>1, <2>2, <2>3, <2>4
  <2>6. i # 1 => (i - 1) * s # 0
    <3>1. ASSUME 1 <= i - 1
          PROVE  (i - 1) * s # 0
      <4>1. 1 * s <= (i - 1) * s
        BY <2>1, <3>1, TimesMonotone
      <4> QED
        BY <2>3, <4>1
    <3> QED
      BY <2>1, <3>1
  <2>7. i = k => (i - 1) * s + s >= n
    BY <1>1, <2>2
  <2>8. ASSUME i # k
        PROVE  ~((i - 1) * s + s >= n)
    <3>1. i <= k - 1 /\ k - 1 \in Nat
      BY <1>2, <2>1, <2>8
    <3>2. i * s <= (k - 1) * s
      BY <2>1, <3>1, TimesMonotone
    <3>3. (k - 1) * s = k * s - s
      BY <1>2
    <3> QED
      BY <1>1, <1>2, <2>1, <2>2, <3>2, <3>3
  <2> QED
    BY <2>2, <2>3, <2>5, <2>6, <2>7, <2>8
<1> QED
  BY <1>2, <1>3, <1>4, <1>5

\* The origins o of the k chunks of message m, the n-th one sent, in chunks of
\* size s; f and t are the format and the Timestamp of the first.
Origins(m, n, s, k, f, t) ==
  [i \in 1 .. k |-> [m |-> m, n |-> n, from |-> (i - 1) * s, size |-> s,
                     f |-> IF i = 1 THEN f ELSE 3, t |-> IF i = 1 THEN t ELSE 0]]

OriginsOf(o, m, n, s, k, f, t) ==
  /\ o \in Seq(Origin) /\ k \in Nat \ {0} /\ Len(o) = k
  /\ \A i \in 1 .. k : /\ o[i].m = m /\ o[i].n = n /\ o[i].size = s
                       /\ o[i].from = (i - 1) * s
                       /\ o[i].f = IF i = 1 THEN f ELSE 3
                       /\ o[i].t = IF i = 1 THEN t ELSE 0
                       /\ Final(o[i]) <=> i = k
  /\ o[1].from = 0
  /\ Chained(o)

\* Places in a sequence of k elements.
LEMMA Places ==
  ASSUME NEW k \in Nat
  PROVE  /\ \A i \in 1 .. k - 1 : /\ i \in 1 .. k /\ i + 1 \in 1 .. k /\ i # k
                                  /\ (i + 1) - 1 = i
         /\ k # 0 => k \in Nat \ {0} /\ 1 \in 1 .. k
         /\ \A s \in Nat \ {0} : (1 - 1) * s = 0
  OBVIOUS

\* What the k origins are, one by one and as a chain.
LEMMA OriginsFacts ==
  ASSUME NEW m \in ByteMessage, m.data # << >>, Len(m.data) < U24,
         m.type = MessageTypeSetChunkSize => \E z \in Sizes : m = SetChunkSizeMessage(z),
         NEW n \in Nat \ {0}, NEW s \in 1 .. MaxChunkSize,
         NEW k, k = (Len(m.data) + s - 1) \div s,
         NEW f \in 0 .. 2, NEW t \in 0 .. U32 - 1, f # 0 => t < ExtendedMark
  PROVE  OriginsOf(Origins(m, n, s, k, f, t), m, n, s, k, f, t)
<1> DEFINE o == Origins(m, n, s, k, f, t)
<1>1. m.data \in Seq(Byte) /\ Len(m.data) \in Nat /\ Len(m.data) # 0
  <2>1. m.data \in Seq(Byte)
    BY DEF ByteMessage
  <2> QED
    BY <2>1
<1>2. s \in Nat \ {0}
  BY WidthsAssumption
<1>3. /\ k \in Nat /\ k # 0
      /\ \A i \in 1 .. k : /\ (i - 1) * s \in Nat
                           /\ (i - 1) * s < Len(m.data)
                           /\ (i - 1) * s + s = i * s
                           /\ i # 1 => (i - 1) * s # 0
                           /\ (i - 1) * s + s >= Len(m.data) <=> i = k
  <2>1. k = (Len(m.data) + s - 1) \div s /\ Len(m.data) \in Nat
    BY <1>1
  <2>2. (Len(m.data) # 0 => k # 0)
        /\ k \in Nat
        /\ \A i \in 1 .. k : /\ (i - 1) * s \in Nat
                             /\ (i - 1) * s < Len(m.data)
                             /\ (i - 1) * s + s = i * s
                             /\ i # 1 => (i - 1) * s # 0
                             /\ (i - 1) * s + s >= Len(m.data) <=> i = k
    BY <1>2, <2>1, ChunkNumbers, ZenonT(30)
  <2> QED
    BY <1>1, <2>2, Zenon
<1>4. \A i \in 1 .. k : /\ o[i].m = m /\ o[i].n = n /\ o[i].size = s
                        /\ o[i].from = (i - 1) * s
                        /\ o[i].f = IF i = 1 THEN f ELSE 3
                        /\ o[i].t = IF i = 1 THEN t ELSE 0
  BY DEF Origins
<1>5. \A i \in 1 .. k : Final(o[i]) <=> i = k
  BY <1>3, <1>4 DEF Final
<1>6. ASSUME NEW i \in 1 .. k
      PROVE  o[i] \in Origin
  <2> DEFINE from == (i - 1) * s
             e == [m |-> m, n |-> n, from |-> from, size |-> s,
                   f |-> IF i = 1 THEN f ELSE 3, t |-> IF i = 1 THEN t ELSE 0]
  <2>1. o[i] = e
    BY DEF Origins
  <2>2. from \in Nat /\ from < Len(m.data) /\ (i = 1 => from = 0) /\ (i # 1 => from # 0)
    <3>1. i = 1 => from = 0
      BY <1>2
    <3> QED
      BY <1>3, <3>1
  <2> HIDE DEF from
  <2>3. e \in [m : ByteMessage, n : Nat \ {0}, from : Nat, size : 1 .. MaxChunkSize,
               f : 0 .. 3, t : 0 .. U32 - 1]
    <3>1. (IF i = 1 THEN f ELSE 3) \in 0 .. 3
      OBVIOUS
    <3>2. (IF i = 1 THEN t ELSE 0) \in 0 .. U32 - 1
      BY WidthsAssumption
    <3> QED
      BY <2>2, <3>1, <3>2
  <2>4. e.f = 3 <=> e.from # 0
    BY <2>2
  <2>5. e.f # 0 => e.t < ExtendedMark
    BY WidthsAssumption DEF ExtendedMark
  <2>6. e.from < Len(e.m.data) /\ Len(e.m.data) < U24
    BY <2>2
  <2>7. e.m.type = MessageTypeSetChunkSize => \E z \in Sizes : e.m = SetChunkSizeMessage(z)
    OBVIOUS
  <2> QED
    BY <2>1, <2>3, <2>4, <2>5, <2>6, <2>7 DEF Origin
<1>7. o \in Seq(Origin) /\ Len(o) = k
  <2>1. o \in [1 .. k -> Origin]
    BY <1>6 DEF Origins
  <2> QED
    BY <1>3, <2>1, FunctionIsSeq
<1> HIDE DEF o
<1>8. o[1].from = 0
  <2>1. 1 \in 1 .. k /\ (1 - 1) * s = 0
    BY <1>2, <1>3, Places, Zenon
  <2> QED
    BY <1>4, <2>1, Zenon
<1>9. Chained(o)
  <2>1. ASSUME NEW i \in 1 .. Len(o) - 1
        PROVE  Follows(o[i], o[i + 1])
    <3>1. i \in 1 .. k /\ i + 1 \in 1 .. k /\ i # k /\ (i + 1) - 1 = i
      <4>1. k \in Nat /\ i \in 1 .. k - 1
        BY <1>3, <1>7, <2>1, Zenon
      <4>2. \A j \in 1 .. k - 1 : /\ j \in 1 .. k /\ j + 1 \in 1 .. k /\ j # k
                                  /\ (j + 1) - 1 = j
        BY <4>1, Places, Zenon
      <4> QED
        BY <4>1, <4>2, Zenon
    <3>2. ~Final(o[i])
      BY <1>5, <3>1
    <3>3. o[i + 1].from = o[i].from + o[i].size
      <4>1. o[i + 1].from = ((i + 1) - 1) * s /\ o[i].from = (i - 1) * s /\ o[i].size = s
        BY <1>4, <3>1, Zenon
      <4>2. (i - 1) * s + s = i * s
        BY <1>3, <3>1, Zenon
      <4> QED
        BY <3>1, <4>1, <4>2, Zenon
    <3>4. /\ o[i + 1].n = o[i].n /\ o[i + 1].m = o[i].m /\ o[i + 1].size = o[i].size
      BY <1>4, <3>1, Zenon
    <3> QED
      BY <3>2, <3>3, <3>4, Zenon DEF Follows
  <2> QED
    BY <2>1 DEF Chained
<1>10. k \in Nat \ {0}
  BY <1>3, Places, Zenon
<1> QED
  BY <1>4, <1>5, <1>7, <1>8, <1>9, <1>10, Zenon DEF OriginsOf, o

\* Chunks of other chunk streams do not change what the reader holds.
LEMMA HoldsAppend ==
  ASSUME NEW g, NEW h, NEW i \in Nat, NEW n \in Nat, i <= n,
         \A j \in 1 .. i : h[j] = g[j],
         NEW c, NEW x, \A j \in i + 1 .. n : h[j].m.csid # c,
         readStreamStates' = readStreamStates, Holds(g, i, c, x)
  PROVE  Holds(h, n, c, x)'
<1>1. ASSUME NEW j \in 1 .. n, h[j].m.csid = c, \A l \in j + 1 .. n : h[l].m.csid # c
      PROVE  Inherited(h[j].m) = x
  <2>1. j \in 1 .. i
    <3>1. j \in 1 .. i \/ j \in i + 1 .. n
      BY <1>1
    <3> QED
      BY <1>1, <3>1
  <2>2. ASSUME NEW l \in j + 1 .. i
        PROVE  g[l].m.csid # c
    <3>1. l \in 1 .. i /\ l \in j + 1 .. n
      BY <2>1, <2>2
    <3> QED
      BY <1>1, <3>1
  <2> QED
    BY <1>1, <2>1, <2>2 DEF Holds
<1>2. ASSUME \A j \in 1 .. n : h[j].m.csid # c
      PROVE  InheritedState(readStreamStates[c]) = x
  <2>1. ASSUME NEW j \in 1 .. i
        PROVE  g[j].m.csid # c
    <3>1. j \in 1 .. n
      BY <2>1
    <3> QED
      BY <1>2, <2>1, <3>1
  <2> QED
    BY <2>1 DEF Holds
<1> QED
  BY <1>1, <1>2 DEF Holds

\* What a message leaves behind in the writer.
LEMMA Begun ==
  ASSUME LinkTypes, NEW m \in ByteMessage, Len(m.data) < U24, BeginWrite(m)
  PROVE  /\ outq = << >> /\ outq' = createChunks(m) /\ writeChunkSize' = writeChunkSize
         /\ m.csid \in ChunkStreams /\ m.data \in Seq(Byte) /\ Len(m.data) \in Nat
         /\ writeStreamStates' \in [ChunkStreams -> ChunkState]
         /\ writeStreamStates'[m.csid].length = Len(m.data)
         /\ InheritedState(writeStreamStates'[m.csid]) = Inherited(m)
         /\ \A c \in ChunkStreams : c # m.csid => writeStreamStates'[c] = writeStreamStates[c]
<1> DEFINE st == writeStreamStates[m.csid]
           new == [st EXCEPT !.timestamp = m.timestamp, !.length = Len(m.data),
                             !.type = m.type, !.msid = m.msid]
<1>1. /\ m.csid \in ChunkStreams /\ m.data \in Seq(Byte) /\ m.type \in Byte
      /\ m.msid \in 0 .. U32 - 1 /\ m.timestamp \in 0 .. U32 - 1
  BY DEF ByteMessage
<1>2. Len(m.data) \in Nat /\ Len(m.data) \in 0 .. U32 - 1
  <2>1. Len(m.data) \in Nat
    BY <1>1
  <2> QED
    BY <2>1, LengthFits
<1>3. st \in ChunkState
  BY <1>1 DEF LinkTypes
<1>4. /\ outq = << >> /\ outq' = createChunks(m) /\ writeChunkSize' = writeChunkSize
      /\ writeStreamStates' = [writeStreamStates EXCEPT ![m.csid] = new]
  BY DEF BeginWrite
<1>5. /\ new \in ChunkState
      /\ new.length = Len(m.data) /\ new.type = m.type /\ new.msid = m.msid
  BY <1>1, <1>2, <1>3 DEF ChunkState
<1> HIDE DEF new
<1>6. /\ writeStreamStates' \in [ChunkStreams -> ChunkState]
      /\ writeStreamStates'[m.csid] = new
      /\ \A c \in ChunkStreams : c # m.csid => writeStreamStates'[c] = writeStreamStates[c]
  BY <1>1, <1>4, <1>5 DEF LinkTypes
<1> QED
  BY <1>1, <1>2, <1>4, <1>5, <1>6 DEF InheritedState, Inherited

\* A message without a payload puts nothing on the wire.
LEMMA EmptyWritten ==
  ASSUME NEW g \in Seq(Origin), LinkInv(g), NEW m \in ByteMessage, m.data = << >>,
         BeginWrite(m), nextWriteChunkID' \in 2 .. LastAutoID,
         UNCHANGED <<readerVars, wire, broken, garbled, announcing, sent>>
  PROVE  LinkInv(g)'
<1>1. /\ LinkTypes /\ ~garbled /\ Chained(g) /\ Described(g) /\ Numbered(g)
      /\ AtEnd(g) /\ AtStart(g) /\ CutLast /\ HeadersCarried(g) /\ Faithful
  BY DEF LinkInv
<1>2. Len(m.data) = 0 /\ Len(m.data) < U24
  BY WidthsAssumption
<1>3. /\ outq = << >> /\ outq' = createChunks(m) /\ writeChunkSize' = writeChunkSize
      /\ writeStreamStates' \in [ChunkStreams -> ChunkState]
      /\ writeStreamStates'[m.csid].length = 0
      /\ \A c \in ChunkStreams : c # m.csid => writeStreamStates'[c] = writeStreamStates[c]
  BY <1>1, <1>2, Begun
<1>4. /\ wire' = wire /\ broken' = broken /\ garbled' = garbled
      /\ announcing' = announcing /\ sent' = sent /\ UNCHANGED readerVars
  OBVIOUS
<1>5. /\ readChunkSize' = readChunkSize /\ readStreamStates' = readStreamStates
      /\ received' = received
  BY <1>4 DEF readerVars
<1>6. outq' = << >>
  <2>1. PICK s \in Nat \ {0} : s = writeChunkSize
    BY <1>1, WidthsAssumption DEF LinkTypes
  <2>2. PICK k : k = (0 + s - 1) \div s
    OBVIOUS
  <2>3. k = 0
    BY <2>1, <2>2, ChunkNumbers
  <2>4. ChunkCount(m) = 0
    BY <1>2, <2>1, <2>2, <2>3 DEF ChunkCount
  <2>5. createChunks(m) \in [1 .. 0 -> {}]
    BY <2>4 DEF createChunks
  <2> QED
    BY <1>3, <2>5
<1>7. LinkTypes'
  BY <1>1, <1>3, <1>4, <1>6, ReaderKept DEF LinkTypes
<1>8. AtEnd(g)'
  BY <1>1, <1>3, <1>4, <1>5 DEF AtEnd, Agreed
<1>9. HeadersCarried(g)'
  <2>1. ASSUME NEW c \in ChunkStreams, writeStreamStates'[c].length # 0
        PROVE  writeStreamStates'[c] = writeStreamStates[c]
    BY <1>3, <2>1
  <2> QED
    BY <1>1, <1>4, <1>5, <2>1, SMTT(20) DEF HeadersCarried, Holds
<1>10. Described(g)' /\ Numbered(g)' /\ CutLast' /\ Faithful'
  BY <1>1, <1>3, <1>4, <1>5, <1>6 DEF Described, Numbered, CutLast, Faithful
<1> QED
  BY <1>1, <1>4, <1>7, <1>8, <1>9, <1>10, ReaderKept DEF LinkInv

\* A message's chunks extend the pedigree by their origins.
LEMMA DataWritten ==
  ASSUME NEW g \in Seq(Origin), LinkInv(g), ~broken, announcing = NoSize,
         NEW m \in ByteMessage, m.data # << >>, Len(m.data) < U24,
         m.type = MessageTypeSetChunkSize => \E z \in Sizes : m = SetChunkSizeMessage(z),
         BeginWrite(m), ~LongDelta(m),
         nextWriteChunkID' \in 2 .. LastAutoID,
         announcing' \in Sizes \cup {NoSize},
         sent' = Append(sent, m),
         UNCHANGED <<readerVars, wire, broken, garbled>>,
         Agreed' = IF m.type = MessageTypeSetChunkSize
                   THEN NewSize(BigEndian(m.data), writeChunkSize) ELSE writeChunkSize
  PROVE  \E h \in Seq(Origin) : LinkInv(h)'
<1>1. /\ LinkTypes /\ ~garbled /\ Chained(g) /\ Described(g) /\ Numbered(g)
      /\ AtEnd(g) /\ AtStart(g) /\ CutLast /\ HeadersCarried(g) /\ Faithful
  BY DEF LinkInv
<1>2. /\ outq = << >> /\ outq' = createChunks(m) /\ writeChunkSize' = writeChunkSize
      /\ m.csid \in ChunkStreams /\ m.data \in Seq(Byte) /\ Len(m.data) \in Nat
      /\ writeStreamStates' \in [ChunkStreams -> ChunkState]
      /\ writeStreamStates'[m.csid].length = Len(m.data)
      /\ InheritedState(writeStreamStates'[m.csid]) = Inherited(m)
      /\ \A c \in ChunkStreams : c # m.csid => writeStreamStates'[c] = writeStreamStates[c]
  BY <1>1, Begun
<1>3. /\ wire' = wire /\ broken' = broken /\ garbled' = garbled /\ UNCHANGED readerVars
      /\ readChunkSize' = readChunkSize /\ readStreamStates' = readStreamStates
      /\ received' = received
  BY DEF readerVars
<1>4. PICK s \in 1 .. MaxChunkSize : s = writeChunkSize
  BY <1>1 DEF LinkTypes
<1>5. PICK n \in Nat \ {0} : n = Len(sent) + 1
  <2>1. sent \in Seq(ByteMessage)
    BY <1>1 DEF LinkTypes
  <2>2. Len(sent) \in Nat
    BY <2>1
  <2>3. Len(sent) + 1 \in Nat \ {0}
    BY <2>2
  <2> QED
    BY <2>3
<1>6. PICK st \in ChunkState : st = writeStreamStates[m.csid]
  BY <1>1, <1>2 DEF LinkTypes
<1>7. PICK f \in 0 .. 2 : f = FirstFormat(m, st)
  BY DEF FirstFormat
<1>8. PICK t \in 0 .. U32 - 1 : t = FirstStamp(m, st)
  <2>1. m.timestamp \in 0 .. U32 - 1 /\ st.timestamp \in 0 .. U32 - 1
    BY DEF ByteMessage, ChunkState
  <2>2. (m.timestamp - st.timestamp) % U32 \in 0 .. U32 - 1
    <3>1. m.timestamp - st.timestamp \in Int
      BY <2>1, WidthsAssumption
    <3> QED
      BY <3>1, ModRange, Zenon
  <2>3. 0 \in 0 .. U32 - 1
    BY WidthsAssumption
  <2>4. FirstStamp(m, st) \in 0 .. U32 - 1
    BY <2>1, <2>2, <2>3 DEF FirstStamp
  <2> QED
    BY <2>4
<1>9. f # 0 => t < ExtendedMark
  <2>1. CASE f = 1
    <3>1. ~(t >= ExtendedMark)
      BY <1>6, <1>7, <1>8, <2>1 DEF LongDelta
    <3> QED
      BY <3>1, WidthsAssumption DEF ExtendedMark
  <2>2. CASE f = 2
    <3>1. t = 0
      BY <1>7, <1>8, <2>2 DEF FirstStamp
    <3> QED
      BY <3>1, WidthsAssumption DEF ExtendedMark
  <2> QED
    BY <2>1, <2>2
<1>10. PICK k : k = (Len(m.data) + s - 1) \div s
  OBVIOUS
<1> DEFINE o == Origins(m, n, s, k, f, t)
           h == g \o o
           len == Len(g)
<1> HIDE DEF o
<1>11. /\ o \in Seq(Origin) /\ k \in Nat \ {0} /\ Len(o) = k
       /\ \A i \in 1 .. k : /\ o[i].m = m /\ o[i].n = n /\ o[i].size = s
                            /\ o[i].from = (i - 1) * s
                            /\ o[i].f = IF i = 1 THEN f ELSE 3
                            /\ o[i].t = IF i = 1 THEN t ELSE 0
                            /\ Final(o[i]) <=> i = k
       /\ o[1].from = 0
       /\ Chained(o)
  <2>1. OriginsOf(o, m, n, s, k, f, t)
    BY <1>4, <1>5, <1>7, <1>8, <1>9, <1>10, OriginsFacts, Zenon DEF o
  <2> QED
    BY <2>1, Zenon DEF OriginsOf
<1>12. ChunkCount(m) = k
  BY <1>4, <1>10 DEF ChunkCount
<1>13. /\ len \in Nat /\ h \in Seq(Origin) /\ Len(h) = len + k /\ h # << >>
       /\ \A i \in 1 .. len : h[i] = g[i]
       /\ \A i \in 1 .. k : h[len + i] = o[i]
  <2>1. k \in Nat \ {0}
    BY <1>11
  <2>2. o \in Seq(Origin) /\ Len(o) = k
    BY <1>11
  <2> QED
    BY <2>1, <2>2, SMTT(20)
<1>14. /\ len = Len(wire) /\ Len(wire) \in Nat /\ wire \in Seq(CutChunk)
  <2>1. wire \in Seq(CutChunk)
    BY <1>1 DEF LinkTypes
  <2> QED
    BY <1>1, <1>2, <2>1 DEF Described
<1> HIDE DEF h, len
<1>15. /\ k \in Nat \ {0} /\ 1 \in 1 .. k /\ k \in 1 .. k
       /\ \A i \in 1 .. k : /\ o[i].m = m /\ o[i].n = n /\ o[i].size = s
                            /\ o[i].f = IF i = 1 THEN f ELSE 3
                            /\ Final(o[i]) <=> i = k
       /\ o[1].from = 0
  <2>1. k \in Nat \ {0}
    BY <1>11, Zenon
  <2>2. 1 \in 1 .. k /\ k \in 1 .. k
    BY <2>1
  <2> QED
    BY <1>11, <2>1, <2>2, Zenon
<1>16. ASSUME NEW i \in 1 .. k
       PROVE  /\ outq'[i] \in Chunk
              /\ outq'[i].header = HeaderOf(o[i]) /\ outq'[i].data = DataOf(o[i])
  <2>1. outq'[i] = [header |-> IF i = 1 THEN createMessageHeader(f, t, m)
                               ELSE createMessageHeader(3, 0, m),
                    data |-> ChunkBytes(m, i)]
    BY <1>2, <1>6, <1>7, <1>8, <1>12 DEF createChunks
  <2>2. outq'[i].header = HeaderOf(o[i])
    BY <1>11, <2>1 DEF HeaderOf
  <2>3. ChunkBytes(m, i) = DataOf(o[i])
    <3>1. i \in Nat /\ s \in Nat
      BY WidthsAssumption
    <3>2. (i - 1) * s + s = i * s
      BY <3>1
    <3>3. DataOf(o[i]) = SubSeq(m.data, (i - 1) * s + 1, Least((i - 1) * s + s, Len(m.data)))
      <4>1. o[i].m = m /\ o[i].size = s /\ o[i].from = (i - 1) * s
        BY <1>11, Zenon
      <4> QED
        BY <4>1, Zenon DEF DataOf, Slice
    <3> QED
      BY <1>4, <3>2, <3>3, Zenon DEF ChunkBytes
  <2>4. o[i] \in Origin
    <3>1. o \in Seq(Origin) /\ Len(o) = k
      BY <1>11, Zenon
    <3> QED
      BY <3>1
  <2>5. HeaderOf(o[i]) \in Header /\ DataOf(o[i]) \in Seq(Byte)
    BY <2>4, HeaderFacts, DataFacts
  <2>6. outq'[i].data = DataOf(o[i])
    BY <2>1, <2>3
  <2>7. outq'[i] = [header |-> HeaderOf(o[i]), data |-> DataOf(o[i])]
    BY <2>1, <2>2, <2>3
  <2> QED
    BY <2>2, <2>5, <2>6, <2>7 DEF Chunk
<1>17. outq' \in Seq(Chunk) /\ Len(outq') = k
  <2>1. outq' = [i \in 1 .. k |-> outq'[i]]
    BY <1>2, <1>12 DEF createChunks
  <2>2. outq' \in [1 .. k -> Chunk]
    BY <1>16, <2>1
  <2>3. k \in Nat
    BY <1>15
  <2> QED
    BY <2>2, <2>3, FunctionIsSeq, Zenon
<1>18. ASSUME NEW i \in len + 1 .. len + k
       PROVE  i - len \in 1 .. k /\ h[i] = o[i - len] /\ h[i].m = m /\ h[i].n = n
  <2>1. i - len \in 1 .. k /\ i = len + (i - len)
    BY <1>13, <1>15
  <2>2. h[i] = o[i - len]
    BY <1>13, <2>1, Zenon
  <2> QED
    BY <1>15, <2>1, <2>2
<1>19. LinkTypes'
  <2>1. sent \in Seq(ByteMessage)
    BY <1>1 DEF LinkTypes
  <2>2. sent' \in Seq(ByteMessage)
    BY <2>1
  <2> QED
    BY <1>1, <1>2, <1>3, <1>17, <2>2, ReaderKept DEF LinkTypes
<1>20. ASSUME NEW i \in 1 .. len + k
       PROVE  i \in 1 .. len \/ i \in len + 1 .. len + k
  BY <1>13, <1>15
<1>21. h[Len(h)] = o[k] /\ Len(h) \in len + 1 .. len + k
  BY <1>13, <1>15
<1>22. Chained(h)
  <2>1. ASSUME NEW i \in 1 .. Len(h) - 1
        PROVE  Follows(h[i], h[i + 1])
    <3>1. CASE i \in 1 .. len - 1
      <4>1. i \in 1 .. len /\ i + 1 \in 1 .. len
        BY <1>13, <3>1
      <4> QED
        BY <1>1, <1>13, <3>1, <4>1 DEF Chained, len
    <3>2. CASE i = len
      <4>1. /\ h[i] = g[Len(g)] /\ g # << >>
            /\ h[i + 1] = o[1]
        BY <1>13, <1>15, <3>2 DEF len
      <4>2. Final(g[Len(g)]) /\ SizeAfter(g[Len(g)]) = Agreed /\ g[Len(g)].n = Len(sent)
        BY <1>1, <4>1 DEF AtEnd, Numbered
      <4>3. Agreed = s
        BY <1>4 DEF Agreed, NewSize, NoSize
      <4> QED
        BY <1>5, <1>15, <4>1, <4>2, <4>3 DEF Follows
    <3>3. CASE i \in len + 1 .. len + k - 1
      <4>1. /\ i - len \in 1 .. k - 1 /\ i \in len + 1 .. len + k
            /\ i + 1 \in len + 1 .. len + k /\ (i + 1) - len = (i - len) + 1
        BY <1>13, <1>15, <3>3
      <4>2. h[i] = o[i - len] /\ h[i + 1] = o[(i - len) + 1]
        BY <1>18, <4>1
      <4>3. Len(o) = k /\ Chained(o)
        BY <1>11, Zenon
      <4> QED
        BY <4>1, <4>2, <4>3 DEF Chained
    <3> QED
      BY <1>13, <1>15, <2>1, <3>1, <3>2, <3>3
  <2> QED
    BY <2>1 DEF Chained
<1>23. Described(h)'
  <2>1. Len(h) = Len(wire') + Len(outq')
    BY <1>3, <1>13, <1>14, <1>17
  <2>2. ASSUME NEW i \in 1 .. Len(wire')
        PROVE  /\ wire'[i].header = HeaderOf(h[i])
               /\ ~wire'[i].cut => wire'[i].data = DataOf(h[i])
    BY <1>1, <1>3, <1>13, <1>14 DEF Described
  <2>3. ASSUME NEW i \in 1 .. Len(outq')
        PROVE  /\ outq'[i].header = HeaderOf(h[Len(wire') + i])
               /\ outq'[i].data = DataOf(h[Len(wire') + i])
    <3>1. i \in 1 .. k /\ Len(wire') = len
      BY <1>3, <1>14, <1>17
    <3>2. h[Len(wire') + i] = o[i]
      BY <1>13, <3>1
    <3> QED
      BY <1>16, <3>1, <3>2
  <2> QED
    BY <2>1, <2>2, <2>3 DEF Described
<1>24. /\ Len(sent') = n /\ sent'[n] = m
       /\ \A i \in 1 .. Len(sent) : i \in 1 .. n /\ sent'[i] = sent[i]
  <2>1. sent \in Seq(ByteMessage)
    BY <1>1 DEF LinkTypes
  <2> QED
    BY <1>5, <2>1
<1>25. Numbered(h)'
  <2>1. ASSUME NEW i \in 1 .. Len(h)
        PROVE  h[i].n \in 1 .. Len(sent') /\ sent'[h[i].n] = h[i].m
    <3>1. CASE i \in 1 .. len
      BY <1>1, <1>13, <1>24, <3>1, SMTT(20) DEF Numbered, len
    <3>2. CASE i \in len + 1 .. len + k
      BY <1>5, <1>18, <1>24, <3>2
    <3> QED
      BY <1>13, <1>20, <3>1, <3>2
  <2>2. ASSUME NEW i \in Len(wire') + 1 .. Len(h)
        PROVE  h[i].n = Len(sent')
    BY <1>3, <1>13, <1>14, <1>18, <1>24
  <2>3. h[Len(h)].n = Len(sent')
    BY <1>15, <1>21, <1>24
  <2> QED
    BY <2>1, <2>2, <2>3 DEF Numbered
<1>26. AtEnd(h)'
  <2>1. Final(h[Len(h)])
    BY <1>15, <1>21
  <2>2. SizeAfter(h[Len(h)]) = Agreed'
    BY <1>4, <1>15, <1>21 DEF SizeAfter
  <2> QED
    BY <1>13, <2>1, <2>2 DEF AtEnd
<1>27. AtStart(h)'
  <2>1. CASE g = << >>
    <3>1. len = 0
      BY <2>1 DEF len
    <3>2. h[1] = o[1]
      BY <1>13, <1>15, <3>1
    <3>3. /\ Len(sent) = Len(received) /\ readChunkSize = s
          /\ DOMAIN incompleteMessages = {}
      BY <1>1, <1>4, <2>1 DEF AtEnd, AtStart, Agreed, NewSize, NoSize
    <3> QED
      BY <1>3, <1>5, <1>13, <1>15, <3>2, <3>3 DEF AtStart, readerVars
  <2>2. CASE g # << >>
    <3>1. h[1] = g[1]
      BY <1>13, <2>2 DEF len
    <3>2. AtStart(g)'
      BY <1>1, ReaderKept
    <3> QED
      BY <1>13, <2>2, <3>1, <3>2 DEF AtStart
  <2> QED
    BY <2>1, <2>2
<1>28. CutLast'
  BY <1>1, <1>3 DEF CutLast
<1>29. HeadersCarried(h)'
  <2>1. ASSUME NEW i \in 1 .. Len(h), h[i].f \in {1, 2}
        PROVE  Holds(h, i - 1, h[i].m.csid, Inherited(h[i].m))'
    <3>1. CASE i \in 1 .. len
      <4>1. i - 1 \in Nat /\ h[i] = g[i] /\ i \in 1 .. Len(g)
        BY <1>13, <3>1 DEF len
      <4>2. \A j \in 1 .. i - 1 : h[j] = g[j]
        <5>1. \A j \in 1 .. i - 1 : j \in 1 .. len
          BY <1>13, <3>1
        <5> QED
          BY <1>13, <5>1
      <4>3. Holds(g, i - 1, h[i].m.csid, Inherited(h[i].m))
        BY <1>1, <2>1, <4>1 DEF HeadersCarried
      <4> QED
        BY <1>3, <4>1, <4>2, <4>3, HoldsSame
    <3>2. CASE i \in len + 1 .. len + k
      <4>1. i - len \in 1 .. k /\ h[i] = o[i - len] /\ h[i].m = m
        BY <1>18, <3>2
      <4>2. i - len = 1 /\ f # 0
        BY <1>15, <2>1, <4>1, SMTT(20)
      <4>3. /\ st.msid = m.msid /\ st.length = Len(m.data) /\ st.type = m.type
        BY <1>7, <4>2 DEF FirstFormat
      <4>4. Len(m.data) # 0
        BY <1>2
      <4>5. Holds(g, Len(g), m.csid, Inherited(m))
        <5>1. InheritedState(writeStreamStates[m.csid]) = Inherited(m)
          BY <1>6, <4>3 DEF InheritedState, Inherited
        <5>2. writeStreamStates[m.csid].length # 0
          BY <1>6, <4>3, <4>4
        <5> QED
          BY <1>1, <1>2, <5>1, <5>2 DEF HeadersCarried
      <4>6. i - 1 = Len(g) /\ Len(g) \in Nat /\ \A j \in 1 .. Len(g) : h[j] = g[j]
        BY <1>13, <4>1, <4>2, <3>2 DEF len
      <4>7. Holds(h, Len(g), m.csid, Inherited(m))'
        BY <1>3, <4>5, <4>6, HoldsSame
      <4> QED
        BY <4>1, <4>6, <4>7
    <3> QED
      BY <1>13, <1>20, <3>1, <3>2
  <2>2. ASSUME NEW c \in ChunkStreams, writeStreamStates'[c].length # 0
        PROVE  Holds(h, Len(h), c, InheritedState(writeStreamStates[c]))'
    <3>1. CASE c = m.csid
      <4>1. InheritedState(writeStreamStates'[c]) = Inherited(m)
        BY <1>2, <3>1
      <4>2. Len(h) \in 1 .. Len(h) /\ h[Len(h)].m = m /\ Len(h) \in Nat
        BY <1>13, <1>15, <1>21
      <4>3. ASSUME NEW j \in 1 .. Len(h), h[j].m.csid = c,
                   \A l \in j + 1 .. Len(h) : h[l].m.csid # c
            PROVE  Inherited(h[j].m) = Inherited(m)
        <5>1. j = Len(h) \/ Len(h) \in j + 1 .. Len(h)
          BY <4>2
        <5> QED
          BY <3>1, <4>2, <4>3, <5>1
      <4>4. ~ \A j \in 1 .. Len(h) : h[j].m.csid # c
        BY <3>1, <4>2
      <4> QED
        BY <4>1, <4>3, <4>4 DEF Holds
    <3>2. CASE c # m.csid
      <4>1. PICK x : x = InheritedState(writeStreamStates[c])
        OBVIOUS
      <4>2. x = InheritedState(writeStreamStates'[c]) /\ writeStreamStates[c].length # 0
        BY <1>2, <2>2, <3>2, <4>1
      <4>3. Holds(g, len, c, x)
        BY <1>1, <4>1, <4>2 DEF HeadersCarried, len
      <4>4. Len(h) \in Nat /\ len <= Len(h)
        BY <1>13, <1>15
      <4>5. \A j \in len + 1 .. Len(h) : h[j].m.csid # c
        BY <1>13, <1>18, <3>2
      <4>6. Holds(h, Len(h), c, x)'
        BY <1>3, <1>13, <4>3, <4>4, <4>5, HoldsAppend
      <4> QED
        BY <4>2, <4>6 DEF Holds
    <3> QED
      BY <3>1, <3>2
  <2> QED
    BY <2>1, <2>2 DEF HeadersCarried
<1>30. Faithful'
  <2>1. Len(received) \in Nat /\ Len(sent) \in Nat
    <3>1. received \in Seq(Message) /\ sent \in Seq(ByteMessage)
      BY <1>1 DEF LinkTypes, ReaderInv, ReaderTypeOK
    <3> QED
      BY <3>1
  <2>2. ASSUME NEW i \in 1 .. Len(received)
        PROVE  i \in 1 .. Len(sent)
    BY <1>1, <2>1 DEF Faithful
  <2>3. Len(received) <= n
    BY <1>1, <1>5, <2>1 DEF Faithful
  <2> QED
    BY <1>1, <1>3, <1>24, <2>2, <2>3 DEF Faithful
<1>31. ~garbled'
  BY <1>1, <1>3
<1> QED
  BY <1>13, <1>19, <1>22, <1>23, <1>25, <1>26, <1>27, <1>28, <1>29, <1>30, <1>31
  DEF LinkInv

\* The message that WriteMessage writes for message x.
LEMMA AddressedFacts ==
  ASSUME LinkTypes, NEW x, x.csid \in ChunkStreams \cup {0},
         x = [csid |-> x.csid, msid |-> x.msid, timestamp |-> x.timestamp,
              type |-> x.type, data |-> x.data],
         x.msid \in 0 .. U32 - 1, x.timestamp \in 0 .. U32 - 1, x.type \in Byte,
         x.data \in Seq(Byte), WriteMessage(x)
  PROVE  /\ Addressed(x) \in ByteMessage
         /\ Addressed(x).data = x.data /\ Addressed(x).type = x.type
         /\ x.csid # 0 => Addressed(x) = x
         /\ BeginWrite(Addressed(x))
         /\ nextWriteChunkID' \in 2 .. LastAutoID
<1>1. nextWriteChunkID \in 2 .. LastAutoID /\ nextWriteChunkID \in ChunkStreams
  BY AutoIDAssumption DEF LinkTypes
<1>2. nextWriteChunkID' \in 2 .. LastAutoID
  <2>1. getNextChunkStreamID => nextWriteChunkID' \in 2 .. LastAutoID
    BY <1>1, AutoIDAssumption DEF getNextChunkStreamID
  <2> QED
    BY <1>1, <2>1 DEF WriteMessage
<1>3. Addressed(x) = [csid |-> IF x.csid = 0 THEN nextWriteChunkID ELSE x.csid,
                      msid |-> x.msid, timestamp |-> x.timestamp, type |-> x.type,
                      data |-> x.data]
  BY DEF Addressed
<1>4. (IF x.csid = 0 THEN nextWriteChunkID ELSE x.csid) \in ChunkStreams
  BY <1>1
<1>5. Addressed(x) \in ByteMessage /\ Addressed(x).data = x.data /\ Addressed(x).type = x.type
  BY <1>3, <1>4 DEF ByteMessage
<1>6. x.csid # 0 => Addressed(x) = x
  BY DEF Addressed
<1> QED
  BY <1>2, <1>5, <1>6 DEF WriteMessage

\* An application's message.
LEMMA SendMessageInv ==
  ASSUME Steady, NEW g \in Seq(Origin), LinkInv(g), SendMessage
  PROVE  \E h \in Seq(Origin) : LinkInv(h)'
<1>1. PICK x \in Messages : Write(x)
  BY DEF SendMessage
<1>2. LinkTypes
  BY DEF LinkInv
<1>3. /\ x.csid \in ChunkStreams \cup {0} /\ x.msid \in 0 .. U32 - 1
      /\ x.timestamp \in 0 .. U32 - 1 /\ x.type \in Byte /\ x.type # MessageTypeSetChunkSize
      /\ x.data \in Seq(Byte) /\ Len(x.data) < U24
      /\ x = [csid |-> x.csid, msid |-> x.msid, timestamp |-> x.timestamp,
              type |-> x.type, data |-> x.data]
  BY LinkAssumption
<1>4. /\ announcing = NoSize /\ announcing' = announcing /\ ~broken /\ WriteMessage(x)
      /\ ~LongDelta(Addressed(x))
      /\ sent' = IF x.data = << >> THEN sent ELSE Append(sent, Addressed(x))
      /\ UNCHANGED <<readerVars, wire, broken, garbled>>
  BY <1>1 DEF SendMessage, Write
<1>5. PICK m : m = Addressed(x)
  OBVIOUS
<1>6. /\ m \in ByteMessage /\ m.data = x.data /\ m.type = x.type
      /\ BeginWrite(m) /\ nextWriteChunkID' \in 2 .. LastAutoID
  BY <1>2, <1>3, <1>4, <1>5, AddressedFacts
<1>7. CASE m.data = << >>
  BY <1>4, <1>6, <1>7, EmptyWritten
<1>8. CASE m.data # << >>
  <2>1. writeChunkSize' = writeChunkSize
    BY <1>6 DEF BeginWrite
  <2>2. Agreed' = IF m.type = MessageTypeSetChunkSize
                  THEN NewSize(BigEndian(m.data), writeChunkSize) ELSE writeChunkSize
    BY <1>3, <1>4, <1>6, <2>1 DEF Agreed, NewSize, NoSize
  <2>3. announcing' \in Sizes \cup {NoSize} /\ sent' = Append(sent, m) /\ ~LongDelta(m)
    BY <1>4, <1>5, <1>6, <1>8
  <2> QED
    BY <1>3, <1>4, <1>6, <1>8, <2>2, <2>3, DataWritten
<1> QED
  BY <1>7, <1>8

\* A SetChunkSize message: the size is agreed upon from here on.
LEMMA AnnounceChunkSizeInv ==
  ASSUME Steady, NEW g \in Seq(Origin), LinkInv(g), AnnounceChunkSize
  PROVE  \E h \in Seq(Origin) : LinkInv(h)'
<1>1. PICK size \in Sizes : Write(SetChunkSizeMessage(size)) /\ announcing' = size
  BY DEF AnnounceChunkSize
<1>2. PICK m : m = SetChunkSizeMessage(size)
  OBVIOUS
<1>3. LinkTypes
  BY DEF LinkInv
<1>4. /\ size \in Nat /\ m.data \in Seq(Byte) /\ Len(m.data) = 4 /\ BigEndian(m.data) = size
  BY <1>2, LinkAssumption, SizeBytes, ZenonT(30)
<1>5. /\ m.csid = 2 /\ m.msid = 0 /\ m.timestamp = 0 /\ m.type = MessageTypeSetChunkSize
      /\ m = [csid |-> m.csid, msid |-> m.msid, timestamp |-> m.timestamp,
              type |-> m.type, data |-> m.data]
  BY <1>2 DEF SetChunkSizeMessage
<1>6. /\ m.csid \in ChunkStreams \cup {0} /\ m.csid # 0
      /\ m.msid \in 0 .. U32 - 1 /\ m.timestamp \in 0 .. U32 - 1 /\ m.type \in Byte
  BY <1>5, LinkAssumption, WidthsAssumption DEF Byte, MessageTypeSetChunkSize
<1>7. m.data # << >> /\ Len(m.data) < U24
  <2>1. 4 < U24
    BY LinkAssumption, Zenon
  <2>2. Len(m.data) < U24
    BY <1>4, <2>1, Zenon
  <2>3. m.data # << >>
    <3>1. Len(m.data) = 4
      BY <1>4, Zenon
    <3>2. Len(<< >>) # 4
      OBVIOUS
    <3> QED
      BY <3>1, <3>2, Zenon
  <2> QED
    BY <2>2, <2>3
<1>8. /\ announcing = NoSize /\ ~broken /\ WriteMessage(m)
      /\ ~LongDelta(Addressed(m))
      /\ sent' = Append(sent, Addressed(m))
      /\ UNCHANGED <<readerVars, wire, broken, garbled>>
  BY <1>1, <1>2, <1>7 DEF AnnounceChunkSize, Write
<1>9. /\ Addressed(m) = m /\ m \in ByteMessage /\ BeginWrite(m)
      /\ nextWriteChunkID' \in 2 .. LastAutoID
  BY <1>3, <1>4, <1>5, <1>6, <1>8, AddressedFacts
<1>10. writeChunkSize' = writeChunkSize
  BY <1>9 DEF BeginWrite
<1>11. Agreed' = NewSize(BigEndian(m.data), writeChunkSize)
  BY <1>1, <1>4, <1>10 DEF Agreed
<1>12. /\ announcing' \in Sizes \cup {NoSize} /\ sent' = Append(sent, m) /\ ~LongDelta(m)
       /\ \E z \in Sizes : m = SetChunkSizeMessage(z)
  BY <1>1, <1>2, <1>8, <1>9
<1> QED
  BY <1>5, <1>7, <1>8, <1>9, <1>11, <1>12, DataWritten

----------------------------------------------------------------------------
(* The theorems.                                                           *)

\* At the start no chunk is in flight, and the pedigree is empty.
LEMMA LinkInitInv ==
  ASSUME Init
  PROVE  << >> \in Seq(Origin) /\ LinkInv(<< >>)
<1>1. /\ WriterInit(InitialSize) /\ ReaderInit(InitialSize)
      /\ wire = << >> /\ broken = FALSE /\ garbled = FALSE /\ announcing = NoSize
      /\ sent = << >>
  BY DEF Init
<1>2. InitialSize \in 1 .. MaxChunkSize
  BY LinkAssumption, Zenon
<1>3. ReaderInv
  BY <1>1, <1>2, ReaderInitInv
<1>4. /\ writeChunkSize = InitialSize /\ nextWriteChunkID = 2 /\ outq = << >>
      /\ writeStreamStates = [c \in ChunkStreams |-> NewChunkState]
  BY <1>1 DEF WriterInit
<1>5. /\ readChunkSize = InitialSize /\ incompleteMessages = << >> /\ received = << >>
      /\ DOMAIN incompleteMessages = {}
  BY <1>1 DEF ReaderInit
<1>6. NewChunkState \in ChunkState
  BY WidthsAssumption DEF NewChunkState, ChunkState, Byte
<1>7. 2 \in 2 .. LastAutoID
  BY AutoIDAssumption
<1>8. LinkTypes
  <2>1. outq \in Seq(Chunk) /\ wire \in Seq(CutChunk) /\ sent \in Seq(ByteMessage)
    BY <1>1, <1>4
  <2>2. broken \in BOOLEAN /\ garbled \in BOOLEAN /\ announcing \in Sizes \cup {NoSize}
    BY <1>1
  <2>3. writeStreamStates \in [ChunkStreams -> ChunkState]
    BY <1>4, <1>6
  <2>4. writeChunkSize \in 1 .. MaxChunkSize /\ nextWriteChunkID \in 2 .. LastAutoID
    BY <1>2, <1>4, <1>7, Zenon
  <2> QED
    BY <1>3, <2>1, <2>2, <2>3, <2>4, Zenon DEF LinkTypes
<1> DEFINE g == << >>
<1>9. g \in Seq(Origin) /\ Len(g) = 0
  OBVIOUS
<1>10. Chained(g) /\ Described(g) /\ Numbered(g) /\ CutLast /\ Faithful
  BY <1>1, <1>4, <1>5 DEF Chained, Described, Numbered, CutLast, Faithful
<1>11. AtEnd(g)
  BY <1>1, <1>4, <1>5 DEF AtEnd, Agreed, NewSize, NoSize
<1>12. AtStart(g)
  BY <1>5 DEF AtStart
<1>13. HeadersCarried(g)
  <2>1. \A c \in ChunkStreams : writeStreamStates[c].length = 0
    BY <1>4 DEF NewChunkState
  <2> QED
    BY <1>9, <2>1 DEF HeadersCarried
<1> QED
  BY <1>1, <1>8, <1>9, <1>10, <1>11, <1>12, <1>13 DEF LinkInv

\* A step that is none.
LEMMA StutterInv ==
  ASSUME NEW g \in Seq(Origin), LinkInv(g), UNCHANGED vars
  PROVE  LinkInv(g)'
<1>1. /\ LinkTypes /\ ~garbled /\ Chained(g) /\ Described(g) /\ Numbered(g)
      /\ AtEnd(g) /\ AtStart(g) /\ CutLast /\ HeadersCarried(g) /\ Faithful
  BY DEF LinkInv
<1>2. /\ writeChunkSize' = writeChunkSize /\ writeStreamStates' = writeStreamStates
      /\ nextWriteChunkID' = nextWriteChunkID /\ outq' = outq
      /\ UNCHANGED readerVars
      /\ wire' = wire /\ broken' = broken /\ garbled' = garbled
      /\ announcing' = announcing /\ sent' = sent
  BY DEF vars, writerVars, linkVars
<1>3. /\ readChunkSize' = readChunkSize /\ readStreamStates' = readStreamStates
      /\ received' = received
  BY <1>2 DEF readerVars
<1>4. LinkTypes'
  BY <1>1, <1>2, ReaderKept DEF LinkTypes
<1>5. AtEnd(g)' /\ HeadersCarried(g)'
  BY <1>1, <1>2, <1>3 DEF AtEnd, Agreed, HeadersCarried, Holds
<1>6. Described(g)' /\ Numbered(g)' /\ CutLast' /\ Faithful'
  BY <1>1, <1>2, <1>3 DEF Described, Numbered, CutLast, Faithful
<1> QED
  BY <1>1, <1>2, <1>4, <1>5, <1>6, ReaderKept DEF LinkInv

\* The invariant is inductive, if no timestamp step needs an extended one.
LEMMA StepInv ==
  ASSUME Steady, InStepInv, [LinkNext]_vars
  PROVE  InStepInv'
<1>1. PICK g \in Seq(Origin) : LinkInv(g)
  BY DEF InStepInv
<1>2. CASE SendMessage
  BY <1>1, <1>2, SendMessageInv DEF InStepInv
<1>3. CASE AnnounceChunkSize
  BY <1>1, <1>3, AnnounceChunkSizeInv DEF InStepInv
<1>4. CASE UseChunkSize
  BY <1>1, <1>4, UseChunkSizeInv DEF InStepInv
<1>5. CASE WriteChunk
  BY <1>1, <1>5, WriteChunkInv DEF InStepInv
<1>6. CASE WriteFails
  BY <1>1, <1>6, WriteFailsInv DEF InStepInv
<1>7. CASE Receive
  BY <1>1, <1>7, ReceiveInv DEF InStepInv
<1>8. CASE UNCHANGED vars
  BY <1>1, <1>8, StutterInv DEF InStepInv
<1> QED
  BY <1>2, <1>3, <1>4, <1>5, <1>6, <1>7, <1>8 DEF LinkNext

\* While a link runs there is always a pedigree for the chunks in flight.
THEOREM LinkInvariant ==
  ASSUME Steady
  PROVE  LinkSpec => []InStepInv
<1>1. Init => InStepInv
  BY LinkInitInv DEF InStepInv
<1>2. InStepInv /\ [LinkNext]_vars => InStepInv'
  BY StepInv
<1> QED
  BY <1>1, <1>2, PTL DEF LinkSpec

\* A message of bytes is a message.
LEMMA BytesAreMessages ==
  ByteMessage \subseteq Message /\ Seq(ByteMessage) \subseteq Seq(Message)
<1>1. Seq(Byte) \subseteq Seq(0 .. 256)
  BY DEF Byte
<1>2. ByteMessage \subseteq Message
  BY <1>1 DEF ByteMessage, Message
<1>3. ASSUME NEW s \in Seq(ByteMessage)
      PROVE  s \in Seq(Message)
  BY <1>2
<1> QED
  BY <1>2, <1>3

\* LinkTypeOK: the variables of both ends keep their Go types.
THEOREM LinkTypesKept ==
  ASSUME Steady
  PROVE  LinkSpec => []LinkTypeOK
<1>1. InStepInv => LinkTypeOK
  <2> SUFFICES ASSUME NEW g \in Seq(Origin), LinkInv(g)
               PROVE  LinkTypeOK
    BY DEF InStepInv
  <2>1. LinkTypes /\ ~garbled
    BY DEF LinkInv
  <2>2. sent \in Seq(Message)
    BY <2>1, BytesAreMessages DEF LinkTypes
  <2> QED
    BY <2>1, <2>2 DEF LinkTypes, LinkTypeOK, ReaderInv
<1> QED
  BY <1>1, LinkInvariant, PTL

\* Aligned: the reader of readMessageHeader and calculateChunkDataSize never
\* takes bytes of createChunks for what they are not.
THEOREM StaysAligned ==
  ASSUME Steady
  PROVE  LinkSpec => []Aligned
<1>1. InStepInv => Aligned
  BY DEF InStepInv, LinkInv, Aligned
<1> QED
  BY <1>1, LinkInvariant, PTL

\* Nothing in flight: there is only the empty pedigree.
LEMMA Idle ==
  ASSUME NEW g \in Seq(Origin), LinkInv(g), outq = << >>, wire = << >>
  PROVE  g = << >>
BY DEF LinkInv, Described

\* HeadersAgree: readStreamStates and writeStreamStates tell the same of every
\* chunk stream once all chunks have arrived.
THEOREM HeadersStayAgreed ==
  ASSUME Steady
  PROVE  LinkSpec => []HeadersAgree
<1>1. InStepInv => HeadersAgree
  <2> SUFFICES ASSUME NEW g \in Seq(Origin), LinkInv(g), outq = << >>, wire = << >>,
                      ~broken, NEW c \in ChunkStreams, writeStreamStates[c].length # 0
               PROVE  /\ readStreamStates[c].length = writeStreamStates[c].length
                      /\ readStreamStates[c].type = writeStreamStates[c].type
                      /\ readStreamStates[c].msid = writeStreamStates[c].msid
    BY DEF InStepInv, HeadersAgree
  <2>1. g = << >> /\ Len(g) = 0
    BY Idle
  <2>2. Holds(g, 0, c, InheritedState(writeStreamStates[c]))
    BY <2>1 DEF LinkInv, HeadersCarried
  <2>3. InheritedState(readStreamStates[c]) = InheritedState(writeStreamStates[c])
    BY <2>2 DEF Holds
  <2> QED
    BY <2>3 DEF InheritedState
<1> QED
  BY <1>1, LinkInvariant, PTL

\* SizesAgree: SetWriteChunkSize and the SetReadChunkSize of the message before
\* it leave both ends with one size.
THEOREM SizesStayAgreed ==
  ASSUME Steady
  PROVE  LinkSpec => []SizesAgree
<1>1. InStepInv => SizesAgree
  <2> SUFFICES ASSUME NEW g \in Seq(Origin), LinkInv(g), outq = << >>, wire = << >>,
                      ~broken, announcing = NoSize
               PROVE  readChunkSize = writeChunkSize
    BY DEF InStepInv, SizesAgree
  <2>1. g = << >>
    BY Idle
  <2>2. readChunkSize = Agreed
    BY <2>1 DEF LinkInv, AtEnd
  <2> QED
    BY <2>2 DEF Agreed, NewSize, NoSize
<1> QED
  BY <1>1, LinkInvariant, PTL

----------------------------------------------------------------------------
(* The link is a message queue.                                            *)

Payload == {Content(m) : m \in Message}

\* The contents of what comes after the first r of messages s.
Window(s, r) == [k \in 1 .. Len(s) - r |-> Content(s[r + k])]

\* A window's length and elements.
LEMMA WindowFacts ==
  ASSUME NEW s \in Seq(Message), NEW r \in Nat, r <= Len(s)
  PROVE  /\ Window(s, r) \in Seq(Payload) /\ Len(Window(s, r)) = Len(s) - r
         /\ \A k \in 1 .. Len(s) - r : Window(s, r)[k] = Content(s[r + k])
<1>1. Len(s) \in Nat /\ Len(s) - r \in Nat
  OBVIOUS
<1>2. ASSUME NEW k \in 1 .. Len(s) - r
      PROVE  Content(s[r + k]) \in Payload
  <2>1. r + k \in 1 .. Len(s)
    BY <1>1
  <2>2. s[r + k] \in Message
    BY <2>1
  <2> QED
    BY <2>2 DEF Payload
<1>3. Window(s, r) \in [1 .. Len(s) - r -> Payload]
  BY <1>2 DEF Window
<1>4. \A k \in 1 .. Len(s) - r : Window(s, r)[k] = Content(s[r + k])
  BY DEF Window
<1> QED
  BY <1>1, <1>3, <1>4, FunctionIsSeq, Zenon

\* A message more in the sequence is one more at the window's end.
LEMMA WindowAppend ==
  ASSUME NEW s \in Seq(Message), NEW r \in Nat, r <= Len(s), NEW m \in Message
  PROVE  Window(Append(s, m), r) = Append(Window(s, r), Content(m))
<1> DEFINE a == Append(s, m)
           u == Window(a, r)
           v == Append(Window(s, r), Content(m))
<1>1. /\ Len(s) \in Nat /\ a \in Seq(Message) /\ Len(a) = Len(s) + 1
      /\ \A k \in 1 .. Len(s) : a[k] = s[k]
      /\ a[Len(s) + 1] = m
  OBVIOUS
<1>2. Content(m) \in Payload
  BY DEF Payload
<1> HIDE DEF a
<1>3. r <= Len(a)
  BY <1>1
<1>4. /\ u \in Seq(Payload) /\ Len(u) = Len(a) - r
      /\ \A k \in 1 .. Len(a) - r : u[k] = Content(a[r + k])
  BY <1>1, <1>3, WindowFacts
<1>5. /\ Window(s, r) \in Seq(Payload) /\ Len(Window(s, r)) = Len(s) - r
      /\ \A k \in 1 .. Len(s) - r : Window(s, r)[k] = Content(s[r + k])
  BY WindowFacts
<1>6. /\ v \in Seq(Payload) /\ Len(v) = (Len(s) - r) + 1
      /\ \A k \in 1 .. Len(s) - r : v[k] = Window(s, r)[k]
      /\ v[(Len(s) - r) + 1] = Content(m)
  BY <1>1, <1>2, <1>5
<1> HIDE DEF u, v
<1>7. ASSUME NEW k \in 1 .. Len(u)
      PROVE  u[k] = v[k]
  <2>1. CASE k \in 1 .. Len(s) - r
    <3>1. r + k \in 1 .. Len(s) /\ k \in 1 .. Len(a) - r
      BY <1>1, <2>1
    <3> QED
      BY <1>1, <1>4, <1>5, <1>6, <2>1, <3>1, ZenonT(30)
  <2>2. CASE k = (Len(s) - r) + 1
    <3>1. r + k = Len(s) + 1 /\ k \in 1 .. Len(a) - r
      BY <1>1, <2>2
    <3> QED
      BY <1>1, <1>4, <1>6, <2>2, <3>1
  <2> QED
    BY <1>1, <1>4, <2>1, <2>2
<1>8. Len(u) = Len(v)
  BY <1>1, <1>4, <1>6
<1>9. u = v
  BY <1>4, <1>6, <1>7, <1>8, SameSequence
<1> QED
  BY <1>9 DEF a, u, v

\* A window that begins one later has lost its head.
LEMMA WindowTail ==
  ASSUME NEW s \in Seq(Message), NEW r \in Nat, r < Len(s)
  PROVE  /\ Window(s, r) # << >> /\ Head(Window(s, r)) = Content(s[r + 1])
         /\ Window(s, r + 1) = Tail(Window(s, r))
<1> DEFINE u == Window(s, r)
           v == Window(s, r + 1)
<1>1. Len(s) \in Nat /\ r + 1 \in Nat /\ r + 1 <= Len(s) /\ r <= Len(s)
  OBVIOUS
<1>2. /\ u \in Seq(Payload) /\ Len(u) = Len(s) - r
      /\ \A k \in 1 .. Len(s) - r : u[k] = Content(s[r + k])
  BY <1>1, WindowFacts
<1>3. /\ v \in Seq(Payload) /\ Len(v) = Len(s) - (r + 1)
      /\ \A k \in 1 .. Len(s) - (r + 1) : v[k] = Content(s[(r + 1) + k])
  BY <1>1, WindowFacts
<1> HIDE DEF u, v
<1>4. 1 \in 1 .. Len(s) - r /\ u # << >> /\ Head(u) = u[1]
  BY <1>1, <1>2
<1>5. /\ Tail(u) \in Seq(Payload) /\ Len(Tail(u)) = Len(u) - 1
      /\ \A k \in 1 .. Len(u) - 1 : Tail(u)[k] = u[k + 1]
  BY <1>2, <1>4
<1>6. ASSUME NEW k \in 1 .. Len(v)
      PROVE  v[k] = Tail(u)[k]
  <2>1. /\ k \in 1 .. Len(s) - (r + 1) /\ k \in 1 .. Len(u) - 1
        /\ k + 1 \in 1 .. Len(s) - r /\ r + (k + 1) = (r + 1) + k
    BY <1>1, <1>2, <1>3
  <2> QED
    BY <1>2, <1>3, <1>5, <2>1
<1>7. Len(v) = Len(Tail(u))
  BY <1>1, <1>2, <1>3, <1>5
<1>8. v = Tail(u)
  BY <1>3, <1>5, <1>6, <1>7, SameSequence
<1> QED
  BY <1>2, <1>4, <1>8 DEF u, v

\* A sequence that loses its last element makes its window lose it.
LEMMA WindowFront ==
  ASSUME NEW s \in Seq(Message), NEW r \in Nat, r < Len(s)
  PROVE  /\ Front(s) \in Seq(Message) /\ Len(Front(s)) = Len(s) - 1
         /\ \A k \in 1 .. Len(s) - 1 : Front(s)[k] = s[k]
         /\ Window(Front(s), r) = SubSeq(Window(s, r), 1, Len(Window(s, r)) - 1)
<1> DEFINE a == Front(s)
           w == Window(s, r)
           u == Window(a, r)
           v == SubSeq(w, 1, Len(w) - 1)
<1>1. /\ Len(s) \in Nat /\ a \in Seq(Message) /\ Len(a) = Len(s) - 1
      /\ \A k \in 1 .. Len(s) - 1 : a[k] = s[k]
  <2>1. Len(s) \in Nat /\ 1 <= Len(s)
    OBVIOUS
  <2>2. a = SubSeq(s, 1, Len(s) - 1)
    BY DEF Front
  <2>3. /\ SubSeq(s, 1, Len(s) - 1) \in Seq(Message)
        /\ Len(SubSeq(s, 1, Len(s) - 1)) = Len(s) - 1
        /\ \A k \in 1 .. Len(s) - 1 : SubSeq(s, 1, Len(s) - 1)[k] = s[k]
    <3>1. PICK n : n = Len(s) - 1
      OBVIOUS
    <3>2. n \in Nat /\ n <= Len(s)
      BY <2>1, <3>1
    <3>3. /\ SubSeq(s, 1, n) \in Seq(Message) /\ Len(SubSeq(s, 1, n)) = n
          /\ \A k \in 1 .. n : SubSeq(s, 1, n)[k] = s[k]
      BY <3>2
    <3> QED
      BY <3>1, <3>3, Zenon
  <2> QED
    BY <2>1, <2>2, <2>3, Zenon
<1> HIDE DEF a
<1>2. r <= Len(a) /\ r <= Len(s)
  BY <1>1
<1>3. /\ u \in Seq(Payload) /\ Len(u) = Len(a) - r
      /\ \A k \in 1 .. Len(a) - r : u[k] = Content(a[r + k])
  BY <1>1, <1>2, WindowFacts
<1>4. /\ w \in Seq(Payload) /\ Len(w) = Len(s) - r
      /\ \A k \in 1 .. Len(s) - r : w[k] = Content(s[r + k])
  BY <1>2, WindowFacts
<1> HIDE DEF u, w
<1>5. /\ v \in Seq(Payload) /\ Len(v) = (Len(s) - r) - 1
      /\ \A k \in 1 .. (Len(s) - r) - 1 : v[k] = w[k]
  BY <1>1, <1>2, <1>4
<1> HIDE DEF v
<1>6. ASSUME NEW k \in 1 .. Len(u)
      PROVE  u[k] = v[k]
  <2>1. /\ k \in 1 .. Len(a) - r /\ k \in 1 .. (Len(s) - r) - 1
        /\ k \in 1 .. Len(s) - r /\ r + k \in 1 .. Len(s) - 1
    BY <1>1, <1>3
  <2> QED
    BY <1>1, <1>3, <1>4, <1>5, <2>1
<1>7. Len(u) = Len(v)
  BY <1>1, <1>3, <1>5
<1>8. u = v
  BY <1>3, <1>5, <1>6, <1>7, SameSequence
<1> QED
  BY <1>1, <1>8 DEF a, u, v, w

\* There is no more received than is left to arrive; after a failure the
\* message it cut is still to come, and never does.
LEMMA Room ==
  ASSUME NEW g \in Seq(Origin), LinkInv(g)
  PROVE  /\ sent \in Seq(Message) /\ received \in Seq(Message) /\ broken \in BOOLEAN
         /\ Len(received) \in Nat /\ Len(sent) \in Nat /\ Len(received) <= Len(sent)
         /\ g # << >> => g[1].n = Len(received) + 1 /\ Len(received) < Len(sent)
         /\ Arriving \in Seq(Message) /\ Len(received) <= Len(Arriving)
<1>1. LinkTypes /\ AtStart(g) /\ Numbered(g) /\ Described(g) /\ CutLast /\ Faithful
  BY DEF LinkInv
<1>2. /\ sent \in Seq(Message) /\ received \in Seq(Message) /\ broken \in BOOLEAN
      /\ Len(received) \in Nat /\ Len(sent) \in Nat /\ Len(received) <= Len(sent)
  <2>1. /\ sent \in Seq(Message) /\ received \in Seq(Message) /\ broken \in BOOLEAN
    BY <1>1, BytesAreMessages DEF LinkTypes, ReaderInv, ReaderTypeOK
  <2>2. Len(received) <= Len(sent)
    BY <1>1 DEF Faithful
  <2> QED
    BY <2>1, <2>2
<1>3. ASSUME g # << >>
      PROVE  g[1].n = Len(received) + 1 /\ Len(received) < Len(sent)
  <2>1. 1 \in 1 .. Len(g)
    BY <1>3
  <2>2. g[1].n = Len(received) + 1 /\ g[1].n \in 1 .. Len(sent)
    BY <1>1, <1>3, <2>1 DEF AtStart, Numbered
  <2> QED
    BY <1>2, <2>2
<1>4. CASE broken
  <2>1. g # << >>
    <3>1. wire # << >> /\ outq = << >> /\ wire \in Seq(CutChunk) /\ Len(g) = Len(wire) + Len(outq)
      BY <1>1, <1>4 DEF CutLast, LinkTypes, Described
    <3> QED
      BY <3>1
  <2>2. Len(received) < Len(sent)
    BY <1>3, <2>1
  <2>3. Front(sent) \in Seq(Message) /\ Len(Front(sent)) = Len(sent) - 1
    BY <1>2, <2>2, WindowFront
  <2>4. Arriving = Front(sent)
    BY <1>4 DEF Arriving
  <2> QED
    BY <1>2, <1>3, <2>2, <2>3, <2>4
<1>5. CASE ~broken
  <2>1. Arriving = sent
    BY <1>5 DEF Arriving
  <2> QED
    BY <1>2, <1>3, <2>1
<1> QED
  BY <1>2, <1>4, <1>5

\* A message written joins the queue.
LEMMA MapsToSend ==
  ASSUME NEW g \in Seq(Origin), LinkInv(g), NEW m \in Sendable, m \in ByteMessage,
         ~broken, broken' = broken, received' = received, sent' = Append(sent, m)
  PROVE  Fifo!Send
<1>1. /\ sent \in Seq(Message) /\ Len(received) \in Nat /\ Len(received) <= Len(sent)
      /\ m \in Message
  BY Room, BytesAreMessages
<1>2. Arriving = sent /\ Arriving' = Append(sent, m)
  BY DEF Arriving
<1>3. Window(Append(sent, m), Len(received)) = Append(Window(sent, Len(received)), Content(m))
  BY <1>1, WindowAppend
<1>4. Window(Arriving, Len(received))' = Append(Window(Arriving, Len(received)), Content(m))
  BY <1>2, <1>3 DEF Window
<1> QED
  BY <1>4 DEF Fifo!Send, Window

\* A failed write takes the last message out of the queue and closes it.
LEMMA MapsToBreak ==
  ASSUME NEW g \in Seq(Origin), LinkInv(g), WriteFails
  PROVE  Fifo!Break
<1>1. /\ outq # << >> /\ broken' = TRUE /\ sent' = sent /\ received' = received
  BY DEF WriteFails, readerVars
<1>2. LinkTypes /\ Described(g) /\ CutLast
  BY DEF LinkInv
<1>3. ~broken /\ g # << >>
  <2>1. outq \in Seq(Chunk) /\ wire \in Seq(CutChunk) /\ Len(g) = Len(wire) + Len(outq)
    BY <1>2 DEF LinkTypes, Described
  <2> QED
    BY <1>1, <1>2, <2>1 DEF CutLast
<1>4. /\ sent \in Seq(Message) /\ Len(received) \in Nat /\ Len(received) < Len(sent)
  BY <1>3, Room
<1>5. Arriving = sent /\ Arriving' = Front(sent)
  BY <1>1, <1>3 DEF Arriving
<1>6. Window(Front(sent), Len(received)) =
        SubSeq(Window(sent, Len(received)), 1, Len(Window(sent, Len(received))) - 1)
  BY <1>4, WindowFront
<1>7. Window(sent, Len(received)) # << >>
  BY <1>4, WindowTail
<1>8. /\ Window(Arriving, Len(received)) # << >>
      /\ Window(Arriving, Len(received))' =
           SubSeq(Window(Arriving, Len(received)), 1, Len(Window(Arriving, Len(received))) - 1)
  BY <1>1, <1>5, <1>6, <1>7 DEF Window
<1> QED
  BY <1>1, <1>3, <1>8 DEF Fifo!Break, Window

\* A chunk received delivers the first message of the queue if it is the last
\* of the message, and is not seen otherwise.
LEMMA MapsToDeliver ==
  ASSUME NEW g \in Seq(Origin), LinkInv(g), Receive
  PROVE  Fifo!Deliver \/ UNCHANGED <<received, sent, broken>>
<1> DEFINE r == Len(received)
<1>1. /\ LinkTypes /\ ~garbled /\ Chained(g) /\ Described(g) /\ Numbered(g)
      /\ AtStart(g) /\ CutLast /\ HeadersCarried(g)
  BY DEF LinkInv
<1>2. /\ wire \in Seq(CutChunk) /\ outq \in Seq(Chunk)
  BY <1>1 DEF LinkTypes
<1>3. /\ wire # << >> /\ ~wire[1].cut /\ Head(wire) = wire[1]
      /\ UNCHANGED <<writerVars, broken, announcing, sent>>
  BY <1>2 DEF Receive
<1>4. /\ Len(wire) \in Nat \ {0} /\ Len(outq) \in Nat
      /\ Len(g) = Len(wire) + Len(outq) /\ g # << >> /\ 1 \in 1 .. Len(wire)
      /\ 1 \in 1 .. Len(g)
  BY <1>1, <1>2, <1>3 DEF Described
<1>5. wire[1].header = HeaderOf(g[1]) /\ wire[1].data = DataOf(g[1])
  BY <1>1, <1>3, <1>4 DEF Described
<1>6. ReadChunk(Decoded(HeaderOf(g[1])), DataOf(g[1]))
  <2>1. InStep(wire[1])
    BY <1>1, <1>4, <1>5, TakesChunk
  <2> QED
    BY <1>3, <1>5, <2>1 DEF Receive
<1>7. /\ Final(g[1]) => \E msg \in Message :
           received' = Append(received, msg) /\ Content(msg) = Content(g[1].m)
      /\ ~Final(g[1]) => received' = received
  BY <1>1, <1>4, <1>6, ChunkTaken
<1>8. CASE ~Final(g[1])
  BY <1>3, <1>7, <1>8
<1>9. CASE Final(g[1])
  <2>1. PICK msg \in Message :
          received' = Append(received, msg) /\ Content(msg) = Content(g[1].m)
    BY <1>7, <1>9
  <2>2. /\ sent \in Seq(Message) /\ received \in Seq(Message) /\ broken \in BOOLEAN
        /\ r \in Nat /\ Len(sent) \in Nat
        /\ g[1].n = r + 1 /\ r < Len(sent)
        /\ Arriving \in Seq(Message)
    BY <1>4, Room
  <2>3. sent[r + 1] = g[1].m
    BY <1>1, <1>4, <2>2 DEF Numbered
  <2>4. r < Len(Arriving) /\ Arriving[r + 1] = sent[r + 1]
    <3>1. CASE ~broken
      BY <2>2, <3>1 DEF Arriving
    <3>2. CASE broken
      <4>1. Len(wire) # 1
        BY <1>1, <1>3, <3>2 DEF CutLast
      <4>2. 1 \in 1 .. Len(g) - 1 /\ 1 + 1 = 2 /\ 2 \in 1 .. Len(g)
        <5>1. \A a \in Nat \ {0}, b \in Nat :
                a # 1 => 1 \in 1 .. (a + b) - 1 /\ 1 + 1 = 2 /\ 2 \in 1 .. a + b
          OBVIOUS
        <5> QED
          BY <1>4, <4>1, <5>1, Zenon
      <4>3. g[2].n = g[1].n + 1
        BY <1>1, <1>9, <4>2 DEF Chained, Follows
      <4>4. g[2].n \in 1 .. Len(sent)
        BY <1>1, <4>2 DEF Numbered
      <4>5. r + 1 <= Len(sent) - 1
        BY <2>2, <4>3, <4>4
      <4>6. /\ Len(Front(sent)) = Len(sent) - 1
            /\ \A k \in 1 .. Len(sent) - 1 : Front(sent)[k] = sent[k]
        BY <2>2, WindowFront
      <4>7. Arriving = Front(sent)
        BY <3>2 DEF Arriving
      <4>8. r + 1 \in 1 .. Len(sent) - 1 /\ r < Len(sent) - 1
        BY <2>2, <4>5
      <4> QED
        BY <4>6, <4>7, <4>8
    <3> QED
      BY <2>2, <3>1, <3>2
  <2>5. Arriving' = Arriving
    BY <1>3 DEF Arriving
  <2>6. /\ Window(Arriving, r) # << >>
        /\ Head(Window(Arriving, r)) = Content(msg)
        /\ Window(Arriving, r + 1) = Tail(Window(Arriving, r))
    BY <2>1, <2>2, <2>3, <2>4, WindowTail
  <2>7. Len(received') = r + 1
    BY <2>1, <2>2
  <2>8. Window(Arriving, Len(received))' = Tail(Window(Arriving, r))
    BY <2>5, <2>6, <2>7 DEF Window
  <2>9. [k \in 1 .. Len(received) |-> Content(received[k])]'
          = Append([k \in 1 .. Len(received) |-> Content(received[k])], Content(msg))
    <3>1. 0 \in Nat /\ 0 <= Len(received)
      BY <2>2
    <3>2. Window(Append(received, msg), 0) = Append(Window(received, 0), Content(msg))
      BY <2>1, <2>2, <3>1, WindowAppend
    <3>3. \A s \in Seq(Message) : Window(s, 0) = [k \in 1 .. Len(s) |-> Content(s[k])]
      <4>1. ASSUME NEW s \in Seq(Message)
            PROVE  Window(s, 0) = [k \in 1 .. Len(s) |-> Content(s[k])]
        <5>1. Len(s) - 0 = Len(s) /\ \A k \in 1 .. Len(s) : 0 + k = k
          OBVIOUS
        <5> QED
          BY <5>1 DEF Window
      <4> QED
        BY <4>1
    <3>4. Append(received, msg) \in Seq(Message)
      BY <2>1, <2>2
    <3> QED
      BY <2>1, <2>2, <3>2, <3>3, <3>4
  <2> QED
    BY <1>3, <2>6, <2>8, <2>9 DEF Fifo!Deliver, Window
<1> QED
  BY <1>8, <1>9

\* ImplementsFifo: WriteMessage at one end and ReadMessage at the other are a
\* queue of whole messages, in order, once, whatever the chunk sizes.
THEOREM LinkImplementsFifo ==
  ASSUME Steady
  PROVE  LinkSpec => ImplementsFifo
<1>1. Init => Fifo!Init
  <2> SUFFICES ASSUME Init
               PROVE  Fifo!Init
    OBVIOUS
  <2>1. sent = << >> /\ received = << >> /\ broken = FALSE
    BY DEF Init, ReaderInit
  <2>2. Arriving = << >>
    BY <2>1 DEF Arriving
  <2>3. /\ [k \in 1 .. Len(Arriving) - Len(received) |-> Content(Arriving[Len(received) + k])] = << >>
        /\ [k \in 1 .. Len(received) |-> Content(received[k])] = << >>
    BY <2>1, <2>2
  <2> QED
    BY <2>1, <2>3 DEF Fifo!Init
<1>2. InStepInv /\ [LinkNext]_vars
        => [Fifo!Next]_<<[k \in 1 .. Len(Arriving) - Len(received) |->
                            Content(Arriving[Len(received) + k])],
                         [k \in 1 .. Len(received) |-> Content(received[k])], ~broken>>
  <2> DEFINE fifoVars == <<[k \in 1 .. Len(Arriving) - Len(received) |->
                              Content(Arriving[Len(received) + k])],
                           [k \in 1 .. Len(received) |-> Content(received[k])], ~broken>>
  <2> SUFFICES ASSUME InStepInv, [LinkNext]_vars
               PROVE  Fifo!Next \/ UNCHANGED fifoVars
    OBVIOUS
  <2>1. PICK g \in Seq(Origin) : LinkInv(g)
    BY DEF InStepInv
  <2>2. ASSUME UNCHANGED <<received, sent, broken>>
        PROVE  UNCHANGED fifoVars
    BY <2>2 DEF Arriving
  <2> HIDE DEF fifoVars
  <2>3. LinkTypes
    BY <2>1 DEF LinkInv
  <2>4. CASE SendMessage
    <3>1. PICK x \in Messages : Write(x)
      BY <2>4 DEF SendMessage
    <3>2. /\ x.csid \in ChunkStreams \cup {0} /\ x.msid \in 0 .. U32 - 1
          /\ x.timestamp \in 0 .. U32 - 1 /\ x.type \in Byte /\ x.data \in Seq(Byte)
          /\ x = [csid |-> x.csid, msid |-> x.msid, timestamp |-> x.timestamp,
                  type |-> x.type, data |-> x.data]
      BY LinkAssumption
    <3>3. /\ ~broken /\ WriteMessage(x)
          /\ sent' = IF x.data = << >> THEN sent ELSE Append(sent, Addressed(x))
          /\ broken' = broken /\ received' = received
      BY <3>1 DEF Write, readerVars
    <3>4. PICK m : m = Addressed(x)
      OBVIOUS
    <3>5. m \in ByteMessage
      BY <2>3, <3>2, <3>3, <3>4, AddressedFacts
    <3>6. m \in Sendable
      <4>1. nextWriteChunkID \in 2 .. LastAutoID
        BY <2>3 DEF LinkTypes
      <4> QED
        BY <3>4, <4>1 DEF Addressed, Sendable
    <3>7. CASE x.data = << >>
      BY <2>2, <3>3, <3>7
    <3>8. CASE x.data # << >>
      BY <2>1, <3>3, <3>4, <3>5, <3>6, <3>8, MapsToSend DEF Fifo!Next
    <3> QED
      BY <3>7, <3>8
  <2>5. CASE AnnounceChunkSize
    <3>1. PICK size \in Sizes : Write(SetChunkSizeMessage(size))
      BY <2>5 DEF AnnounceChunkSize
    <3>2. PICK m : m = SetChunkSizeMessage(size)
      OBVIOUS
    <3>3. /\ m.csid = 2 /\ m.data # << >>
          /\ m = [csid |-> m.csid, msid |-> m.msid, timestamp |-> m.timestamp,
                  type |-> m.type, data |-> m.data]
      BY <3>2 DEF SetChunkSizeMessage
    <3>4. Addressed(m) = m
      BY <3>3 DEF Addressed
    <3>5. ~broken /\ sent' = Append(sent, m) /\ broken' = broken /\ received' = received
      BY <3>1, <3>2, <3>3, <3>4 DEF Write, readerVars
    <3>6. m \in ByteMessage
      <4>1. m.data \in Seq(Byte)
        BY <3>2, LinkAssumption, SizeBytes, Zenon
      <4>2. /\ m.csid \in ChunkStreams
            /\ m.msid \in 0 .. U32 - 1 /\ m.timestamp \in 0 .. U32 - 1 /\ m.type \in Byte
        BY <3>2, LinkAssumption, WidthsAssumption
        DEF SetChunkSizeMessage, Byte, MessageTypeSetChunkSize
      <4> QED
        BY <3>3, <4>1, <4>2 DEF ByteMessage
    <3>7. m \in Sendable
      BY <3>2 DEF Sendable
    <3> QED
      BY <2>1, <3>5, <3>6, <3>7, MapsToSend DEF Fifo!Next
  <2>6. CASE UseChunkSize
    BY <2>2, <2>6 DEF UseChunkSize, readerVars
  <2>7. CASE WriteChunk
    BY <2>2, <2>7 DEF WriteChunk, readerVars
  <2>8. CASE WriteFails
    BY <2>1, <2>8, MapsToBreak DEF Fifo!Next
  <2>9. CASE Receive
    BY <2>1, <2>2, <2>9, MapsToDeliver DEF Fifo!Next
  <2>10. CASE UNCHANGED vars
    BY <2>2, <2>10 DEF vars, readerVars, linkVars
  <2> QED
    BY <2>4, <2>5, <2>6, <2>7, <2>8, <2>9, <2>10 DEF LinkNext
<1> QED
  BY <1>1, <1>2, LinkInvariant, PTL DEF LinkSpec, ImplementsFifo, Fifo!Spec
=============================================================================
