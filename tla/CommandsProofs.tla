--------------------------- MODULE CommandsProofs ---------------------------
(***************************************************************************)
(* What becomes of a command on its way from BuildCommand to the           *)
(* application: whole, cut short, or read by the other encoding, for every *)
(* command of values as deep as Nesting allows.                            *)
(*                                                                         *)
(* The codecs read every value where it was written, whatever follows      *)
(* (ValueCarried0, ValueCarried3).  A message that lost its tail needs one *)
(* thing more: that a decoder which reads a value does not look behind it, *)
(* so that of less than a value it reads nothing.                          *)
(***************************************************************************)
EXTENDS CodecProofs, FiniteSetTheorems

-----------------------------------------------------------------------------
(* More behind what is read changes nothing that is read: AMF0.            *)

\* A decoder with y behind what it has; what is read as r with less is read as s
\* with y behind it, if it is read at all.
Longer(d, y) == [d EXCEPT !.in = @ \o y]
Steady(D, r, s, y) == r.d.ok => r.d \in D /\ s = Ok(Longer(r.d, y), r.val)

\* What stands behind changes nothing else.
LEMMA LongerHas ==
    ASSUME NEW D \in {Decoder0, Decoder3}, NEW d \in D, NEW y \in Seq(Byte)
    PROVE  /\ Longer(d, y) \in D /\ Longer(d, y).ok = d.ok /\ Longer(d, y).in = d.in \o y
           /\ d.in \in Seq(Byte) /\ d.ok \in BOOLEAN /\ d.in \o y \in Seq(Byte)
           /\ Len(d.in) \in Nat /\ Len(d.in \o y) = Len(d.in) + Len(y) /\ Len(y) \in Nat
<1>0. D = Decoder0 \/ D = Decoder3
  OBVIOUS
<1>1. d.in \in Seq(Byte) /\ d.ok \in BOOLEAN
  <2>1. CASE D = Decoder0
    BY <2>1 DEF Decoder0
  <2>2. CASE D = Decoder3
    BY <2>2 DEF Decoder3
  <2> QED BY <1>0, <2>1, <2>2
<1> DEFINE x == d.in \o y
<1>2. x \in Seq(Byte) /\ Len(x) = Len(d.in) + Len(y) /\ Len(d.in) \in Nat /\ Len(y) \in Nat
  BY <1>1, JoinTwo, Zenon DEF Join2
<1>3. Longer(d, y) = [d EXCEPT !.in = x]
  BY DEF Longer
<1> HIDE DEF x
<1>4. Longer(d, y) \in D /\ Longer(d, y).ok = d.ok /\ Longer(d, y).in = x
  <2>1. CASE D = Decoder0
    BY <1>2, <1>3, <2>1 DEF Decoder0
  <2>2. CASE D = Decoder3
    BY <1>2, <1>3, <2>2 DEF Decoder3
  <2> QED BY <1>0, <2>1, <2>2
<1> QED
  BY <1>1, <1>2, <1>4 DEF x

\* What failed says nothing.
LEMMA FailedSteady ==
    ASSUME NEW D \in {Decoder0, Decoder3}, NEW d \in D, NEW s, NEW y
    PROVE  Failed(d).d.ok = FALSE /\ Steady(D, Failed(d), s, y)
<1> DEFINE e == [d EXCEPT !.ok = FALSE]
<1>1. e.ok = FALSE
  BY DEF Decoder0, Decoder3
<1>2. Failed(d) = Ok(e, Nothing)
  BY DEF Failed
<1> HIDE DEF e
<1> QED
  BY <1>1, <1>2, OkHas DEF Steady

\* What is there already is the same with more behind it.
LEMMA OkSteady ==
    ASSUME NEW D, NEW d \in D, NEW v, NEW y
    PROVE  Steady(D, Ok(d, v), Ok(Longer(d, y), v), y)
BY OkHas DEF Steady

\* What is read of more is the same, and leaves more.
LEMMA SteadyHas ==
    ASSUME NEW D, NEW y, NEW r, NEW s, Steady(D, r, s, y), r.d.ok
    PROVE  r.d \in D /\ s.d = Longer(r.d, y) /\ s.val = r.val
<1>1. r.d \in D /\ s = Ok(Longer(r.d, y), r.val)
  BY Zenon DEF Steady
<1> QED
  BY <1>1, OkHas

\* One thing read after the other.
LEMMA ThenSteady ==
    ASSUME NEW D \in {Decoder0, Decoder3}, NEW y \in Seq(Byte), NEW r, NEW s, Steady(D, r, s, y),
           NEW R, NEW S, NEW q, NEW p,
           R = (IF r.d.ok THEN q ELSE r), S = (IF s.d.ok THEN p ELSE s),
           r.d.ok => Steady(D, q, p, y)
    PROVE  Steady(D, R, S, y)
<1> SUFFICES ASSUME R.d.ok PROVE R.d \in D /\ S = Ok(Longer(R.d, y), R.val)
  BY Zenon DEF Steady
<1>1. CASE r.d.ok
  <2>1. r.d \in D /\ s = Ok(Longer(r.d, y), r.val)
    BY <1>1, Zenon DEF Steady
  <2>2. s.d.ok
    <3>1. s.d = Longer(r.d, y)
      BY <2>1, OkHas
    <3>2. Longer(r.d, y).ok = r.d.ok
      BY <2>1, LongerHas, Zenon
    <3> QED BY <1>1, <3>1, <3>2, Zenon
  <2>3. R = q /\ S = p
    BY <1>1, <2>2, Zenon
  <2> QED
    BY <1>1, <2>3, Zenon DEF Steady
<1>2. CASE ~r.d.ok
  BY <1>2, Zenon
<1> QED
  BY <1>1, <1>2

\* n bytes.
LEMMA TakeSteady ==
    ASSUME NEW D \in {Decoder0, Decoder3}, NEW d \in D, NEW y \in Seq(Byte), NEW n
    PROVE  /\ Steady(D, Take(d, n), Take(Longer(d, y), n), y)
           /\ Take(d, n).d.ok => /\ Take(d, n).val \in Seq(Byte) /\ Len(Take(d, n).val) = n
                                 /\ n \in Nat
<1>0. /\ Longer(d, y) \in D /\ Longer(d, y).ok = d.ok /\ Longer(d, y).in = d.in \o y
      /\ d.in \in Seq(Byte) /\ d.in \o y \in Seq(Byte)
      /\ Len(d.in) \in Nat /\ Len(d.in \o y) = Len(d.in) + Len(y) /\ Len(y) \in Nat
  BY LongerHas
<1>1. CASE n \in 0 .. Len(d.in)
  <2> DEFINE b == d.in
             x == b \o y
             a == SubSeq(b, 1, n)
             c == SubSeq(b, n + 1, Len(b))
             e == [d EXCEPT !.in = c]
             f == Longer(d, y)
  <2>1. n \in Nat /\ n <= Len(b) /\ Len(b) \in Nat
    BY <1>0, <1>1
  <2>2. \A i \in 1 .. Len(b) : b[i] \in Byte
    BY <1>0, ElementOfSeq
  <2>3. /\ a \in Seq(Byte) /\ Len(a) = n /\ \A i \in 1 .. n : a[i] = b[i]
    <3> HIDE DEF b
    <3>1. \A i \in 1 .. n : b[i] \in Byte
      BY <2>1, <2>2
    <3>2. a \in Seq(Byte) /\ Len(a) = n
      BY <2>1, <3>1, SubSeqProperties
    <3> QED BY <2>1, <3>2
  <2>4. /\ c \in Seq(Byte) /\ Len(c) = Len(b) - n /\ \A i \in 1 .. Len(b) - n : c[i] = b[i + n]
    <3> HIDE DEF b
    <3>1. \A i \in n + 1 .. Len(b) : b[i] \in Byte
      BY <2>1, <2>2
    <3>2. c \in Seq(Byte) /\ Len(c) = Len(b) - n
      BY <2>1, <3>1, SubSeqProperties
    <3> QED BY <2>1, <3>2
  <2>5. b = a \o c
    <3> HIDE DEF a, c, b
    <3>1. /\ a \o c \in Seq(Byte) /\ Len(a \o c) = Len(a) + Len(c)
          /\ \A i \in 1 .. Len(a) + Len(c) : (a \o c)[i] = IF i <= Len(a) THEN a[i] ELSE c[i - Len(a)]
      BY <2>3, <2>4, ConcatProperties
    <3>2. Len(a \o c) = Len(b)
      BY <2>1, <2>3, <2>4, <3>1
    <3>3. ASSUME NEW i \in 1 .. Len(b) PROVE b[i] = (a \o c)[i]
      <4>0. i \in 1 .. Len(a) + Len(c)
        BY <2>1, <2>3, <2>4
      <4>1. CASE i <= n
        <5>1. i \in 1 .. n
          BY <4>1, <2>1
        <5> QED BY <2>3, <3>1, <4>0, <4>1, <5>1
      <4>2. CASE ~(i <= n)
        <5>1. i - n \in 1 .. Len(b) - n /\ (i - n) + n = i
          BY <4>2, <2>1
        <5> QED BY <2>3, <2>4, <3>1, <4>0, <4>2, <5>1
      <4> QED BY <4>1, <4>2
    <3>4. b \in Seq(Byte)
      BY <1>0 DEF b
    <3> QED
      BY <3>1, <3>2, <3>3, <3>4, SeqEqual
  <2>6. Take(d, n) = Ok(e, a)
    <3>1. e = [d EXCEPT !.in = SubSeq(@, n + 1, Len(@))]
      OBVIOUS
    <3> QED BY <1>1, <3>1, Zenon DEF Take
  <2>7. e \in D /\ e.in = c
    <3> HIDE DEF c
    <3>1. c \in Seq(Byte)
      BY <2>4
    <3>2. CASE D = Decoder0
      BY <3>1, <3>2 DEF Decoder0
    <3>3. CASE D = Decoder3
      BY <3>1, <3>3 DEF Decoder3
    <3> QED BY <3>2, <3>3
  <2>8. Join3(a, c, y)
    <3> HIDE DEF a, c
    <3> QED BY <2>3, <2>4, JoinThree, Zenon
  <2>9. x = a \o (c \o y) /\ c \o y \in Seq(Byte)
    <3> HIDE DEF a, c, b
    <3> QED BY <2>5, <2>8, Zenon DEF Join3
  <2>10. SubSeq(x, 1, n) = a /\ SubSeq(x, n + 1, Len(x)) = c \o y
    <3> DEFINE z == c \o y
    <3> HIDE DEF a, c, b, x, z
    <3>1. /\ SubSeq(a \o z, 1, Len(a)) = a
          /\ SubSeq(a \o z, Len(a) + 1, Len(a \o z)) = z
      <4>1. a \in Seq(Byte) /\ z \in Seq(Byte)
        BY <2>3, <2>9 DEF z
      <4> QED BY <4>1, JoinedRest
    <3> QED BY <2>3, <2>9, <3>1 DEF z
  <2>11. Take(f, n) = Ok([f EXCEPT !.in = c \o y], a)
    <3>1. n \in 0 .. Len(f.in)
      <4>1. f.in = x /\ Len(x) = Len(b) + Len(y)
        BY <1>0
      <4> QED BY <1>0, <2>1, <4>1
    <3>2. Take(f, n) = Ok([f EXCEPT !.in = SubSeq(@, n + 1, Len(@))], SubSeq(f.in, 1, n))
      BY <3>1, Zenon DEF Take
    <3>3. f.in = x
      BY <1>0
    <3> HIDE DEF f, x, c, a
    <3>4. [f EXCEPT !.in = SubSeq(@, n + 1, Len(@))] = [f EXCEPT !.in = c \o y]
      BY <2>10, <3>3
    <3> QED
      BY <2>10, <3>2, <3>3, <3>4, Zenon
  <2>12. [f EXCEPT !.in = c \o y] = Longer(e, y)
    <3> DEFINE z == c \o y
               w == d.in \o y
    <3> HIDE DEF c
    <3>1. Longer(e, y) = [[d EXCEPT !.in = c] EXCEPT !.in = z]
      <4>1. [d EXCEPT !.in = c].in = c
        BY <2>7
      <4> QED BY <4>1 DEF Longer
    <3>2. f = [d EXCEPT !.in = w]
      BY DEF Longer
    <3> HIDE DEF z, w, f
    <3>3. [[d EXCEPT !.in = c] EXCEPT !.in = z] = [[d EXCEPT !.in = w] EXCEPT !.in = z]
      OBVIOUS
    <3> QED BY <3>1, <3>2, <3>3 DEF z
  <2> HIDE DEF a, b, c, e, f, x
  <2>13. Steady(D, Take(d, n), Take(f, n), y)
    <3>1. Take(d, n).d = e /\ Take(d, n).val = a
      BY <2>6, OkHas
    <3> QED BY <2>7, <2>11, <2>12, <3>1, Zenon DEF Steady
  <2> QED
    BY <2>1, <2>3, <2>6, <2>13, OkHas DEF f
<1>2. CASE n \notin 0 .. Len(d.in)
  <2>1. Take(d, n) = Failed(d)
    BY <1>2, Zenon DEF Take
  <2> QED
    BY <2>1, FailedSteady
<1> QED
  BY <1>1, <1>2

\* A number of n bytes.
LEMMA ReadUIntSteady ==
    ASSUME NEW d \in Decoder0, NEW y \in Seq(Byte), NEW n
    PROVE  Steady(Decoder0, ReadUInt(d, n), ReadUInt(Longer(d, y), n), y)
<1> DEFINE r == Take(d, n)
           s == Take(Longer(d, y), n)
           q == Ok(r.d, Number(r.val))
           p == Ok(s.d, Number(s.val))
<1>1. Steady(Decoder0, r, s, y)
  BY TakeSteady
<1>2. /\ ReadUInt(d, n) = (IF r.d.ok THEN q ELSE r)
      /\ ReadUInt(Longer(d, y), n) = (IF s.d.ok THEN p ELSE s)
  BY Zenon DEF ReadUInt, Bind
<1>3. r.d.ok => Steady(Decoder0, q, p, y)
  <2> SUFFICES ASSUME r.d.ok PROVE Steady(Decoder0, q, p, y)
    OBVIOUS
  <2> HIDE DEF r, s
  <2>1. r.d \in Decoder0 /\ s.d = Longer(r.d, y) /\ s.val = r.val
    BY <1>1, SteadyHas
  <2> QED
    BY <2>1, OkSteady, Zenon
<1> HIDE DEF r, s, q, p
<1> QED
  BY <1>1, <1>2, <1>3, ThenSteady

\* Four bytes are an integer.
LEMMA CountIs ==
    ASSUME NEW d \in Decoder0, ReadUInt(d, 4).d.ok
    PROVE  ReadUInt(d, 4).val \in Int
<1> DEFINE r == Take(d, 4)
<1>1. r.d.ok => r.val \in Seq(Byte) /\ Len(r.val) = 4
  <2>1. <<>> \in Seq(Byte)
    OBVIOUS
  <2> QED BY <2>1, TakeSteady, ZenonT(60)
<1>2. ReadUInt(d, 4) = (IF r.d.ok THEN Ok(r.d, Number(r.val)) ELSE r)
  BY Zenon DEF ReadUInt, Bind
<1> HIDE DEF r
<1>3. r.d.ok
  BY <1>2
<1>4. ReadUInt(d, 4).val = Number(r.val)
  BY <1>2, <1>3, OkHas
<1> DEFINE v == r.val
<1>5. v \in Seq(Byte) /\ Len(v) = 4
  BY <1>1, <1>3
<1> HIDE DEF v
<1>6. Len(v) = 4 /\ v[1] \in Int /\ v[2] \in Int /\ v[3] \in Int /\ v[4] \in Int
  <2>1. \A i \in 1 .. 4 : v[i] \in Byte
    BY <1>5, ElementOfSeq
  <2>2. 1 \in 1 .. 4 /\ 2 \in 1 .. 4 /\ 3 \in 1 .. 4 /\ 4 \in 1 .. 4
    OBVIOUS
  <2>3. v[1] \in Byte /\ v[2] \in Byte /\ v[3] \in Byte /\ v[4] \in Byte
    BY <2>1, <2>2, Zenon
  <2>4. \A b \in Byte : b \in Int
    BY DEF Byte
  <2> QED BY <1>5, <2>3, <2>4, Zenon
<1>7. Number(v) = SignByte(v[1]) * TwoTo24 + v[2] * (256 * 256) + v[3] * 256 + v[4]
  BY <1>6 DEF Number
<1>8. SignByte(v[1]) \in Int /\ TwoTo24 \in Int
  BY <1>6, Powers DEF SignByte
<1>9. SignByte(v[1]) * TwoTo24 \in Int
  BY <1>8
<1> QED
  BY <1>4, <1>6, <1>7, <1>9 DEF v

\* A string.
LEMMA ReadUTF8Steady ==
    ASSUME NEW d \in Decoder0, NEW y \in Seq(Byte), NEW n
    PROVE  Steady(Decoder0, ReadUTF8(d, n), ReadUTF8(Longer(d, y), n), y)
<1> DEFINE r == ReadUInt(d, n)
           s == ReadUInt(Longer(d, y), n)
           q == Take(r.d, r.val)
           p == Take(s.d, s.val)
<1>1. Steady(Decoder0, r, s, y)
  BY ReadUIntSteady
<1>2. /\ ReadUTF8(d, n) = (IF r.d.ok THEN q ELSE r)
      /\ ReadUTF8(Longer(d, y), n) = (IF s.d.ok THEN p ELSE s)
  BY Zenon DEF ReadUTF8, Bind
<1>3. r.d.ok => Steady(Decoder0, q, p, y)
  <2> SUFFICES ASSUME r.d.ok PROVE Steady(Decoder0, q, p, y)
    OBVIOUS
  <2> HIDE DEF r, s
  <2>1. r.d \in Decoder0 /\ s.d = Longer(r.d, y) /\ s.val = r.val
    BY <1>1, SteadyHas
  <2> QED
    BY <2>1, TakeSteady
<1> HIDE DEF r, s, q, p
<1> QED
  BY <1>1, <1>2, <1>3, ThenSteady

\* Its end.
LEMMA ReadObjectEndSteady ==
    ASSUME NEW d \in Decoder0, NEW y \in Seq(Byte)
    PROVE  Steady(Decoder0, ReadObjectEnd(d), ReadObjectEnd(Longer(d, y)), y)
<1> DEFINE r == Take(d, 1)
           s == Take(Longer(d, y), 1)
           end == <<ObjectEnd0>>
           q == IF r.val = end THEN Ok(r.d, <<>>) ELSE Failed(r.d)
           p == IF s.val = end THEN Ok(s.d, <<>>) ELSE Failed(s.d)
<1>1. Steady(Decoder0, r, s, y)
  BY TakeSteady
<1>2. /\ ReadObjectEnd(d) = (IF r.d.ok THEN q ELSE r)
      /\ ReadObjectEnd(Longer(d, y)) = (IF s.d.ok THEN p ELSE s)
  BY Zenon DEF ReadObjectEnd, Bind
<1>3. r.d.ok => Steady(Decoder0, q, p, y)
  <2> SUFFICES ASSUME r.d.ok PROVE Steady(Decoder0, q, p, y)
    OBVIOUS
  <2> HIDE DEF r, s, end
  <2>1. r.d \in Decoder0 /\ s.d = Longer(r.d, y) /\ s.val = r.val
    BY <1>1, SteadyHas
  <2>3. CASE r.val = end
    BY <2>1, <2>3, OkSteady, Zenon
  <2>4. CASE r.val # end
    BY <2>1, <2>4, FailedSteady
  <2> QED
    BY <2>3, <2>4
<1> HIDE DEF r, s, q, p
<1> QED
  BY <1>1, <1>2, <1>3, ThenSteady

\* A value with its type.
LEMMA TaggedSteady ==
    ASSUME NEW D \in {Decoder0, Decoder3}, NEW y \in Seq(Byte), NEW tag, NEW r, NEW s,
           Steady(D, r, s, y)
    PROVE  Steady(D, Tagged(tag, r), Tagged(tag, s), y)
<1> DEFINE q == Ok(r.d, <<tag, r.val>>)
           p == Ok(s.d, <<tag, s.val>>)
<1>1. Tagged(tag, r) = (IF r.d.ok THEN q ELSE r) /\ Tagged(tag, s) = (IF s.d.ok THEN p ELSE s)
  BY Zenon DEF Tagged, Bind
<1>2. r.d.ok => Steady(D, q, p, y)
  <2> SUFFICES ASSUME r.d.ok PROVE Steady(D, q, p, y)
    OBVIOUS
  <2>1. r.d \in D /\ s.d = Longer(r.d, y) /\ s.val = r.val
    BY SteadyHas
  <2> QED
    BY <2>1, OkSteady, Zenon
<1> HIDE DEF q, p
<1> QED
  BY <1>1, <1>2, ThenSteady

\* The same of every loop of the decoder: what the calls of "inner" read, those of
\* "wider" read with y behind it.
InnerSteady0(inner, wider, y) ==
  \A d \in Decoder0 :
    /\ Steady(Decoder0, inner.value[d], wider.value[Longer(d, y)], y)
    /\ Steady(Decoder0, inner.pairs[d], wider.pairs[Longer(d, y)], y)
    /\ \A k \in Nat : Steady(Decoder0, inner.elements[k][d], wider.elements[k][Longer(d, y)], y)

\* Keys and values.
LEMMA DecodePairs0Steady ==
    ASSUME NEW d \in Decoder0, NEW y \in Seq(Byte), NEW inner, NEW wider, InnerSteady0(inner, wider, y)
    PROVE  Steady(Decoder0, DecodePairs0(inner, d), DecodePairs0(wider, Longer(d, y)), y)
<1> DEFINE r == ReadUTF8(d, 2)
           s == ReadUTF8(Longer(d, y), 2)
           a == inner.value[r.d]
           g == wider.value[s.d]
           b == inner.pairs[a.d]
           h == wider.pairs[g.d]
           v == Ok(b.d, <<<<r.val, a.val>>>> \o b.val)
           w == Ok(h.d, <<<<s.val, g.val>>>> \o h.val)
           ab == IF b.d.ok THEN v ELSE b
           gh == IF h.d.ok THEN w ELSE h
           qa == IF a.d.ok THEN ab ELSE a
           pg == IF g.d.ok THEN gh ELSE g
           q == IF r.val = <<>> THEN ReadObjectEnd(r.d) ELSE qa
           p == IF s.val = <<>> THEN ReadObjectEnd(s.d) ELSE pg
<1>1. Steady(Decoder0, r, s, y)
  BY ReadUTF8Steady
<1>2. /\ DecodePairs0(inner, d) = (IF r.d.ok THEN q ELSE r)
      /\ DecodePairs0(wider, Longer(d, y)) = (IF s.d.ok THEN p ELSE s)
  BY ZenonT(60) DEF DecodePairs0, Bind
<1>3. r.d.ok => Steady(Decoder0, q, p, y)
  <2> SUFFICES ASSUME r.d.ok PROVE Steady(Decoder0, q, p, y)
    BY Zenon
  <2> HIDE DEF r, s
  <2>1. r.d \in Decoder0 /\ s.d = Longer(r.d, y) /\ s.val = r.val
    BY <1>1, SteadyHas
  <2>2. CASE r.val = <<>>
    <3>1. Steady(Decoder0, ReadObjectEnd(r.d), ReadObjectEnd(s.d), y)
      BY <2>1, ReadObjectEndSteady
    <3>2. q = ReadObjectEnd(r.d) /\ p = ReadObjectEnd(s.d)
      BY <2>1, <2>2, Zenon
    <3> HIDE DEF q, p
    <3> QED BY <3>1, <3>2, Zenon
  <2>3. CASE r.val # <<>>
    <3>1. Steady(Decoder0, a, g, y)
      BY <2>1, Zenon DEF InnerSteady0
    <3>2. a.d.ok => Steady(Decoder0, ab, gh, y)
      <4> SUFFICES ASSUME a.d.ok PROVE Steady(Decoder0, ab, gh, y)
        BY Zenon
      <4> HIDE DEF a, g
      <4>1. a.d \in Decoder0 /\ g.d = Longer(a.d, y) /\ g.val = a.val
        BY <3>1, SteadyHas
      <4>2. Steady(Decoder0, b, h, y)
        BY <4>1, Zenon DEF InnerSteady0
      <4>3. b.d.ok => Steady(Decoder0, v, w, y)
        <5> SUFFICES ASSUME b.d.ok PROVE Steady(Decoder0, v, w, y)
          OBVIOUS
        <5> HIDE DEF b, h
        <5>1. b.d \in Decoder0 /\ h.d = Longer(b.d, y) /\ h.val = b.val
          BY <4>2, SteadyHas
        <5> QED
          BY <2>1, <4>1, <5>1, OkSteady, Zenon
      <4> HIDE DEF b, h, v, w
      <4> QED
        BY <4>2, <4>3, ThenSteady
    <3> HIDE DEF a, g, ab, gh
    <3>3. Steady(Decoder0, qa, pg, y)
      BY <3>1, <3>2, ThenSteady
    <3>4. q = qa /\ p = pg
      BY <2>1, <2>3, Zenon
    <3> HIDE DEF q, p, qa, pg
    <3> QED BY <3>3, <3>4, Zenon
  <2> QED
    BY <2>2, <2>3, ZenonT(60)
<1> HIDE DEF r, s, q, p
<1> QED
  BY <1>1, <1>2, <1>3, ThenSteady

\* Elements.
LEMMA DecodeElementsSteady ==
    ASSUME NEW d \in Decoder0, NEW y \in Seq(Byte), NEW inner, NEW wider, InnerSteady0(inner, wider, y),
           NEW k \in Nat
    PROVE  Steady(Decoder0, DecodeElements(inner, d, k), DecodeElements(wider, Longer(d, y), k), y)
<1>1. CASE k = 0
  <2>1. /\ DecodeElements(inner, d, k) = Ok(d, <<>>)
        /\ DecodeElements(wider, Longer(d, y), k) = Ok(Longer(d, y), <<>>)
    BY <1>1, Zenon DEF DecodeElements
  <2> QED
    BY <2>1, OkSteady, Zenon
<1>2. CASE k # 0
  <2> DEFINE j == k - 1
             a == inner.value[d]
             g == wider.value[Longer(d, y)]
             b == inner.elements[j][a.d]
             h == wider.elements[j][g.d]
             v == Ok(b.d, <<a.val>> \o b.val)
             w == Ok(h.d, <<g.val>> \o h.val)
             ab == IF b.d.ok THEN v ELSE b
             gh == IF h.d.ok THEN w ELSE h
  <2>0. j \in Nat
    BY <1>2
  <2>1. /\ DecodeElements(inner, d, k) = (IF a.d.ok THEN ab ELSE a)
        /\ DecodeElements(wider, Longer(d, y), k) = (IF g.d.ok THEN gh ELSE g)
    BY <1>2, Zenon DEF DecodeElements, Bind
  <2> HIDE DEF j
  <2>2. Steady(Decoder0, a, g, y)
    BY Zenon DEF InnerSteady0
  <2>3. a.d.ok => Steady(Decoder0, ab, gh, y)
    <3> SUFFICES ASSUME a.d.ok PROVE Steady(Decoder0, ab, gh, y)
      BY Zenon
    <3> HIDE DEF a, g
    <3>1. a.d \in Decoder0 /\ g.d = Longer(a.d, y) /\ g.val = a.val
      BY <2>2, SteadyHas
    <3>2. Steady(Decoder0, b, h, y)
      BY <2>0, <3>1, Zenon DEF InnerSteady0
    <3>3. b.d.ok => Steady(Decoder0, v, w, y)
      <4> SUFFICES ASSUME b.d.ok PROVE Steady(Decoder0, v, w, y)
        OBVIOUS
      <4> HIDE DEF b, h
      <4>1. b.d \in Decoder0 /\ h.d = Longer(b.d, y) /\ h.val = b.val
        BY <3>2, SteadyHas
      <4> QED
        BY <3>1, <4>1, OkSteady, Zenon
    <3> HIDE DEF b, h, v, w
    <3> QED
      BY <3>2, <3>3, ThenSteady
  <2> HIDE DEF a, g, ab, gh
  <2> QED
    BY <2>1, <2>2, <2>3, ThenSteady
<1> QED
  BY <1>1, <1>2

\* An array.
LEMMA DecodeStrictArraySteady ==
    ASSUME NEW d \in Decoder0, NEW y \in Seq(Byte), NEW inner, NEW wider, InnerSteady0(inner, wider, y)
    PROVE  Steady(Decoder0, DecodeStrictArray(inner, d), DecodeStrictArray(wider, Longer(d, y)), y)
<1> DEFINE r == ReadUInt(d, 4)
           s == ReadUInt(Longer(d, y), 4)
           q == IF r.val < 0 THEN Failed(r.d) ELSE Tagged("slice", inner.elements[r.val][r.d])
           p == IF s.val < 0 THEN Failed(s.d) ELSE Tagged("slice", wider.elements[s.val][s.d])
<1>1. Steady(Decoder0, r, s, y)
  BY ReadUIntSteady
<1>2. /\ DecodeStrictArray(inner, d) = (IF r.d.ok THEN q ELSE r)
      /\ DecodeStrictArray(wider, Longer(d, y)) = (IF s.d.ok THEN p ELSE s)
  BY Zenon DEF DecodeStrictArray, Bind
<1>3. r.d.ok => Steady(Decoder0, q, p, y)
  <2> SUFFICES ASSUME r.d.ok PROVE Steady(Decoder0, q, p, y)
    OBVIOUS
  <2>0. r.val \in Int
    BY CountIs
  <2> HIDE DEF r, s
  <2>1. r.d \in Decoder0 /\ s.d = Longer(r.d, y) /\ s.val = r.val
    BY <1>1, SteadyHas
  <2>2. CASE r.val < 0
    <3>1. q = Failed(r.d)
      BY <2>2, Zenon
    <3> HIDE DEF q, p
    <3> QED BY <2>1, <3>1, FailedSteady
  <2>3. CASE ~(r.val < 0)
    <3>1. r.val \in Nat
      BY <2>0, <2>3
    <3> DEFINE a == inner.elements[r.val][r.d]
               g == wider.elements[s.val][s.d]
    <3>2. Steady(Decoder0, a, g, y)
      BY <2>1, <3>1, Zenon DEF InnerSteady0
    <3>3. q = Tagged("slice", a) /\ p = Tagged("slice", g)
      BY <2>1, <2>3, Zenon
    <3> HIDE DEF q, p, a, g
    <3> QED BY <3>2, <3>3, TaggedSteady
  <2> QED
    BY <2>2, <2>3
<1> HIDE DEF r, s, q, p
<1> QED
  BY <1>1, <1>2, <1>3, ThenSteady

\* A map.
LEMMA DecodeMapSteady ==
    ASSUME NEW d \in Decoder0, NEW y \in Seq(Byte), NEW inner, NEW wider, InnerSteady0(inner, wider, y),
           NEW first
    PROVE  Steady(Decoder0, DecodeMap(inner, d, first), DecodeMap(wider, Longer(d, y), first), y)
<1> DEFINE r == inner.pairs[d]
           s == wider.pairs[Longer(d, y)]
           q == Ok(r.d, <<"map", MapOf(first \o r.val)>>)
           p == Ok(s.d, <<"map", MapOf(first \o s.val)>>)
<1>1. Steady(Decoder0, r, s, y)
  BY Zenon DEF InnerSteady0
<1>2. /\ DecodeMap(inner, d, first) = (IF r.d.ok THEN q ELSE r)
      /\ DecodeMap(wider, Longer(d, y), first) = (IF s.d.ok THEN p ELSE s)
  BY Zenon DEF DecodeMap, Bind
<1>3. r.d.ok => Steady(Decoder0, q, p, y)
  <2> SUFFICES ASSUME r.d.ok PROVE Steady(Decoder0, q, p, y)
    OBVIOUS
  <2> HIDE DEF r, s
  <2>1. r.d \in Decoder0 /\ s.d = Longer(r.d, y) /\ s.val = r.val
    BY <1>1, SteadyHas
  <2> QED
    BY <2>1, OkSteady, Zenon
<1> HIDE DEF r, s, q, p
<1> QED
  BY <1>1, <1>2, <1>3, ThenSteady

\* A map that begins with a count.
LEMMA DecodeEcmaArraySteady ==
    ASSUME NEW d \in Decoder0, NEW y \in Seq(Byte), NEW inner, NEW wider, InnerSteady0(inner, wider, y)
    PROVE  Steady(Decoder0, DecodeEcmaArray(inner, d), DecodeEcmaArray(wider, Longer(d, y)), y)
<1> DEFINE r == ReadUInt(d, 4)
           s == ReadUInt(Longer(d, y), 4)
           q == DecodeMap(inner, r.d, <<>>)
           p == DecodeMap(wider, s.d, <<>>)
<1>1. Steady(Decoder0, r, s, y)
  BY ReadUIntSteady
<1>2. /\ DecodeEcmaArray(inner, d) = (IF r.d.ok THEN q ELSE r)
      /\ DecodeEcmaArray(wider, Longer(d, y)) = (IF s.d.ok THEN p ELSE s)
  BY Zenon DEF DecodeEcmaArray, Bind
<1>3. r.d.ok => Steady(Decoder0, q, p, y)
  <2> SUFFICES ASSUME r.d.ok PROVE Steady(Decoder0, q, p, y)
    OBVIOUS
  <2> HIDE DEF r, s
  <2>1. r.d \in Decoder0 /\ s.d = Longer(r.d, y) /\ s.val = r.val
    BY <1>1, SteadyHas
  <2> QED
    BY <2>1, DecodeMapSteady, Zenon
<1> HIDE DEF r, s, q, p
<1> QED
  BY <1>1, <1>2, <1>3, ThenSteady

\* A date.
LEMMA DecodeDateValue0Steady ==
    ASSUME NEW d \in Decoder0, NEW y \in Seq(Byte)
    PROVE  Steady(Decoder0, DecodeDateValue0(d), DecodeDateValue0(Longer(d, y)), y)
<1> DEFINE r == Take(d, 8)
           s == Take(Longer(d, y), 8)
           a == Take(r.d, 2)
           g == Take(s.d, 2)
           v == Ok(a.d, <<"time", TimeFrom0(r.val)>>)
           w == Ok(g.d, <<"time", TimeFrom0(s.val)>>)
           q == IF a.d.ok THEN v ELSE a
           p == IF g.d.ok THEN w ELSE g
<1>1. Steady(Decoder0, r, s, y)
  BY TakeSteady
<1>2. /\ DecodeDateValue0(d) = (IF r.d.ok THEN q ELSE r)
      /\ DecodeDateValue0(Longer(d, y)) = (IF s.d.ok THEN p ELSE s)
  BY Zenon DEF DecodeDateValue0, Bind
<1>3. r.d.ok => Steady(Decoder0, q, p, y)
  <2> SUFFICES ASSUME r.d.ok PROVE Steady(Decoder0, q, p, y)
    OBVIOUS
  <2> HIDE DEF r, s
  <2>1. r.d \in Decoder0 /\ s.d = Longer(r.d, y) /\ s.val = r.val
    BY <1>1, SteadyHas
  <2>2. Steady(Decoder0, a, g, y)
    BY <2>1, TakeSteady
  <2>3. a.d.ok => Steady(Decoder0, v, w, y)
    <3> SUFFICES ASSUME a.d.ok PROVE Steady(Decoder0, v, w, y)
      OBVIOUS
    <3> HIDE DEF a, g
    <3>1. a.d \in Decoder0 /\ g.d = Longer(a.d, y) /\ g.val = a.val
      BY <2>2, SteadyHas
    <3> QED
      BY <2>1, <3>1, OkSteady, Zenon
  <2> HIDE DEF a, g, v, w
  <2> QED
    BY <2>2, <2>3, ThenSteady
<1> HIDE DEF r, s, q, p
<1> QED
  BY <1>1, <1>2, <1>3, ThenSteady

\* An object with a class.
LEMMA DecodeTypedObjectSteady ==
    ASSUME NEW d \in Decoder0, NEW y \in Seq(Byte), NEW inner, NEW wider, InnerSteady0(inner, wider, y)
    PROVE  Steady(Decoder0, DecodeTypedObject(inner, d), DecodeTypedObject(wider, Longer(d, y)), y)
<1> DEFINE r == ReadUTF8(d, 2)
           s == ReadUTF8(Longer(d, y), 2)
           q == DecodeMap(inner, r.d, <<<<ClassNameKey, <<"string", r.val>>>>>>)
           p == DecodeMap(wider, s.d, <<<<ClassNameKey, <<"string", s.val>>>>>>)
<1>1. Steady(Decoder0, r, s, y)
  BY ReadUTF8Steady
<1>2. /\ DecodeTypedObject(inner, d) = (IF r.d.ok THEN q ELSE r)
      /\ DecodeTypedObject(wider, Longer(d, y)) = (IF s.d.ok THEN p ELSE s)
  BY Zenon DEF DecodeTypedObject, Bind
<1>3. r.d.ok => Steady(Decoder0, q, p, y)
  <2> SUFFICES ASSUME r.d.ok PROVE Steady(Decoder0, q, p, y)
    OBVIOUS
  <2> HIDE DEF r, s
  <2>1. r.d \in Decoder0 /\ s.d = Longer(r.d, y) /\ s.val = r.val
    BY <1>1, SteadyHas
  <2> QED
    BY <2>1, DecodeMapSteady, Zenon
<1> HIDE DEF r, s, q, p
<1> QED
  BY <1>1, <1>2, <1>3, ThenSteady

\* One byte and what it says.
BooleanOf(d) == Bind(Take(d, 1), LAMBDA e, b : Ok(e, <<"bool", b # <<0>>>>))

\* It is read as what it is with more behind it.
LEMMA DecodeBooleanSteady ==
    ASSUME NEW d \in Decoder0, NEW y \in Seq(Byte)
    PROVE  Steady(Decoder0, BooleanOf(d), BooleanOf(Longer(d, y)), y)
<1> DEFINE r == Take(d, 1)
           s == Take(Longer(d, y), 1)
           q == Ok(r.d, <<"bool", r.val # <<0>>>>)
           p == Ok(s.d, <<"bool", s.val # <<0>>>>)
<1>1. Steady(Decoder0, r, s, y)
  BY TakeSteady
<1>2. /\ BooleanOf(d) = (IF r.d.ok THEN q ELSE r)
      /\ BooleanOf(Longer(d, y)) = (IF s.d.ok THEN p ELSE s)
  BY Zenon DEF BooleanOf, Bind
<1>3. r.d.ok => Steady(Decoder0, q, p, y)
  <2> SUFFICES ASSUME r.d.ok PROVE Steady(Decoder0, q, p, y)
    OBVIOUS
  <2> HIDE DEF r, s
  <2>1. r.d \in Decoder0 /\ s.d = Longer(r.d, y) /\ s.val = r.val
    BY <1>1, SteadyHas
  <2> DEFINE v == <<"bool", r.val # <<0>>>>
  <2>2. q = Ok(r.d, v) /\ p = Ok(Longer(r.d, y), v)
    BY <2>1, Zenon
  <2> HIDE DEF v, q, p
  <2> QED
    BY <2>1, <2>2, OkSteady, Zenon
<1> HIDE DEF r, s, q, p
<1> QED
  BY <1>1, <1>2, <1>3, ThenSteady

\* The other markers are none of these.
Marked0 == {Number0, Boolean0, String0, Object0, Null0, Undefined0, EcmaArray0, StrictArray0,
            Date0, LongString0, TypedObject0}

\* decodeValue knows no other marker, and fails.
LEMMA OtherMarker0 ==
    ASSUME NEW inner, NEW d, NEW marker, marker \notin Marked0
    PROVE  DecodeMarked0(inner, d, marker) = Failed(d)
<1>1. /\ marker # Number0 /\ marker # Boolean0 /\ marker # String0 /\ marker # Object0
      /\ marker # Null0 /\ marker # Undefined0 /\ marker # EcmaArray0 /\ marker # StrictArray0
      /\ marker # Date0 /\ marker # LongString0 /\ marker # TypedObject0
  BY DEF Marked0
<1>2. marker \notin {Null0, Undefined0}
  BY <1>1
<1> QED
  BY <1>1, <1>2, Zenon DEF DecodeMarked0

\* By the marker.
LEMMA DecodeMarked0Steady ==
    ASSUME NEW d \in Decoder0, NEW y \in Seq(Byte), NEW inner, NEW wider, InnerSteady0(inner, wider, y),
           NEW marker
    PROVE  Steady(Decoder0, DecodeMarked0(inner, d, marker),
                  DecodeMarked0(wider, Longer(d, y), marker), y)
<1> DEFINE l == Longer(d, y)
           R == DecodeMarked0(inner, d, marker)
           S == DecodeMarked0(wider, l, marker)
<1>1. CASE marker = Number0
  <2>1. R = Tagged("float64", Take(d, 8)) /\ S = Tagged("float64", Take(l, 8))
    BY <1>1, Markers0, Zenon DEF DecodeMarked0
  <2>2. Steady(Decoder0, Take(d, 8), Take(l, 8), y)
    BY TakeSteady
  <2> HIDE DEF R, S, l
  <2>3. Steady(Decoder0, R, S, y)
    BY <2>1, <2>2, TaggedSteady
  <2> QED BY <2>3, Zenon DEF R, S, l
<1>2. CASE marker = Boolean0
  <2>1. R = BooleanOf(d) /\ S = BooleanOf(l)
    BY <1>2, Markers0, Zenon DEF DecodeMarked0, BooleanOf
  <2> HIDE DEF R, S
  <2>2. Steady(Decoder0, R, S, y)
    BY <2>1, DecodeBooleanSteady, Zenon
  <2> QED BY <2>2, Zenon DEF R, S, l
<1>3. CASE marker = String0
  <2>1. R = Tagged("string", ReadUTF8(d, 2)) /\ S = Tagged("string", ReadUTF8(l, 2))
    BY <1>3, Markers0, Zenon DEF DecodeMarked0
  <2>2. Steady(Decoder0, ReadUTF8(d, 2), ReadUTF8(l, 2), y)
    BY ReadUTF8Steady
  <2> HIDE DEF R, S, l
  <2>3. Steady(Decoder0, R, S, y)
    BY <2>1, <2>2, TaggedSteady
  <2> QED BY <2>3, Zenon DEF R, S, l
<1>4. CASE marker = Object0
  <2>1. R = DecodeMap(inner, d, <<>>) /\ S = DecodeMap(wider, l, <<>>)
    BY <1>4, Markers0, Zenon DEF DecodeMarked0
  <2> HIDE DEF R, S
  <2>2. Steady(Decoder0, R, S, y)
    BY <2>1, DecodeMapSteady, Zenon
  <2> QED BY <2>2, Zenon DEF R, S, l
<1>5. CASE marker = Null0
  <2>1. R = Ok(d, <<"nil">>) /\ S = Ok(l, <<"nil">>)
    BY <1>5, Markers0, Zenon DEF DecodeMarked0
  <2> HIDE DEF R, S
  <2>2. Steady(Decoder0, R, S, y)
    BY <2>1, OkSteady, Zenon
  <2> QED BY <2>2, Zenon DEF R, S, l
<1>6. CASE marker = Undefined0
  <2>1. R = Ok(d, <<"nil">>) /\ S = Ok(l, <<"nil">>)
    BY <1>6, Markers0, Zenon DEF DecodeMarked0
  <2> HIDE DEF R, S
  <2>2. Steady(Decoder0, R, S, y)
    BY <2>1, OkSteady, Zenon
  <2> QED BY <2>2, Zenon DEF R, S, l
<1>7. CASE marker = EcmaArray0
  <2>1. R = DecodeEcmaArray(inner, d) /\ S = DecodeEcmaArray(wider, l)
    BY <1>7, Markers0, Zenon DEF DecodeMarked0
  <2> HIDE DEF R, S
  <2>2. Steady(Decoder0, R, S, y)
    BY <2>1, DecodeEcmaArraySteady, Zenon
  <2> QED BY <2>2, Zenon DEF R, S, l
<1>8. CASE marker = StrictArray0
  <2>1. R = DecodeStrictArray(inner, d) /\ S = DecodeStrictArray(wider, l)
    BY <1>8, Markers0, Zenon DEF DecodeMarked0
  <2> HIDE DEF R, S
  <2>2. Steady(Decoder0, R, S, y)
    BY <2>1, DecodeStrictArraySteady, Zenon
  <2> QED BY <2>2, Zenon DEF R, S, l
<1>9. CASE marker = Date0
  <2>1. R = DecodeDateValue0(d) /\ S = DecodeDateValue0(l)
    BY <1>9, Markers0, Zenon DEF DecodeMarked0
  <2> HIDE DEF R, S
  <2>2. Steady(Decoder0, R, S, y)
    BY <2>1, DecodeDateValue0Steady, Zenon
  <2> QED BY <2>2, Zenon DEF R, S, l
<1>10. CASE marker = LongString0
  <2>1. R = Tagged("string", ReadUTF8(d, 4)) /\ S = Tagged("string", ReadUTF8(l, 4))
    BY <1>10, Markers0, Zenon DEF DecodeMarked0
  <2>2. Steady(Decoder0, ReadUTF8(d, 4), ReadUTF8(l, 4), y)
    BY ReadUTF8Steady
  <2> HIDE DEF R, S, l
  <2>3. Steady(Decoder0, R, S, y)
    BY <2>1, <2>2, TaggedSteady
  <2> QED BY <2>3, Zenon DEF R, S, l
<1>11. CASE marker = TypedObject0
  <2>1. R = DecodeTypedObject(inner, d) /\ S = DecodeTypedObject(wider, l)
    BY <1>11, Markers0, Zenon DEF DecodeMarked0
  <2> HIDE DEF R, S
  <2>2. Steady(Decoder0, R, S, y)
    BY <2>1, DecodeTypedObjectSteady, Zenon
  <2> QED BY <2>2, Zenon DEF R, S, l
<1>12. CASE marker \notin Marked0
  <2>1. R = Failed(d)
    BY <1>12, OtherMarker0
  <2> HIDE DEF R, S
  <2>2. Steady(Decoder0, R, S, y)
    BY <2>1, FailedSteady
  <2> QED BY <2>2, Zenon DEF R, S, l
<1> HIDE DEF R, S, l
<1> QED
  BY <1>1, <1>2, <1>3, <1>4, <1>5, <1>6, <1>7, <1>8, <1>9, <1>10, <1>11, <1>12, Zenon DEF Marked0, R, S, l

\* The marker and what follows it.
LEMMA DecodeByMarker0Steady ==
    ASSUME NEW d \in Decoder0, NEW y \in Seq(Byte), NEW inner, NEW wider, InnerSteady0(inner, wider, y)
    PROVE  Steady(Decoder0, DecodeByMarker0(inner, d), DecodeByMarker0(wider, Longer(d, y)), y)
<1> DEFINE r == Take(d, 1)
           s == Take(Longer(d, y), 1)
           q == DecodeMarked0(inner, r.d, r.val[1])
           p == DecodeMarked0(wider, s.d, s.val[1])
<1>1. Steady(Decoder0, r, s, y)
  BY TakeSteady
<1>2. /\ DecodeByMarker0(inner, d) = (IF r.d.ok THEN q ELSE r)
      /\ DecodeByMarker0(wider, Longer(d, y)) = (IF s.d.ok THEN p ELSE s)
  BY Zenon DEF DecodeByMarker0, Bind
<1>3. r.d.ok => Steady(Decoder0, q, p, y)
  <2> SUFFICES ASSUME r.d.ok PROVE Steady(Decoder0, q, p, y)
    OBVIOUS
  <2> HIDE DEF r, s
  <2>1. r.d \in Decoder0 /\ s.d = Longer(r.d, y) /\ s.val = r.val
    BY <1>1, SteadyHas
  <2> QED
    BY <2>1, DecodeMarked0Steady, Zenon
<1> HIDE DEF r, s, q, p
<1> QED
  BY <1>1, <1>2, <1>3, ThenSteady

\* One call of decodeValue, or of its loops, deeper; none of no calls.
LEMMA Decoding0Round ==
    ASSUME NEW n \in Nat, NEW d \in Decoder0
    PROVE  /\ n = 0 => /\ Decoding0[n].value[d] = Failed(d) /\ Decoding0[n].pairs[d] = Failed(d)
                       /\ \A k \in Nat : Decoding0[n].elements[k][d] = Failed(d)
           /\ n # 0 => /\ Decoding0[n].value[d] = DecodeByMarker0(Decoding0[n - 1], d)
                       /\ Decoding0[n].pairs[d] = DecodePairs0(Decoding0[n - 1], d)
                       /\ \A k \in Nat :
                            Decoding0[n].elements[k][d] = DecodeElements(Decoding0[n - 1], d, k)
<1> DEFINE p == Inside(Decoding0, n)
<1>1. Decoding0[n] = DecodeStep0(n, p)
  BY Decoding0Is, Zenon
<1>2. n # 0 => p = Decoding0[n - 1]
  BY DEF Inside
<1> HIDE DEF p
<1>3. /\ n = 0 => /\ DecodeStep0(n, p).value[d] = Failed(d) /\ DecodeStep0(n, p).pairs[d] = Failed(d)
                  /\ \A k \in Nat : DecodeStep0(n, p).elements[k][d] = Failed(d)
      /\ n # 0 => /\ DecodeStep0(n, p).value[d] = DecodeByMarker0(p, d)
                  /\ DecodeStep0(n, p).pairs[d] = DecodePairs0(p, d)
                  /\ \A k \in Nat : DecodeStep0(n, p).elements[k][d] = DecodeElements(p, d, k)
  BY DEF DecodeStep0
<1> QED
  BY <1>1, <1>2, <1>3

\* With as many calls at least, and y behind, the same is read.
LEMMA Decoding0Steady ==
    ASSUME NEW y \in Seq(Byte)
    PROVE  \A n, m \in Nat : n <= m => InnerSteady0(Decoding0[n], Decoding0[m], y)
<1> DEFINE T == {n \in Nat : \A m \in Nat : n <= m => InnerSteady0(Decoding0[n], Decoding0[m], y)}
<1>1. 0 \in T
  <2> SUFFICES ASSUME NEW m \in Nat PROVE InnerSteady0(Decoding0[0], Decoding0[m], y)
    OBVIOUS
  <2> SUFFICES ASSUME NEW d \in Decoder0
               PROVE  /\ Steady(Decoder0, Decoding0[0].value[d], Decoding0[m].value[Longer(d, y)], y)
                      /\ Steady(Decoder0, Decoding0[0].pairs[d], Decoding0[m].pairs[Longer(d, y)], y)
                      /\ \A k \in Nat : Steady(Decoder0, Decoding0[0].elements[k][d],
                                                Decoding0[m].elements[k][Longer(d, y)], y)
    BY DEF InnerSteady0
  <2>1. /\ Decoding0[0].value[d] = Failed(d) /\ Decoding0[0].pairs[d] = Failed(d)
        /\ \A k \in Nat : Decoding0[0].elements[k][d] = Failed(d)
    BY Decoding0Round
  <2>2. \A s : Steady(Decoder0, Failed(d), s, y)
    BY FailedSteady
  <2> QED BY <2>1, <2>2, Zenon
<1>2. ASSUME NEW n \in Nat, n \in T PROVE n + 1 \in T
  <2> SUFFICES ASSUME NEW m \in Nat, n + 1 <= m PROVE InnerSteady0(Decoding0[n + 1], Decoding0[m], y)
    OBVIOUS
  <2>1. n + 1 \in Nat /\ n + 1 # 0 /\ (n + 1) - 1 = n /\ m # 0 /\ m - 1 \in Nat /\ n <= m - 1
    OBVIOUS
  <2>2. InnerSteady0(Decoding0[n], Decoding0[m - 1], y)
    BY <1>2, <2>1
  <2> DEFINE inner == Decoding0[n]
             wider == Decoding0[m - 1]
             j == n + 1
  <2> HIDE DEF T
  <2> SUFFICES ASSUME NEW d \in Decoder0
               PROVE  /\ Steady(Decoder0, Decoding0[j].value[d], Decoding0[m].value[Longer(d, y)], y)
                      /\ Steady(Decoder0, Decoding0[j].pairs[d], Decoding0[m].pairs[Longer(d, y)], y)
                      /\ \A k \in Nat : Steady(Decoder0, Decoding0[j].elements[k][d],
                                                Decoding0[m].elements[k][Longer(d, y)], y)
    BY DEF InnerSteady0
  <2>3. Longer(d, y) \in Decoder0
    BY LongerHas
  <2>4. /\ Decoding0[j].value[d] = DecodeByMarker0(inner, d)
        /\ Decoding0[j].pairs[d] = DecodePairs0(inner, d)
        /\ \A k \in Nat : Decoding0[j].elements[k][d] = DecodeElements(inner, d, k)
    <3>1. j \in Nat /\ j # 0 /\ j - 1 = n
      BY <2>1
    <3> HIDE DEF j
    <3> QED BY <3>1, Decoding0Round
  <2>5. /\ Decoding0[m].value[Longer(d, y)] = DecodeByMarker0(wider, Longer(d, y))
        /\ Decoding0[m].pairs[Longer(d, y)] = DecodePairs0(wider, Longer(d, y))
        /\ \A k \in Nat :
             Decoding0[m].elements[k][Longer(d, y)] = DecodeElements(wider, Longer(d, y), k)
    BY <2>1, <2>3, Decoding0Round
  <2> HIDE DEF inner, wider, j
  <2>6. InnerSteady0(inner, wider, y)
    BY <2>2 DEF inner, wider
  <2>7. /\ Steady(Decoder0, DecodeByMarker0(inner, d), DecodeByMarker0(wider, Longer(d, y)), y)
        /\ Steady(Decoder0, DecodePairs0(inner, d), DecodePairs0(wider, Longer(d, y)), y)
        /\ \A k \in Nat : Steady(Decoder0, DecodeElements(inner, d, k),
                                  DecodeElements(wider, Longer(d, y), k), y)
    BY <2>6, DecodeByMarker0Steady, DecodePairs0Steady, DecodeElementsSteady, Zenon
  <2> QED
    BY <2>4, <2>5, <2>7, Zenon
<1>3. Nat \subseteq T
  <2> HIDE DEF T
  <2> QED BY <1>1, <1>2, SetInduction
<1> QED
  BY <1>3

\* At0 with y behind it.
LEMMA LongerAt0 ==
    ASSUME NEW x \in Seq(Byte), NEW y \in Seq(Byte)
    PROVE  At0(x) \in Decoder0 /\ Longer(At0(x), y) = At0(x \o y) /\ At0(x).ok
<1>1. At0(x).in = x
  BY AtHas
<1> DEFINE z == x \o y
<1>2. Longer(At0(x), y) = [At0(x) EXCEPT !.in = z]
  BY <1>1 DEF Longer
<1> HIDE DEF z
<1>3. Longer(At0(x), y) = At0(z)
  BY <1>2, OnlyIn0
<1>4. At0(x) \in Decoder0 /\ At0(x).ok
  BY DEF At0, Decoder0
<1> QED
  BY <1>3, <1>4 DEF z

\* Nothing is read of less than the bytes of a value.
LEMMA ReadsOne0 ==
    ASSUME NEW b \in Seq(Byte), NEW x, Reads0(b, x), NEW s, NEW o, NEW t, NEW p
    PROVE  ReadsOne(0, b, s, o, t, p, x)
<1>0. /\ b # <<>>
      /\ \A rest \in Seq(Byte) : \A m \in Nat :
           m > Len(b) => Decoding0[m].value[At0(b \o rest)] = Ok(At0(rest), x)
  BY Zenon DEF Reads0
<1>1. \A d : Decode(0, d) = Decode0(d)
  BY DEF Decode
<1>2. \A u : At(0, u, s, o) = At0(u) /\ At(0, u, t, p) = At0(u)
  BY DEF At
<1>3. ASSUME NEW rest \in Seq(Byte)
      PROVE  Decode0(At0(b \o rest)) = Ok(At0(rest), x)
  <2> DEFINE z == b \o rest
  <2>1. Join2(b, rest)
    BY JoinTwo
  <2>2. z \in Seq(Byte) /\ Len(z) \in Nat /\ Len(z) + 1 > Len(b) /\ Len(z) + 1 \in Nat
    BY <2>1 DEF Join2
  <2>3. Decode0(At0(z)) = Decoding0[Len(z) + 1].value[At0(z)]
    <3> HIDE DEF z
    <3>1. At0(z).in = z
      BY AtHas
    <3> QED BY <3>1, Zenon DEF Decode0
  <2> DEFINE k == Len(z) + 1
  <2>4. k \in Nat /\ k > Len(b)
    BY <2>2
  <2> HIDE DEF k
  <2>5. Decoding0[k].value[At0(b \o rest)] = Ok(At0(rest), x)
    BY <1>0, <2>4, Zenon
  <2> QED
    BY <2>3, <2>5, Zenon DEF k
<1>4. ASSUME NEW y \in Seq(Byte), NEW z \in Seq(Byte), SameJoin(y, z, b, <<>>), z # <<>>
      PROVE  ~Decode0(At0(y)).d.ok
  <2> DEFINE n == Len(y) + 1
             m == Len(y) + Len(b) + 1
             r == Decoding0[n].value[At0(y)]
             s1 == Decoding0[m].value[Longer(At0(y), z)]
  <2>0. n \in Nat /\ m \in Nat /\ n <= m /\ m > Len(b)
    BY LenProperties
  <2>1. Decode0(At0(y)) = r
    <3>1. At0(y).in = y
      BY AtHas
    <3> QED BY <3>1, Zenon DEF Decode0
  <2>2. Steady(Decoder0, r, s1, z)
    <3> HIDE DEF n, m
    <3>1. InnerSteady0(Decoding0[n], Decoding0[m], z)
      BY <2>0, Decoding0Steady
    <3>2. At0(y) \in Decoder0
      BY LongerAt0
    <3> QED BY <3>1, <3>2, Zenon DEF InnerSteady0
  <2>3. s1 = Ok(At0(<<>>), x)
    <3> HIDE DEF m, n, r
    <3> DEFINE none == <<>>
    <3>1. y \o z = b \o none /\ none \in Seq(Byte)
      BY <1>4 DEF SameJoin
    <3>2. Longer(At0(y), z) = At0(y \o z)
      BY LongerAt0
    <3>3. Decoding0[m].value[At0(b \o none)] = Ok(At0(none), x)
      BY <1>0, <2>0, <3>1, Zenon
    <3> QED BY <3>1, <3>2, <3>3, Zenon
  <2> HIDE DEF n, m, r, s1
  <2>4. SUFFICES ASSUME r.d.ok PROVE FALSE
    BY <2>1, Zenon
  <2>5. r.d \in Decoder0 /\ s1.d = Longer(r.d, z)
    BY <2>2, <2>4, SteadyHas
  <2>6. s1.d = At0(<<>>)
    BY <2>3, OkHas
  <2>7. Len(r.d.in \o z) = Len(r.d.in) + Len(z) /\ Longer(r.d, z).in = r.d.in \o z
        /\ Len(r.d.in) \in Nat /\ Len(z) \in Nat
    BY <2>5, LongerHas
  <2>8. At0(<<>>).in = <<>>
    BY AtHas
  <2>9. Len(z) # 0
    BY <1>4, EmptySeq
  <2> QED
    BY <2>5, <2>6, <2>7, <2>8, <2>9
<1>5. ASSUME NEW y \in Seq(Byte), NEW z \in Seq(Byte), y \o z = b /\ z # <<>>
      PROVE  ~Decode0(At0(y)).d.ok
  <2>1. b \o <<>> = b
    BY JoinNothing
  <2>2. SameJoin(y, z, b, <<>>)
    BY <1>5, <2>1, Zenon DEF SameJoin
  <2> QED BY <1>4, <1>5, <2>2, Zenon
<1> QED
  BY <1>0, <1>1, <1>2, <1>3, <1>5, Zenon DEF ReadsOne

-----------------------------------------------------------------------------
(* The same of AMF3.                                                       *)

\* What four bytes sum up to.
FourSevens(big, p, q, r, t) == (p % 128) * big + (q % 128) * (128 * 256) + (r % 128) * 256 + t

\* It is an integer.
LEMMA FourSevensIs ==
    ASSUME NEW big \in Int, NEW p \in Int, NEW q \in Int, NEW r \in Int, NEW t \in Int
    PROVE  FourSevens(big, p, q, r, t) \in Int
<1> DEFINE first == (p % 128) * big
<1>1. first \in Int
  OBVIOUS
<1> HIDE DEF first
<1>2. first + (q % 128) * (128 * 256) + (r % 128) * 256 + t \in Int
  BY <1>1
<1> QED
  BY <1>2 DEF first, FourSevens

\* A number that is all there is read alike with more behind it.
LEMMA NumberSteady ==
    ASSUME NEW x \in Seq(Byte), NEW y \in Seq(Byte), U29Length(x) # 0
    PROVE  /\ U29Length(x \o y) = U29Length(x) /\ ReadU29(x \o y) = ReadU29(x)
           /\ U29Length(x) \in 1 .. Len(x) /\ U29Length(x) \in 1 .. 4 /\ ReadU29(x) \in Int
<1> DEFINE z == x \o y
<1>1. /\ z \in Seq(Byte) /\ Len(z) = Len(x) + Len(y) /\ Len(x) \in Nat /\ Len(y) \in Nat
      /\ \A i \in 1 .. Len(x) : z[i] = x[i]
  <2>1. /\ z \in Seq(Byte) /\ Len(z) = Len(x) + Len(y)
        /\ \A i \in 1 .. Len(x) + Len(y) : z[i] = IF i <= Len(x) THEN x[i] ELSE y[i - Len(x)]
    BY ConcatProperties
  <2>2. Len(x) \in Nat /\ Len(y) \in Nat
    BY LenProperties
  <2> HIDE DEF z
  <2> QED BY <2>1, <2>2
<1> HIDE DEF z
<1>2. \A i \in 1 .. Len(x) : x[i] \in 0 .. 255
  BY ElementOfSeq DEF Byte
<1> DEFINE n == Len(x)
<1>3. \A i \in 1 .. 4 : i <= n => z[i] = x[i] /\ x[i] \in 0 .. 255
  BY <1>1, <1>2
<1>4. /\ 1 <= n => z[1] = x[1] /\ x[1] \in 0 .. 255
      /\ 2 <= n => z[2] = x[2] /\ x[2] \in 0 .. 255
      /\ 3 <= n => z[3] = x[3] /\ x[3] \in 0 .. 255
      /\ 4 <= n => z[4] = x[4] /\ x[4] \in 0 .. 255
  BY <1>3
<1>5. n <= Len(z) /\ n \in Nat /\ Len(z) \in Nat
  BY <1>1
<1>6. /\ U29Length(z) = U29Length(x)
      /\ U29Length(x) \in 1 .. n /\ U29Length(x) \in 1 .. 4
  BY <1>4, <1>5 DEF U29Length, EndsAt
<1> DEFINE u == U29Length(x)
           Same(i) == z[i] = x[i] /\ x[i] \in Int
<1>7. /\ u >= 1 => Same(1)
      /\ u >= 2 => Same(2)
      /\ u >= 3 => Same(3)
      /\ u >= 4 => Same(4)
  <2> HIDE DEF u
  <2>1. u \in 1 .. n
    BY <1>6 DEF u
  <2> HIDE DEF n
  <2>2. \A i \in 1 .. 4 : i <= n => Same(i)
    <3> SUFFICES ASSUME NEW i \in 1 .. 4, i <= n PROVE Same(i)
      OBVIOUS
    <3>1. z[i] = x[i] /\ x[i] \in 0 .. 255
      BY <1>3, Zenon DEF n
    <3>2. \A b \in 0 .. 255 : b \in Int
      OBVIOUS
    <3> QED BY <3>1, <3>2, Zenon
  <2> QED BY <1>5, <2>1, <2>2
<1>8. u \in {1, 2, 3, 4}
  BY <1>6
<1>9. ReadU29(z) = ReadU29(x) /\ ReadU29(x) \in Int
  <2>1. CASE u = 1
    <3>1. ReadU29(x) = x[1] /\ ReadU29(z) = z[1]
      BY <1>6, <2>1 DEF ReadU29
    <3>2. Same(1)
      BY <1>7, <2>1
    <3> QED BY <3>1, <3>2
  <2>2. CASE u = 2
    <3>1. ReadU29(x) = (x[1] % 128) * 128 + x[2] /\ ReadU29(z) = (z[1] % 128) * 128 + z[2]
      BY <1>6, <2>2 DEF ReadU29
    <3>2. Same(1) /\ Same(2)
      BY <1>7, <2>2
    <3> QED BY <3>1, <3>2
  <2>3. CASE u = 3
    <3>1. /\ ReadU29(x) = (x[1] % 128) * TwoTo14 + (x[2] % 128) * 128 + x[3]
          /\ ReadU29(z) = (z[1] % 128) * TwoTo14 + (z[2] % 128) * 128 + z[3]
      BY <1>6, <2>3 DEF ReadU29
    <3>2. Same(1) /\ Same(2) /\ Same(3)
      BY <1>7, <2>3
    <3>3. TwoTo14 \in Int
      BY DEF TwoTo14
    <3>4. (x[1] % 128) * TwoTo14 \in Int
      BY <3>2, <3>3
    <3> QED BY <3>1, <3>2, <3>4, SMTT(40)
  <2>4. CASE u = 4
    <3> DEFINE big == TwoTo14 * 256
    <3>1. /\ ReadU29(x) = SignExtend(FourSevens(big, x[1], x[2], x[3], x[4]))
          /\ ReadU29(z) = SignExtend(FourSevens(big, z[1], z[2], z[3], z[4]))
      BY <1>6, <2>4 DEF ReadU29, FourSevens
    <3>2. Same(1) /\ Same(2) /\ Same(3) /\ Same(4)
      BY <1>7, <2>4
    <3>3. big \in Int
      BY DEF TwoTo14
    <3> HIDE DEF big
    <3>5. FourSevens(big, x[1], x[2], x[3], x[4]) \in Int
      BY <3>2, <3>3, FourSevensIs
    <3>6. TwoTo28 \in Int /\ TwoTo29 \in Int
      BY Powers DEF TwoTo29, TwoTo28, TwoTo21
    <3>7. \A m \in Int : SignExtend(m) \in Int
      BY <3>6 DEF SignExtend
    <3> QED BY <3>1, <3>2, <3>5, <3>7, Zenon
  <2> HIDE DEF u
  <2> QED BY <1>8, <2>1, <2>2, <2>3, <2>4
<1> QED
  BY <1>5, <1>6, <1>9 DEF z

\* What is before a place, and what is after it.
LEMMA SplitAt ==
    ASSUME NEW x \in Seq(Byte), NEW n \in 0 .. Len(x)
    PROVE  /\ SubSeq(x, 1, n) \in Seq(Byte) /\ Len(SubSeq(x, 1, n)) = n
           /\ SubSeq(x, n + 1, Len(x)) \in Seq(Byte)
           /\ x = SubSeq(x, 1, n) \o SubSeq(x, n + 1, Len(x))
<1> DEFINE d == At0(x)
<1>1. d \in Decoder0 /\ d.in = x
  BY AtHas, LongerAt0
<1>2. \A i \in 1 .. Len(x) : x[i] \in Byte
  BY ElementOfSeq
<1>3. Len(x) \in Nat /\ n \in Nat /\ n <= Len(x)
  BY LenProperties
<1>4. SubSeq(x, 1, n) \in Seq(Byte) /\ Len(SubSeq(x, 1, n)) = n
  <2>1. \A i \in 1 .. n : x[i] \in Byte
    BY <1>2, <1>3
  <2> QED BY <1>3, <2>1, SubSeqProperties
<1>5. SubSeq(x, n + 1, Len(x)) \in Seq(Byte) /\ Len(SubSeq(x, n + 1, Len(x))) = Len(x) - n
  <2>1. \A i \in n + 1 .. Len(x) : x[i] \in Byte
    BY <1>2, <1>3
  <2> QED BY <1>3, <2>1, SubSeqProperties
<1> DEFINE a == SubSeq(x, 1, n)
           c == SubSeq(x, n + 1, Len(x))
<1>6. \A i \in 1 .. n : a[i] = x[i]
  BY <1>3
<1>7. \A i \in 1 .. Len(x) - n : c[i] = x[i + n]
  BY <1>3
<1> HIDE DEF a, c
<1>8. x = a \o c
  <2>1. /\ a \o c \in Seq(Byte) /\ Len(a \o c) = Len(a) + Len(c)
        /\ \A i \in 1 .. Len(a) + Len(c) : (a \o c)[i] = IF i <= Len(a) THEN a[i] ELSE c[i - Len(a)]
    BY <1>4, <1>5, ConcatProperties DEF a, c
  <2>2. Len(a) = n /\ Len(c) = Len(x) - n
    BY <1>4, <1>5 DEF a, c
  <2>3. Len(a \o c) = Len(x)
    BY <1>3, <2>1, <2>2
  <2>4. ASSUME NEW i \in 1 .. Len(x) PROVE x[i] = (a \o c)[i]
    <3>0. i \in 1 .. Len(a) + Len(c)
      BY <1>3, <2>2
    <3>1. CASE i <= n
      <4>1. i \in 1 .. n
        BY <1>3, <3>1
      <4> QED BY <1>6, <2>1, <2>2, <3>0, <3>1, <4>1
    <3>2. CASE ~(i <= n)
      <4>1. i - n \in 1 .. Len(x) - n /\ (i - n) + n = i
        BY <1>3, <3>2
      <4> QED BY <1>7, <2>1, <2>2, <3>0, <3>2, <4>1
    <3> QED BY <3>1, <3>2
  <2> QED
    BY <2>1, <2>3, <2>4, SeqEqual
<1> QED
  BY <1>4, <1>5, <1>8 DEF a, c

\* At3 with y behind it.
LEMMA LongerAt3 ==
    ASSUME NEW x \in Seq(Byte), NEW y \in Seq(Byte), NEW s \in StringTable, NEW o \in ObjectTable
    PROVE  At3(x, s, o) \in Decoder3 /\ Longer(At3(x, s, o), y) = At3(x \o y, s, o) /\ At3(x, s, o).ok
<1>1. At3(x, s, o).in = x
  BY AtHas
<1> DEFINE z == x \o y
<1>2. Longer(At3(x, s, o), y) = [At3(x, s, o) EXCEPT !.in = z]
  BY <1>1 DEF Longer
<1> HIDE DEF z
<1>3. Longer(At3(x, s, o), y) = At3(z, s, o)
  BY <1>2, OnlyIn3
<1> QED
  BY <1>3, AtHas, AtType3 DEF z

\* The number that begins what a decoder has.
LEMMA ReadNumberSteady ==
    ASSUME NEW d \in Decoder3, NEW y \in Seq(Byte)
    PROVE  /\ Steady(Decoder3, ReadNumber(d), ReadNumber(Longer(d, y)), y)
           /\ ReadNumber(d).d.ok => ReadNumber(d).val \in Int
<1>0. /\ Longer(d, y) \in Decoder3 /\ Longer(d, y).ok = d.ok /\ Longer(d, y).in = d.in \o y
      /\ d.in \in Seq(Byte) /\ d.in \o y \in Seq(Byte)
  BY LongerHas
<1>1. CASE U29Length(d.in) = 0
  <2>1. ReadNumber(d) = Failed(d)
    BY <1>1, Zenon DEF ReadNumber
  <2> QED
    BY <2>1, FailedSteady
<1>2. CASE U29Length(d.in) # 0
  <2> DEFINE b == d.in
             x == b \o y
             n == U29Length(b)
             a == SubSeq(b, 1, n)
             c == SubSeq(b, n + 1, Len(b))
             e == [d EXCEPT !.in = c]
             f == Longer(d, y)
  <2>1. /\ U29Length(x) = n /\ ReadU29(x) = ReadU29(b) /\ n \in 1 .. Len(b) /\ ReadU29(b) \in Int
    BY <1>0, <1>2, NumberSteady
  <2>2. n \in 0 .. Len(b) /\ n # 0
    BY <1>0, <2>1, LenProperties
  <2>3. a \in Seq(Byte) /\ Len(a) = n /\ c \in Seq(Byte) /\ b = a \o c
    <3> HIDE DEF n
    <3> QED BY <1>0, <2>2, SplitAt
  <2>4. ReadNumber(d) = Ok(e, ReadU29(b))
    <3>1. e = [d EXCEPT !.in = SubSeq(@, U29Length(@) + 1, Len(@))]
      OBVIOUS
    <3> QED BY <1>2, <3>1, Zenon DEF ReadNumber
  <2>5. e \in Decoder3 /\ e.in = c
    <3> HIDE DEF c
    <3> QED BY <2>3 DEF Decoder3
  <2>6. Join3(a, c, y)
    <3> HIDE DEF a, c
    <3> QED BY <2>3, JoinThree, Zenon
  <2>7. x = a \o (c \o y) /\ c \o y \in Seq(Byte)
    <3> HIDE DEF a, c, b
    <3> QED BY <2>3, <2>6, Zenon DEF Join3
  <2>8. SubSeq(x, n + 1, Len(x)) = c \o y
    <3> DEFINE z == c \o y
    <3> HIDE DEF a, c, b, x, z, n
    <3>1. SubSeq(a \o z, Len(a) + 1, Len(a \o z)) = z
      <4>1. a \in Seq(Byte) /\ z \in Seq(Byte)
        BY <2>3, <2>7 DEF z
      <4> QED BY <4>1, JoinedRest
    <3> QED BY <2>3, <2>7, <3>1 DEF z
  <2>9. ReadNumber(f) = Ok([f EXCEPT !.in = c \o y], ReadU29(b))
    <3>1. f.in = x
      BY <1>0
    <3>2. ReadNumber(f) = Ok([f EXCEPT !.in = SubSeq(@, U29Length(@) + 1, Len(@))], ReadU29(f.in))
      <4>1. U29Length(f.in) # 0
        BY <2>1, <2>2, <3>1, Zenon
      <4> QED BY <4>1, Zenon DEF ReadNumber
    <3> HIDE DEF f, x, c, a, n
    <3>3. [f EXCEPT !.in = SubSeq(@, U29Length(@) + 1, Len(@))] = [f EXCEPT !.in = c \o y]
      BY <2>1, <2>8, <3>1
    <3> QED
      BY <2>1, <3>1, <3>2, <3>3, Zenon
  <2>10. [f EXCEPT !.in = c \o y] = Longer(e, y)
    <3> DEFINE z == c \o y
               w == d.in \o y
    <3> HIDE DEF c
    <3>1. Longer(e, y) = [[d EXCEPT !.in = c] EXCEPT !.in = z]
      <4>1. [d EXCEPT !.in = c].in = c
        BY <2>5
      <4> QED BY <4>1 DEF Longer
    <3>2. f = [d EXCEPT !.in = w]
      BY DEF Longer
    <3> HIDE DEF z, w, f
    <3>3. [[d EXCEPT !.in = c] EXCEPT !.in = z] = [[d EXCEPT !.in = w] EXCEPT !.in = z]
      OBVIOUS
    <3> QED BY <3>1, <3>2, <3>3 DEF z
  <2> HIDE DEF a, b, c, e, f, x, n
  <2>11. ReadNumber(d).d = e /\ ReadNumber(d).val = ReadU29(b)
    BY <2>4, OkHas
  <2>12. Steady(Decoder3, ReadNumber(d), ReadNumber(f), y)
    BY <2>5, <2>9, <2>10, <2>11, Zenon DEF Steady
  <2> QED
    BY <2>1, <2>11, <2>12 DEF f
<1> QED
  BY <1>1, <1>2

\* A decoder by its parts.
With3(b, p, o, k) == [in |-> b, strs |-> p, objs |-> o, ok |-> k]

\* Its parts.
LEMMA FieldsOf3 ==
    ASSUME NEW b, NEW p, NEW o, NEW k
    PROVE  /\ With3(b, p, o, k).in = b /\ With3(b, p, o, k).strs = p /\ With3(b, p, o, k).objs = o
           /\ With3(b, p, o, k).ok = k
BY DEF With3

\* What changes of it.
LEMMA EnterStrs3 ==
    ASSUME NEW b, NEW p, NEW o, NEW k, NEW x
    PROVE  [With3(b, p, o, k) EXCEPT !.strs = Append(@, x)] = With3(b, Append(p, x), o, k)
<1> DEFINE d == With3(b, p, o, k)
           t == Append(p, x)
<1>1. d.strs = p
  BY FieldsOf3
<1>2. \A u : [With3(b, p, o, k) EXCEPT !.strs = u] = With3(b, u, o, k)
  BY DEF With3
<1>3. [d EXCEPT !.strs = t] = With3(b, t, o, k)
  <2> HIDE DEF t
  <2> QED BY <1>2
<1> HIDE DEF d
<1>4. [d EXCEPT !.strs = Append(@, x)] = [d EXCEPT !.strs = Append(p, x)]
  BY <1>1
<1> QED
  BY <1>3, <1>4 DEF d

\* An object entered in the table of objects.
LEMMA EnterObjs3 ==
    ASSUME NEW b, NEW p, NEW o, NEW k, NEW x
    PROVE  [With3(b, p, o, k) EXCEPT !.objs = Append(@, x)] = With3(b, p, Append(o, x), k)
<1> DEFINE d == With3(b, p, o, k)
           t == Append(o, x)
<1>1. d.objs = o
  BY FieldsOf3
<1>2. \A u : [With3(b, p, o, k) EXCEPT !.objs = u] = With3(b, p, u, k)
  BY DEF With3
<1>3. [d EXCEPT !.objs = t] = With3(b, p, t, k)
  <2> HIDE DEF t
  <2> QED BY <1>2
<1> HIDE DEF d
<1>4. [d EXCEPT !.objs = Append(@, x)] = [d EXCEPT !.objs = Append(o, x)]
  BY <1>1
<1> QED
  BY <1>3, <1>4 DEF d

\* More bytes behind those of a decoder.
LEMMA LongerOf3 ==
    ASSUME NEW b, NEW p, NEW o, NEW k, NEW y
    PROVE  Longer(With3(b, p, o, k), y) = With3(b \o y, p, o, k)
<1> DEFINE d == With3(b, p, o, k)
           t == b \o y
<1>1. d.in = b
  BY FieldsOf3
<1>2. \A u : [With3(b, p, o, k) EXCEPT !.in = u] = With3(u, p, o, k)
  BY DEF With3
<1>3. [d EXCEPT !.in = t] = With3(t, p, o, k)
  <2> HIDE DEF t
  <2> QED BY <1>2
<1> HIDE DEF d
<1>4. Longer(d, y) = [d EXCEPT !.in = b \o y]
  BY <1>1 DEF Longer
<1> QED
  BY <1>3, <1>4 DEF d

\* Which parts make a decoder.
LEMMA IsDecoder3 ==
    ASSUME NEW b \in Seq(Byte), NEW p \in StringTable, NEW o \in ObjectTable, NEW k \in BOOLEAN
    PROVE  With3(b, p, o, k) \in Decoder3
BY DEF With3, Decoder3, StringTable, ObjectTable

\* The tables, and what is entered there, whatever stands behind.
EntersAll3(d, y) ==
  /\ \A s \in Seq(Byte) :
       /\ [d EXCEPT !.strs = Append(@, s)] \in Decoder3
       /\ [Longer(d, y) EXCEPT !.strs = Append(@, s)] = Longer([d EXCEPT !.strs = Append(@, s)], y)
  /\ \A x \in Tabled :
       /\ [d EXCEPT !.objs = Append(@, x)] \in Decoder3
       /\ [Longer(d, y) EXCEPT !.objs = Append(@, x)] = Longer([d EXCEPT !.objs = Append(@, x)], y)

\* Entering is the same with more behind.
LEMMA LongerTablesOf ==
    ASSUME NEW b \in Seq(Byte), NEW p \in StringTable, NEW o \in ObjectTable, NEW k \in BOOLEAN,
           NEW y \in Seq(Byte)
    PROVE  EntersAll3(With3(b, p, o, k), y)
<1> DEFINE d == With3(b, p, o, k)
           z == b \o y
           l == With3(z, p, o, k)
<1>1. Longer(d, y) = l
  BY LongerOf3
<1>2. ASSUME NEW s \in Seq(Byte)
      PROVE  /\ [d EXCEPT !.strs = Append(@, s)] \in Decoder3
             /\ [l EXCEPT !.strs = Append(@, s)] = Longer([d EXCEPT !.strs = Append(@, s)], y)
  <2> DEFINE t == Append(p, s)
  <2>1. t \in StringTable
    BY DEF StringTable
  <2>2. [d EXCEPT !.strs = Append(@, s)] = With3(b, t, o, k)
    BY EnterStrs3
  <2>3. [l EXCEPT !.strs = Append(@, s)] = With3(z, t, o, k)
    <3> HIDE DEF z
    <3> QED BY EnterStrs3
  <2> HIDE DEF t
  <2>4. Longer(With3(b, t, o, k), y) = With3(z, t, o, k)
    BY LongerOf3
  <2>5. With3(b, t, o, k) \in Decoder3
    BY <2>1, IsDecoder3
  <2> HIDE DEF d, l
  <2> QED BY <2>2, <2>3, <2>4, <2>5
<1>3. ASSUME NEW x \in Tabled
      PROVE  /\ [d EXCEPT !.objs = Append(@, x)] \in Decoder3
             /\ [l EXCEPT !.objs = Append(@, x)] = Longer([d EXCEPT !.objs = Append(@, x)], y)
  <2> DEFINE t == Append(o, x)
  <2>1. t \in ObjectTable
    BY DEF ObjectTable
  <2>2. [d EXCEPT !.objs = Append(@, x)] = With3(b, p, t, k)
    BY EnterObjs3
  <2>3. [l EXCEPT !.objs = Append(@, x)] = With3(z, p, t, k)
    <3> HIDE DEF z
    <3> QED BY EnterObjs3
  <2> HIDE DEF t
  <2>4. Longer(With3(b, p, t, k), y) = With3(z, p, t, k)
    BY LongerOf3
  <2>5. With3(b, p, t, k) \in Decoder3
    BY <2>1, IsDecoder3
  <2> HIDE DEF d, l
  <2> QED BY <2>2, <2>3, <2>4, <2>5
<1> HIDE DEF d, l
<1> QED
  BY <1>1, <1>2, <1>3 DEF EntersAll3, d

\* The tables are the same with more behind, and so is what is entered.
LEMMA LongerTables ==
    ASSUME NEW d \in Decoder3, NEW y \in Seq(Byte)
    PROVE  /\ Longer(d, y).strs = d.strs /\ Longer(d, y).objs = d.objs
           /\ EntersAll3(d, y)
<1> DEFINE b == d.in
           p == d.strs
           o == d.objs
           k == d.ok
           z == b \o y
<1>1. b \in Seq(Byte) /\ p \in StringTable /\ o \in ObjectTable /\ k \in BOOLEAN
  BY DEF Decoder3, StringTable, ObjectTable
<1>2. d = With3(b, p, o, k)
  BY DEF Decoder3, With3
<1> HIDE DEF b, p, o, k, z
<1>3. Longer(With3(b, p, o, k), y) = With3(z, p, o, k)
  BY LongerOf3 DEF z
<1>4. EntersAll3(With3(b, p, o, k), y)
  BY <1>1, LongerTablesOf
<1>5. Longer(d, y) = With3(z, p, o, k)
  BY <1>2, <1>3, Zenon
<1>6. Longer(d, y).strs = p /\ Longer(d, y).objs = o
  BY <1>5, FieldsOf3
<1>7. EntersAll3(d, y)
  BY <1>2, <1>4, Zenon
<1> QED
  BY <1>6, <1>7 DEF p, o

\* An entry of a table.
LEMMA EntrySteady ==
    ASSUME NEW d \in Decoder3, NEW y \in Seq(Byte), NEW table, NEW n
    PROVE  /\ Steady(Decoder3, Entry(d, table, n), Entry(Longer(d, y), table, n), y)
           /\ Entry(d, table, n).d.ok => /\ Entry(d, table, n).d = d
                                         /\ Entry(d, table, n).val = table[n + 1] /\ n + 1 \in 1 .. Len(table)
<1>1. CASE n \in 0 .. Len(table) - 1
  <2>1. /\ Entry(d, table, n) = Ok(d, table[n + 1])
        /\ Entry(Longer(d, y), table, n) = Ok(Longer(d, y), table[n + 1])
    BY <1>1, Zenon DEF Entry
  <2>2. n + 1 \in 1 .. Len(table)
    BY <1>1
  <2>3. Entry(d, table, n).d = d /\ Entry(d, table, n).val = table[n + 1]
    BY <2>1, OkHas
  <2> QED
    BY <2>1, <2>2, <2>3, OkSteady, Zenon
<1>2. CASE n \notin 0 .. Len(table) - 1
  <2>1. Entry(d, table, n) = Failed(d)
    BY <1>2, Zenon DEF Entry
  <2> QED
    BY <2>1, FailedSteady
<1> QED
  BY <1>1, <1>2

\* A string or a reference to one.
LEMMA ReadStringSteady ==
    ASSUME NEW d \in Decoder3, NEW y \in Seq(Byte)
    PROVE  Steady(Decoder3, ReadStringWithReference(d), ReadStringWithReference(Longer(d, y)), y)
<1> DEFINE r == ReadNumber(d)
           s == ReadNumber(Longer(d, y))
           a == Take(r.d, r.val \div 2)
           g == Take(s.d, s.val \div 2)
           v == Ok([a.d EXCEPT !.strs = Append(@, a.val)], a.val)
           w == Ok([g.d EXCEPT !.strs = Append(@, g.val)], g.val)
           av == IF a.d.ok THEN v ELSE a
           gw == IF g.d.ok THEN w ELSE g
           q == IF Refers(r.val) THEN Entry(r.d, r.d.strs, r.val \div 2)
                ELSE IF r.val = 1 THEN Ok(r.d, <<>>) ELSE av
           p == IF Refers(s.val) THEN Entry(s.d, s.d.strs, s.val \div 2)
                ELSE IF s.val = 1 THEN Ok(s.d, <<>>) ELSE gw
<1>1. Steady(Decoder3, r, s, y)
  BY ReadNumberSteady
<1>2. /\ ReadStringWithReference(d) = (IF r.d.ok THEN q ELSE r)
      /\ ReadStringWithReference(Longer(d, y)) = (IF s.d.ok THEN p ELSE s)
  BY Zenon DEF ReadStringWithReference, Bind
<1>3. r.d.ok => Steady(Decoder3, q, p, y)
  <2> SUFFICES ASSUME r.d.ok PROVE Steady(Decoder3, q, p, y)
    OBVIOUS
  <2> HIDE DEF r, s
  <2>1. r.d \in Decoder3 /\ s.d = Longer(r.d, y) /\ s.val = r.val
    BY <1>1, SteadyHas
  <2>2. CASE Refers(r.val)
    <3> DEFINE n == r.val \div 2
    <3>1. q = Entry(r.d, r.d.strs, n)
      BY <2>2, Zenon
    <3>2. p = Entry(s.d, s.d.strs, n)
      BY <2>1, <2>2, Zenon
    <3>3. s.d.strs = r.d.strs
      BY <2>1, LongerTables
    <3> HIDE DEF q, p, n
    <3> QED BY <2>1, <3>1, <3>2, <3>3, EntrySteady, Zenon
  <2>3. CASE ~Refers(r.val) /\ r.val = 1
    <3>1. q = Ok(r.d, <<>>) /\ p = Ok(s.d, <<>>)
      BY <2>1, <2>3, Zenon
    <3> HIDE DEF q, p
    <3> QED BY <2>1, <3>1, OkSteady, Zenon
  <2>4. CASE ~Refers(r.val) /\ r.val # 1
    <3>1. q = av /\ p = gw
      BY <2>1, <2>4, Zenon
    <3> DEFINE n == r.val \div 2
    <3>2. a = Take(r.d, n) /\ g = Take(Longer(r.d, y), n)
      BY <2>1, Zenon
    <3> HIDE DEF a, g, n
    <3>3. Steady(Decoder3, a, g, y) /\ (a.d.ok => a.val \in Seq(Byte))
      BY <2>1, <3>2, TakeSteady
    <3>4. a.d.ok => Steady(Decoder3, v, w, y)
      <4> SUFFICES ASSUME a.d.ok PROVE Steady(Decoder3, v, w, y)
        OBVIOUS
      <4>1. a.d \in Decoder3 /\ g.d = Longer(a.d, y) /\ g.val = a.val
        BY <3>3, SteadyHas
      <4> DEFINE e == [a.d EXCEPT !.strs = Append(@, a.val)]
      <4> DEFINE l == Longer(a.d, y)
                 x == a.val
                 f == [l EXCEPT !.strs = Append(@, x)]
      <4>2. e \in Decoder3 /\ f = Longer(e, y)
        <5>1. EntersAll3(a.d, y)
          BY <4>1, LongerTables
        <5>2. x \in Seq(Byte)
          BY <3>3
        <5> HIDE DEF x
        <5> QED BY <5>1, <5>2, Zenon DEF EntersAll3, x
      <4>5. g.d = l /\ g.val = x
        BY <4>1
      <4>6. w = Ok(f, x)
        <5> HIDE DEF l, x
        <5> QED BY <4>5, Zenon
      <4>3. v = Ok(e, a.val) /\ w = Ok(Longer(e, y), a.val)
        <5> HIDE DEF f, w
        <5> QED BY <4>2, <4>6, Zenon
      <4> HIDE DEF e, v, w
      <4> QED BY <4>2, <4>3, OkSteady, Zenon
    <3> HIDE DEF v, w
    <3>5. Steady(Decoder3, av, gw, y)
      BY <3>3, <3>4, ThenSteady
    <3> HIDE DEF q, p, av, gw
    <3> QED BY <3>1, <3>5, Zenon
  <2> QED
    BY <2>2, <2>3, <2>4, ZenonT(60)
<1> HIDE DEF r, s, q, p
<1> QED
  BY <1>1, <1>2, <1>3, ThenSteady

\* An object that was there.
LEMMA ReferredSteady ==
    ASSUME NEW d \in Decoder3, NEW y \in Seq(Byte), NEW n, NEW tag
    PROVE  Steady(Decoder3, Referred(d, n, tag), Referred(Longer(d, y), n, tag), y)
<1> DEFINE l == Longer(d, y)
           r == Entry(d, d.objs, n)
           s == Entry(l, l.objs, n)
           x(obj) == IF tag = "AMF3Date" THEN obj ELSE <<"again", tag, n>>
           q == IF r.val[1] # tag THEN Failed(r.d) ELSE Ok(r.d, x(r.val))
           p == IF s.val[1] # tag THEN Failed(s.d) ELSE Ok(s.d, x(s.val))
<1>1. Steady(Decoder3, r, s, y)
  <2>1. l.objs = d.objs
    BY LongerTables
  <2> QED BY <2>1, EntrySteady, Zenon
<1>2. /\ Referred(d, n, tag) = (IF r.d.ok THEN q ELSE r)
      /\ Referred(l, n, tag) = (IF s.d.ok THEN p ELSE s)
  BY Zenon DEF Referred, Bind
<1>3. r.d.ok => Steady(Decoder3, q, p, y)
  <2> SUFFICES ASSUME r.d.ok PROVE Steady(Decoder3, q, p, y)
    OBVIOUS
  <2> HIDE DEF r, s, x
  <2>1. r.d \in Decoder3 /\ s.d = Longer(r.d, y) /\ s.val = r.val
    BY <1>1, SteadyHas
  <2>2. CASE r.val[1] # tag
    <3>1. q = Failed(r.d)
      BY <2>2, Zenon
    <3> HIDE DEF q, p
    <3> QED BY <2>1, <3>1, FailedSteady
  <2>3. CASE r.val[1] = tag
    <3>1. q = Ok(r.d, x(r.val)) /\ p = Ok(s.d, x(s.val))
      BY <2>1, <2>3, Zenon
    <3>2. x(s.val) = x(r.val)
      BY <2>1, Zenon
    <3> HIDE DEF q, p
    <3> QED BY <2>1, <3>1, <3>2, OkSteady, Zenon
  <2> QED BY <2>2, <2>3
<1> HIDE DEF r, s, q, p, l
<1>4. Steady(Decoder3, Referred(d, n, tag), Referred(l, n, tag), y)
  BY <1>1, <1>2, <1>3, ThenSteady
<1> QED
  BY <1>4 DEF l

\* The eight bytes of a date, and what becomes of them.
LEMMA ReadTimeSteady ==
    ASSUME NEW d \in Decoder3, NEW y \in Seq(Byte)
    PROVE  /\ Steady(Decoder3, ReadTime(d), ReadTime(Longer(d, y)), y)
           /\ ReadTime(d).d.ok => ReadTime(d).val \in Bits
<1> DEFINE n == 8
           r == Take(d, n)
           s == Take(Longer(d, y), n)
           v == Ok(r.d, TimeFrom3(r.val))
           w == Ok(s.d, TimeFrom3(s.val))
<1>1. /\ Steady(Decoder3, r, s, y)
      /\ r.d.ok => r.val \in Seq(Byte) /\ Len(r.val) = n
  <2> HIDE DEF n
  <2>1. Decoder3 \in {Decoder0, Decoder3}
    OBVIOUS
  <2> QED BY <2>1, TakeSteady
<1>2. /\ ReadTime(d) = (IF r.d.ok THEN v ELSE r)
      /\ ReadTime(Longer(d, y)) = (IF s.d.ok THEN w ELSE s)
  BY Zenon DEF ReadTime, Bind
<1>3. r.d.ok => Steady(Decoder3, v, w, y)
  <2> SUFFICES ASSUME r.d.ok PROVE Steady(Decoder3, v, w, y)
    OBVIOUS
  <2> HIDE DEF r, s
  <2>1. r.d \in Decoder3 /\ s.d = Longer(r.d, y) /\ s.val = r.val
    BY <1>1, SteadyHas
  <2> QED BY <2>1, OkSteady, Zenon
<1>4. r.d.ok => TimeFrom3(r.val) \in Bits
  <2> SUFFICES ASSUME r.d.ok PROVE TimeFrom3(r.val) \in Bits
    OBVIOUS
  <2> DEFINE t == r.val
  <2>1. t \in Seq(Byte) /\ Len(t) = 8
    BY <1>1
  <2> HIDE DEF t
  <2>2. t \in [1 .. Len(t) -> Byte]
    BY <2>1, LenProperties
  <2>3. t \in Bits
    BY <2>1, <2>2, Zenon DEF Bits
  <2>4. TimeFrom3(t) \in Bits
    BY <2>3, DatesAreBits
  <2> QED BY <2>4 DEF t
<1> HIDE DEF r, s
<1>5. r.d.ok => v.val = TimeFrom3(r.val)
  BY OkHas
<1>6. ~r.d.ok => ~ReadTime(d).d.ok
  BY <1>2, Zenon
<1>7. r.d.ok => ReadTime(d) = v
  BY <1>2, Zenon
<1> HIDE DEF v, w
<1>8. ReadTime(d).d.ok => ReadTime(d).val \in Bits
  BY <1>4, <1>5, <1>6, <1>7
<1>9. Steady(Decoder3, ReadTime(d), ReadTime(Longer(d, y)), y)
  BY <1>1, <1>2, <1>3, ThenSteady
<1> QED
  BY <1>8, <1>9

\* A date or a reference to one.
LEMMA DecodeDateValueSteady ==
    ASSUME NEW d \in Decoder3, NEW y \in Seq(Byte)
    PROVE  Steady(Decoder3, DecodeDateValue(d), DecodeDateValue(Longer(d, y)), y)
<1> DEFINE r == ReadNumber(d)
           s == ReadNumber(Longer(d, y))
           ta == ReadTime(r.d)
           tg == ReadTime(s.d)
           a == Tagged("AMF3Date", ta)
           g == Tagged("AMF3Date", tg)
           v == Ok([a.d EXCEPT !.objs = Append(@, a.val)], a.val)
           w == Ok([g.d EXCEPT !.objs = Append(@, g.val)], g.val)
           av == IF a.d.ok THEN v ELSE a
           gw == IF g.d.ok THEN w ELSE g
           q == IF Refers(r.val) THEN Referred(r.d, r.val \div 2, "AMF3Date") ELSE av
           p == IF Refers(s.val) THEN Referred(s.d, s.val \div 2, "AMF3Date") ELSE gw
<1>1. Steady(Decoder3, r, s, y)
  BY ReadNumberSteady
<1>2. /\ DecodeDateValue(d) = (IF r.d.ok THEN q ELSE r)
      /\ DecodeDateValue(Longer(d, y)) = (IF s.d.ok THEN p ELSE s)
  BY Zenon DEF DecodeDateValue, Bind
<1>3. r.d.ok => Steady(Decoder3, q, p, y)
  <2> SUFFICES ASSUME r.d.ok PROVE Steady(Decoder3, q, p, y)
    OBVIOUS
  <2> HIDE DEF r, s
  <2>1. r.d \in Decoder3 /\ s.d = Longer(r.d, y) /\ s.val = r.val
    BY <1>1, SteadyHas
  <2>2. CASE Refers(r.val)
    <3> DEFINE n == r.val \div 2
    <3>1. q = Referred(r.d, n, "AMF3Date") /\ p = Referred(s.d, n, "AMF3Date")
      BY <2>1, <2>2, Zenon
    <3> HIDE DEF q, p, n
    <3> QED BY <2>1, <3>1, ReferredSteady, Zenon
  <2>3. CASE ~Refers(r.val)
    <3>1. q = av /\ p = gw
      BY <2>1, <2>3, Zenon
    <3>2. Steady(Decoder3, ta, tg, y) /\ (ta.d.ok => ta.val \in Bits)
      BY <2>1, ReadTimeSteady
    <3>3. /\ a.d.ok => ta.d.ok /\ a.val = <<"AMF3Date", ta.val>>
      <4>1. a = (IF ta.d.ok THEN Ok(ta.d, <<"AMF3Date", ta.val>>) ELSE ta)
        BY Zenon DEF Tagged, Bind
      <4> HIDE DEF a, ta
      <4>2. CASE ta.d.ok
        BY <4>1, <4>2, OkHas
      <4>3. CASE ~ta.d.ok
        BY <4>1, <4>3, Zenon
      <4> QED BY <4>2, <4>3
    <3> HIDE DEF ta, tg
    <3>4. Steady(Decoder3, a, g, y)
      BY <3>2, TaggedSteady
    <3> HIDE DEF a, g
    <3>5. a.d.ok => Steady(Decoder3, v, w, y)
      <4> SUFFICES ASSUME a.d.ok PROVE Steady(Decoder3, v, w, y)
        OBVIOUS
      <4>1. a.d \in Decoder3 /\ g.d = Longer(a.d, y) /\ g.val = a.val
        BY <3>4, SteadyHas
      <4>2. a.val \in Tabled
        <5> DEFINE t == ta.val
        <5>1. t \in Bits /\ a.val = <<"AMF3Date", t>>
          BY <3>2, <3>3, Zenon
        <5> HIDE DEF t
        <5> QED BY <5>1 DEF Tabled
      <4> DEFINE e == [a.d EXCEPT !.objs = Append(@, a.val)]
      <4> DEFINE l == Longer(a.d, y)
                 x == a.val
                 f == [l EXCEPT !.objs = Append(@, x)]
      <4>3. e \in Decoder3 /\ f = Longer(e, y)
        <5>1. EntersAll3(a.d, y)
          BY <4>1, LongerTables
        <5>2. x \in Tabled
          BY <4>2
        <5> HIDE DEF x
        <5> QED BY <5>1, <5>2, Zenon DEF EntersAll3, x
      <4>5. g.d = l /\ g.val = x
        BY <4>1
      <4>6. w = Ok(f, x)
        <5> HIDE DEF l, x
        <5> QED BY <4>5, Zenon
      <4>4. v = Ok(e, a.val) /\ w = Ok(Longer(e, y), a.val)
        <5> HIDE DEF f, w
        <5> QED BY <4>3, <4>6, Zenon
      <4> HIDE DEF e, v, w
      <4> QED BY <4>3, <4>4, OkSteady, Zenon
    <3> HIDE DEF v, w
    <3>6. Steady(Decoder3, av, gw, y)
      BY <3>4, <3>5, ThenSteady
    <3> HIDE DEF q, p, av, gw
    <3> QED BY <3>1, <3>6, Zenon
  <2> QED
    BY <2>2, <2>3, Zenon
<1> HIDE DEF r, s, q, p
<1> QED
  BY <1>1, <1>2, <1>3, ThenSteady

\* The same of every loop of the decoder: what the calls of "inner" read, those of
\* "wider" read with y behind it.
InnerSteady3(inner, wider, y) ==
  \A d \in Decoder3 :
    /\ Steady(Decoder3, inner.value[d], wider.value[Longer(d, y)], y)
    /\ Steady(Decoder3, inner.pairs[d], wider.pairs[Longer(d, y)], y)
    /\ \A k \in Nat : Steady(Decoder3, inner.dense[k][d], wider.dense[k][Longer(d, y)], y)

\* Keys and values.
LEMMA DecodePairs3Steady ==
    ASSUME NEW d \in Decoder3, NEW y \in Seq(Byte), NEW inner, NEW wider, InnerSteady3(inner, wider, y)
    PROVE  Steady(Decoder3, DecodePairs3(inner, d), DecodePairs3(wider, Longer(d, y)), y)
<1> DEFINE r == ReadStringWithReference(d)
           s == ReadStringWithReference(Longer(d, y))
           a == inner.value[r.d]
           g == wider.value[s.d]
           b == inner.pairs[a.d]
           h == wider.pairs[g.d]
           v == Ok(b.d, <<<<r.val, a.val>>>> \o b.val)
           w == Ok(h.d, <<<<s.val, g.val>>>> \o h.val)
           ab == IF b.d.ok THEN v ELSE b
           gh == IF h.d.ok THEN w ELSE h
           qa == IF a.d.ok THEN ab ELSE a
           pg == IF g.d.ok THEN gh ELSE g
           q == IF r.val = <<>> THEN Ok(r.d, <<>>) ELSE qa
           p == IF s.val = <<>> THEN Ok(s.d, <<>>) ELSE pg
<1>1. Steady(Decoder3, r, s, y)
  BY ReadStringSteady
<1>2. /\ DecodePairs3(inner, d) = (IF r.d.ok THEN q ELSE r)
      /\ DecodePairs3(wider, Longer(d, y)) = (IF s.d.ok THEN p ELSE s)
  BY ZenonT(60) DEF DecodePairs3, Bind
<1>3. r.d.ok => Steady(Decoder3, q, p, y)
  <2> SUFFICES ASSUME r.d.ok PROVE Steady(Decoder3, q, p, y)
    BY Zenon
  <2> HIDE DEF r, s
  <2>1. r.d \in Decoder3 /\ s.d = Longer(r.d, y) /\ s.val = r.val
    BY <1>1, SteadyHas
  <2>2. CASE r.val = <<>>
    <3>1. Steady(Decoder3, Ok(r.d, <<>>), Ok(s.d, <<>>), y)
      BY <2>1, OkSteady, Zenon
    <3>2. q = Ok(r.d, <<>>) /\ p = Ok(s.d, <<>>)
      BY <2>1, <2>2, Zenon
    <3> HIDE DEF q, p
    <3> QED BY <3>1, <3>2, Zenon
  <2>3. CASE r.val # <<>>
    <3>1. Steady(Decoder3, a, g, y)
      BY <2>1, Zenon DEF InnerSteady3
    <3>2. a.d.ok => Steady(Decoder3, ab, gh, y)
      <4> SUFFICES ASSUME a.d.ok PROVE Steady(Decoder3, ab, gh, y)
        OBVIOUS
      <4> HIDE DEF a, g
      <4>1. a.d \in Decoder3 /\ g.d = Longer(a.d, y) /\ g.val = a.val
        BY <3>1, SteadyHas
      <4>2. Steady(Decoder3, b, h, y)
        BY <4>1, Zenon DEF InnerSteady3
      <4>3. b.d.ok => Steady(Decoder3, v, w, y)
        <5> SUFFICES ASSUME b.d.ok PROVE Steady(Decoder3, v, w, y)
          OBVIOUS
        <5> HIDE DEF b, h
        <5>1. b.d \in Decoder3 /\ h.d = Longer(b.d, y) /\ h.val = b.val
          BY <4>2, SteadyHas
        <5> QED
          BY <2>1, <4>1, <5>1, OkSteady, Zenon
      <4> HIDE DEF b, h, v, w
      <4> QED
        BY <4>2, <4>3, ThenSteady
    <3> HIDE DEF a, g, ab, gh
    <3>3. Steady(Decoder3, qa, pg, y)
      BY <3>1, <3>2, ThenSteady
    <3>4. q = qa /\ p = pg
      BY <2>1, <2>3, Zenon
    <3> HIDE DEF q, p, qa, pg
    <3> QED BY <3>3, <3>4, Zenon
  <2> QED
    BY <2>2, <2>3, ZenonT(60)
<1> HIDE DEF r, s, q, p
<1> QED
  BY <1>1, <1>2, <1>3, ThenSteady

\* Elements.
LEMMA DecodeDenseSteady ==
    ASSUME NEW d \in Decoder3, NEW y \in Seq(Byte), NEW inner, NEW wider, InnerSteady3(inner, wider, y),
           NEW k \in Nat
    PROVE  Steady(Decoder3, DecodeDense(inner, d, k), DecodeDense(wider, Longer(d, y), k), y)
<1>1. CASE k = 0
  <2>1. /\ DecodeDense(inner, d, k) = Ok(d, <<>>)
        /\ DecodeDense(wider, Longer(d, y), k) = Ok(Longer(d, y), <<>>)
    BY <1>1, Zenon DEF DecodeDense
  <2> QED
    BY <2>1, OkSteady, Zenon
<1>2. CASE k # 0
  <2> DEFINE j == k - 1
             a == inner.value[d]
             g == wider.value[Longer(d, y)]
             b == inner.dense[j][a.d]
             h == wider.dense[j][g.d]
             v == Ok(b.d, <<a.val>> \o b.val)
             w == Ok(h.d, <<g.val>> \o h.val)
             ab == IF b.d.ok THEN v ELSE b
             gh == IF h.d.ok THEN w ELSE h
  <2>0. j \in Nat
    BY <1>2
  <2>1. /\ DecodeDense(inner, d, k) = (IF a.d.ok THEN ab ELSE a)
        /\ DecodeDense(wider, Longer(d, y), k) = (IF g.d.ok THEN gh ELSE g)
    BY <1>2, Zenon DEF DecodeDense, Bind
  <2> HIDE DEF j
  <2>2. Steady(Decoder3, a, g, y)
    BY Zenon DEF InnerSteady3
  <2>3. a.d.ok => Steady(Decoder3, ab, gh, y)
    <3> SUFFICES ASSUME a.d.ok PROVE Steady(Decoder3, ab, gh, y)
      BY Zenon
    <3> HIDE DEF a, g
    <3>1. a.d \in Decoder3 /\ g.d = Longer(a.d, y) /\ g.val = a.val
      BY <2>2, SteadyHas
    <3>2. Steady(Decoder3, b, h, y)
      BY <2>0, <3>1, ZenonT(60) DEF InnerSteady3
    <3>3. b.d.ok => Steady(Decoder3, v, w, y)
      <4> SUFFICES ASSUME b.d.ok PROVE Steady(Decoder3, v, w, y)
        OBVIOUS
      <4> HIDE DEF b, h
      <4>1. b.d \in Decoder3 /\ h.d = Longer(b.d, y) /\ h.val = b.val
        BY <3>2, SteadyHas
      <4> QED
        BY <3>1, <4>1, OkSteady, Zenon
    <3> HIDE DEF b, h, v, w
    <3> QED
      BY <3>2, <3>3, ThenSteady
  <2> HIDE DEF a, g, ab, gh
  <2> QED
    BY <2>1, <2>2, <2>3, ThenSteady
<1> QED
  BY <1>1, <1>2

\* An array or an object that is entered.
LEMMA EnteredSteady ==
    ASSUME NEW d \in Decoder3, NEW y \in Seq(Byte), NEW tag \in {"AMF3Array", "AMF3Object"}
    PROVE  Entered(d, tag) \in Decoder3 /\ Entered(Longer(d, y), tag) = Longer(Entered(d, tag), y)
<1>1. EntersAll3(d, y)
  BY LongerTables
<1> DEFINE x == <<tag>>
<1>2. x \in Tabled
  BY DEF Tabled
<1>3. Entered(d, tag) = [d EXCEPT !.objs = Append(@, x)]
      /\ Entered(Longer(d, y), tag) = [Longer(d, y) EXCEPT !.objs = Append(@, x)]
  BY DEF Entered
<1> HIDE DEF x
<1> QED
  BY <1>1, <1>2, <1>3, Zenon DEF EntersAll3

\* An array or a reference to one.
LEMMA DecodeArrayValueSteady ==
    ASSUME NEW d \in Decoder3, NEW y \in Seq(Byte), NEW inner, NEW wider, InnerSteady3(inner, wider, y)
    PROVE  Steady(Decoder3, DecodeArrayValue(inner, d), DecodeArrayValue(wider, Longer(d, y)), y)
<1> DEFINE r == ReadNumber(d)
           s == ReadNumber(Longer(d, y))
           e == Entered(r.d, "AMF3Array")
           f == Entered(s.d, "AMF3Array")
           a == inner.pairs[e]
           g == wider.pairs[f]
           b == inner.dense[r.val \div 2][a.d]
           h == wider.dense[s.val \div 2][g.d]
           v == Ok(b.d, <<"AMF3Array", [dense |-> b.val, associative |-> MapOf(a.val)]>>)
           w == Ok(h.d, <<"AMF3Array", [dense |-> h.val, associative |-> MapOf(g.val)]>>)
           bv == IF b.d.ok THEN v ELSE b
           hw == IF h.d.ok THEN w ELSE h
           ab == IF r.val < 0 THEN Failed(a.d) ELSE bv
           gh == IF s.val < 0 THEN Failed(g.d) ELSE hw
           qa == IF a.d.ok THEN ab ELSE a
           pg == IF g.d.ok THEN gh ELSE g
           q == IF Refers(r.val) THEN Referred(r.d, r.val \div 2, "AMF3Array") ELSE qa
           p == IF Refers(s.val) THEN Referred(s.d, s.val \div 2, "AMF3Array") ELSE pg
<1>1. Steady(Decoder3, r, s, y) /\ (r.d.ok => r.val \in Int)
  BY ReadNumberSteady
<1>2. /\ DecodeArrayValue(inner, d) = (IF r.d.ok THEN q ELSE r)
      /\ DecodeArrayValue(wider, Longer(d, y)) = (IF s.d.ok THEN p ELSE s)
  BY ZenonT(60) DEF DecodeArrayValue, Bind
<1>3. r.d.ok => Steady(Decoder3, q, p, y)
  <2> SUFFICES ASSUME r.d.ok PROVE Steady(Decoder3, q, p, y)
    BY Zenon
  <2>1. r.d \in Decoder3 /\ s.d = Longer(r.d, y) /\ s.val = r.val /\ r.val \in Int
    <3> HIDE DEF r, s
    <3> QED BY <1>1, SteadyHas
  <2> HIDE DEF r, s
  <2> DEFINE m == r.val \div 2
  <2>2. CASE Refers(r.val)
    <3>1. q = Referred(r.d, m, "AMF3Array") /\ p = Referred(s.d, m, "AMF3Array")
      BY <2>1, <2>2, Zenon
    <3> HIDE DEF q, p, m
    <3> QED BY <2>1, <3>1, ReferredSteady, Zenon
  <2>3. CASE ~Refers(r.val)
    <3>0. e \in Decoder3 /\ f = Longer(e, y)
      <4> DEFINE x == r.d
      <4>1. e = Entered(x, "AMF3Array") /\ f = Entered(Longer(x, y), "AMF3Array") /\ x \in Decoder3
        BY <2>1, Zenon
      <4> HIDE DEF x, e, f
      <4> QED BY <4>1, EnteredSteady
    <3> HIDE DEF e, f
    <3>1. Steady(Decoder3, a, g, y)
      BY <3>0, ZenonT(60) DEF InnerSteady3
    <3>2. a.d.ok => Steady(Decoder3, ab, gh, y)
      <4> SUFFICES ASSUME a.d.ok PROVE Steady(Decoder3, ab, gh, y)
        BY Zenon
      <4>0. b = inner.dense[m][a.d] /\ h = wider.dense[m][g.d]
        BY <2>1, Zenon
      <4> HIDE DEF a, g
      <4>1. a.d \in Decoder3 /\ g.d = Longer(a.d, y) /\ g.val = a.val
        BY <3>1, SteadyHas
      <4>2. CASE r.val < 0
        <5>1. ab = Failed(a.d) /\ gh = Failed(g.d)
          BY <2>1, <4>2, Zenon
        <5> HIDE DEF ab, gh
        <5> QED BY <4>1, <5>1, FailedSteady
      <4>3. CASE ~(r.val < 0)
        <5>0. ab = bv /\ gh = hw
          BY <2>1, <4>3, Zenon
        <5>1. m \in Nat
          <6> DEFINE n == r.val
          <6>1. n \in Int /\ ~(n < 0)
            BY <2>1, <4>3
          <6> HIDE DEF n
          <6>2. n \div 2 \in Nat
            BY <6>1
          <6> QED BY <6>2 DEF n
        <5> HIDE DEF m
        <5>2. Steady(Decoder3, b, h, y)
          BY <4>0, <4>1, <5>1, Zenon DEF InnerSteady3
        <5>3. b.d.ok => Steady(Decoder3, v, w, y)
          <6> SUFFICES ASSUME b.d.ok PROVE Steady(Decoder3, v, w, y)
            BY Zenon
          <6> HIDE DEF b, h
          <6>1. b.d \in Decoder3 /\ h.d = Longer(b.d, y) /\ h.val = b.val
            BY <5>2, SteadyHas
          <6> QED
            BY <4>1, <6>1, OkSteady, ZenonT(60)
        <5> HIDE DEF b, h, v, w
        <5>4. Steady(Decoder3, bv, hw, y)
          BY <5>2, <5>3, ThenSteady
        <5> HIDE DEF ab, gh, bv, hw
        <5> QED BY <5>0, <5>4, Zenon
      <4> QED BY <4>2, <4>3, ZenonT(60)
    <3> HIDE DEF a, g, ab, gh
    <3>3. Steady(Decoder3, qa, pg, y)
      BY <3>1, <3>2, ThenSteady
    <3>4. q = qa /\ p = pg
      BY <2>1, <2>3, Zenon
    <3> HIDE DEF q, p, qa, pg
    <3> QED BY <3>3, <3>4, Zenon
  <2> QED
    BY <2>2, <2>3, ZenonT(60)
<1>4. Steady(Decoder3, r, s, y)
  BY <1>1
<1> HIDE DEF r, s, q, p
<1> QED
  BY <1>2, <1>3, <1>4, ThenSteady

\* An object or a reference to one.
LEMMA DecodeObjectValueSteady ==
    ASSUME NEW d \in Decoder3, NEW y \in Seq(Byte), NEW inner, NEW wider, InnerSteady3(inner, wider, y)
    PROVE  Steady(Decoder3, DecodeObjectValue(inner, d), DecodeObjectValue(wider, Longer(d, y)), y)
<1> DEFINE r == ReadNumber(d)
           s == ReadNumber(Longer(d, y))
           e == Entered(r.d, "AMF3Object")
           f == Entered(s.d, "AMF3Object")
           a == ReadStringWithReference(e)
           g == ReadStringWithReference(f)
           b == inner.pairs[a.d]
           h == wider.pairs[g.d]
           v == Ok(b.d, <<"AMF3Object", MapOf(b.val), a.val>>)
           w == Ok(h.d, <<"AMF3Object", MapOf(h.val), g.val>>)
           ab == IF b.d.ok THEN v ELSE b
           gh == IF h.d.ok THEN w ELSE h
           qa == IF a.d.ok THEN ab ELSE a
           pg == IF g.d.ok THEN gh ELSE g
           q == IF Refers(r.val) THEN Referred(r.d, r.val \div 2, "AMF3Object") ELSE qa
           p == IF Refers(s.val) THEN Referred(s.d, s.val \div 2, "AMF3Object") ELSE pg
<1>1. Steady(Decoder3, r, s, y)
  BY ReadNumberSteady
<1>2. /\ DecodeObjectValue(inner, d) = (IF r.d.ok THEN q ELSE r)
      /\ DecodeObjectValue(wider, Longer(d, y)) = (IF s.d.ok THEN p ELSE s)
  BY ZenonT(60) DEF DecodeObjectValue, Bind
<1>3. r.d.ok => Steady(Decoder3, q, p, y)
  <2> SUFFICES ASSUME r.d.ok PROVE Steady(Decoder3, q, p, y)
    BY Zenon
  <2> HIDE DEF r, s
  <2>1. r.d \in Decoder3 /\ s.d = Longer(r.d, y) /\ s.val = r.val
    BY <1>1, SteadyHas
  <2> DEFINE m == r.val \div 2
  <2>2. CASE Refers(r.val)
    <3>1. q = Referred(r.d, m, "AMF3Object") /\ p = Referred(s.d, m, "AMF3Object")
      BY <2>1, <2>2, Zenon
    <3> HIDE DEF q, p, m
    <3> QED BY <2>1, <3>1, ReferredSteady, Zenon
  <2>3. CASE ~Refers(r.val)
    <3>0. e \in Decoder3 /\ f = Longer(e, y)
      <4> DEFINE x == r.d
      <4>1. e = Entered(x, "AMF3Object") /\ f = Entered(Longer(x, y), "AMF3Object") /\ x \in Decoder3
        BY <2>1, Zenon
      <4> HIDE DEF x, e, f
      <4> QED BY <4>1, EnteredSteady
    <3> HIDE DEF e, f
    <3>1. Steady(Decoder3, a, g, y)
      BY <3>0, ReadStringSteady, Zenon
    <3>2. a.d.ok => Steady(Decoder3, ab, gh, y)
      <4> SUFFICES ASSUME a.d.ok PROVE Steady(Decoder3, ab, gh, y)
        OBVIOUS
      <4> HIDE DEF a, g
      <4>1. a.d \in Decoder3 /\ g.d = Longer(a.d, y) /\ g.val = a.val
        BY <3>1, SteadyHas
      <4>2. Steady(Decoder3, b, h, y)
        BY <4>1, Zenon DEF InnerSteady3
      <4>3. b.d.ok => Steady(Decoder3, v, w, y)
        <5> SUFFICES ASSUME b.d.ok PROVE Steady(Decoder3, v, w, y)
          OBVIOUS
        <5> HIDE DEF b, h
        <5>1. b.d \in Decoder3 /\ h.d = Longer(b.d, y) /\ h.val = b.val
          BY <4>2, SteadyHas
        <5> QED
          BY <4>1, <5>1, OkSteady, Zenon
      <4> HIDE DEF b, h, v, w
      <4> QED
        BY <4>2, <4>3, ThenSteady
    <3> HIDE DEF a, g, ab, gh
    <3>3. Steady(Decoder3, qa, pg, y)
      BY <3>1, <3>2, ThenSteady
    <3>4. q = qa /\ p = pg
      BY <2>1, <2>3, Zenon
    <3> HIDE DEF q, p, qa, pg
    <3> QED BY <3>3, <3>4, Zenon
  <2> QED
    BY <2>2, <2>3
<1> HIDE DEF r, s, q, p
<1> QED
  BY <1>1, <1>2, <1>3, ThenSteady

\* The other markers are none of these.
Marked3 == {Undefined3, Null3, False3, True3, Integer3, Double3, String3, Date3, Array3, Object3}

\* decodeAMF3Value knows no other marker, and fails.
LEMMA OtherMarker3 ==
    ASSUME NEW inner, NEW d, NEW marker, marker \notin Marked3
    PROVE  DecodeMarked3(inner, d, marker) = Failed(d)
<1>1. /\ marker # Undefined3 /\ marker # Null3 /\ marker # Integer3 /\ marker # Double3
      /\ marker # String3 /\ marker # Date3 /\ marker # Array3 /\ marker # Object3
      /\ marker \notin {False3, True3}
  BY DEF Marked3
<1> QED
  BY <1>1, Zenon DEF DecodeMarked3

\* By the marker.
LEMMA DecodeMarked3Steady ==
    ASSUME NEW d \in Decoder3, NEW y \in Seq(Byte), NEW inner, NEW wider, InnerSteady3(inner, wider, y),
           NEW marker
    PROVE  Steady(Decoder3, DecodeMarked3(inner, d, marker),
                  DecodeMarked3(wider, Longer(d, y), marker), y)
<1> DEFINE l == Longer(d, y)
           R == DecodeMarked3(inner, d, marker)
           S == DecodeMarked3(wider, l, marker)
<1>1. CASE marker = Undefined3
  <2>1. R = Ok(d, <<"AMF3Undefined">>) /\ S = Ok(l, <<"AMF3Undefined">>)
    BY <1>1, ByMarker3, Zenon
  <2> HIDE DEF R, S
  <2>2. Steady(Decoder3, R, S, y)
    BY <2>1, OkSteady, Zenon
  <2> QED BY <2>2, Zenon DEF R, S, l
<1>2. CASE marker = Null3
  <2>1. R = Ok(d, <<"AMF3Null">>) /\ S = Ok(l, <<"AMF3Null">>)
    BY <1>2, ByMarker3, Zenon
  <2> HIDE DEF R, S
  <2>2. Steady(Decoder3, R, S, y)
    BY <2>1, OkSteady, Zenon
  <2> QED BY <2>2, Zenon DEF R, S, l
<1>3. CASE marker = False3
  <2>1. R = Ok(d, <<"AMF3Boolean", FALSE>>) /\ S = Ok(l, <<"AMF3Boolean", FALSE>>)
    BY <1>3, ByMarker3, Zenon
  <2> HIDE DEF R, S
  <2>2. Steady(Decoder3, R, S, y)
    BY <2>1, OkSteady, Zenon
  <2> QED BY <2>2, Zenon DEF R, S, l
<1>4. CASE marker = True3
  <2>1. R = Ok(d, <<"AMF3Boolean", TRUE>>) /\ S = Ok(l, <<"AMF3Boolean", TRUE>>)
    BY <1>4, ByMarker3, Zenon
  <2> HIDE DEF R, S
  <2>2. Steady(Decoder3, R, S, y)
    BY <2>1, OkSteady, Zenon
  <2> QED BY <2>2, Zenon DEF R, S, l
<1>5. CASE marker = Integer3
  <2>1. R = Tagged("AMF3Integer", ReadNumber(d)) /\ S = Tagged("AMF3Integer", ReadNumber(l))
    BY <1>5, ByMarker3, Zenon
  <2>2. Steady(Decoder3, ReadNumber(d), ReadNumber(l), y)
    BY ReadNumberSteady
  <2> HIDE DEF R, S, l
  <2>3. Steady(Decoder3, R, S, y)
    BY <2>1, <2>2, TaggedSteady
  <2> QED BY <2>3, Zenon DEF R, S, l
<1>6. CASE marker = Double3
  <2>1. R = Tagged("AMF3Double", Take(d, 8)) /\ S = Tagged("AMF3Double", Take(l, 8))
    BY <1>6, ByMarker3, Zenon
  <2>2. Steady(Decoder3, Take(d, 8), Take(l, 8), y)
    BY TakeSteady
  <2> HIDE DEF R, S, l
  <2>3. Steady(Decoder3, R, S, y)
    BY <2>1, <2>2, TaggedSteady
  <2> QED BY <2>3, Zenon DEF R, S, l
<1>7. CASE marker = String3
  <2>1. R = Tagged("AMF3String", ReadStringWithReference(d)) /\ S = Tagged("AMF3String", ReadStringWithReference(l))
    BY <1>7, ByMarker3, Zenon
  <2>2. Steady(Decoder3, ReadStringWithReference(d), ReadStringWithReference(l), y)
    BY ReadStringSteady
  <2> HIDE DEF R, S, l
  <2>3. Steady(Decoder3, R, S, y)
    BY <2>1, <2>2, TaggedSteady
  <2> QED BY <2>3, Zenon DEF R, S, l
<1>8. CASE marker = Date3
  <2>1. R = DecodeDateValue(d) /\ S = DecodeDateValue(l)
    BY <1>8, ByMarker3, Zenon
  <2> HIDE DEF R, S
  <2>2. Steady(Decoder3, R, S, y)
    BY <2>1, DecodeDateValueSteady, Zenon
  <2> QED BY <2>2, Zenon DEF R, S, l
<1>9. CASE marker = Array3
  <2>1. R = DecodeArrayValue(inner, d) /\ S = DecodeArrayValue(wider, l)
    BY <1>9, ByMarker3, Zenon
  <2> HIDE DEF R, S
  <2>2. Steady(Decoder3, R, S, y)
    BY <2>1, DecodeArrayValueSteady, Zenon
  <2> QED BY <2>2, Zenon DEF R, S, l
<1>10. CASE marker = Object3
  <2>1. R = DecodeObjectValue(inner, d) /\ S = DecodeObjectValue(wider, l)
    BY <1>10, ByMarker3, Zenon
  <2> HIDE DEF R, S
  <2>2. Steady(Decoder3, R, S, y)
    BY <2>1, DecodeObjectValueSteady, Zenon
  <2> QED BY <2>2, Zenon DEF R, S, l
<1>11. CASE marker \notin Marked3
  <2>1. R = Failed(d)
    BY <1>11, OtherMarker3
  <2> HIDE DEF R, S
  <2>2. Steady(Decoder3, R, S, y)
    BY <2>1, FailedSteady
  <2> QED BY <2>2, Zenon DEF R, S, l
<1> HIDE DEF R, S, l
<1> QED
  BY <1>1, <1>2, <1>3, <1>4, <1>5, <1>6, <1>7, <1>8, <1>9, <1>10, <1>11, Zenon DEF Marked3, R, S, l

\* The marker and what follows it.
LEMMA DecodeByMarker3Steady ==
    ASSUME NEW d \in Decoder3, NEW y \in Seq(Byte), NEW inner, NEW wider, InnerSteady3(inner, wider, y)
    PROVE  Steady(Decoder3, DecodeByMarker3(inner, d), DecodeByMarker3(wider, Longer(d, y)), y)
<1> DEFINE r == Take(d, 1)
           s == Take(Longer(d, y), 1)
           q == DecodeMarked3(inner, r.d, r.val[1])
           p == DecodeMarked3(wider, s.d, s.val[1])
<1>1. Steady(Decoder3, r, s, y)
  BY TakeSteady
<1>2. /\ DecodeByMarker3(inner, d) = (IF r.d.ok THEN q ELSE r)
      /\ DecodeByMarker3(wider, Longer(d, y)) = (IF s.d.ok THEN p ELSE s)
  BY Zenon DEF DecodeByMarker3, Bind
<1>3. r.d.ok => Steady(Decoder3, q, p, y)
  <2> SUFFICES ASSUME r.d.ok PROVE Steady(Decoder3, q, p, y)
    OBVIOUS
  <2> HIDE DEF r, s
  <2>1. r.d \in Decoder3 /\ s.d = Longer(r.d, y) /\ s.val = r.val
    BY <1>1, SteadyHas
  <2> QED
    BY <2>1, DecodeMarked3Steady, Zenon
<1> HIDE DEF r, s, q, p
<1> QED
  BY <1>1, <1>2, <1>3, ThenSteady

\* One call of decodeAMF3Value, or of its loops, deeper; none of no calls.
LEMMA Decoding3Round ==
    ASSUME NEW n \in Nat, NEW d \in Decoder3
    PROVE  /\ n = 0 => /\ Decoding3[n].value[d] = Failed(d) /\ Decoding3[n].pairs[d] = Failed(d)
                       /\ \A k \in Nat : Decoding3[n].dense[k][d] = Failed(d)
           /\ n # 0 => /\ Decoding3[n].value[d] = DecodeByMarker3(Decoding3[n - 1], d)
                       /\ Decoding3[n].pairs[d] = DecodePairs3(Decoding3[n - 1], d)
                       /\ \A k \in Nat :
                            Decoding3[n].dense[k][d] = DecodeDense(Decoding3[n - 1], d, k)
<1> DEFINE p == Inside(Decoding3, n)
<1>1. Decoding3[n] = DecodeStep3(n, p)
  BY Decoding3Is, Zenon
<1>2. n # 0 => p = Decoding3[n - 1]
  BY DEF Inside
<1> HIDE DEF p
<1>3. /\ n = 0 => /\ DecodeStep3(n, p).value[d] = Failed(d) /\ DecodeStep3(n, p).pairs[d] = Failed(d)
                  /\ \A k \in Nat : DecodeStep3(n, p).dense[k][d] = Failed(d)
      /\ n # 0 => /\ DecodeStep3(n, p).value[d] = DecodeByMarker3(p, d)
                  /\ DecodeStep3(n, p).pairs[d] = DecodePairs3(p, d)
                  /\ \A k \in Nat : DecodeStep3(n, p).dense[k][d] = DecodeDense(p, d, k)
  BY DEF DecodeStep3
<1> QED
  BY <1>1, <1>2, <1>3

\* With as many calls at least, and y behind, the same is read.
LEMMA Decoding3Steady ==
    ASSUME NEW y \in Seq(Byte)
    PROVE  \A n, m \in Nat : n <= m => InnerSteady3(Decoding3[n], Decoding3[m], y)
<1> DEFINE T == {n \in Nat : \A m \in Nat : n <= m => InnerSteady3(Decoding3[n], Decoding3[m], y)}
<1>1. 0 \in T
  <2> SUFFICES ASSUME NEW m \in Nat PROVE InnerSteady3(Decoding3[0], Decoding3[m], y)
    OBVIOUS
  <2> SUFFICES ASSUME NEW d \in Decoder3
               PROVE  /\ Steady(Decoder3, Decoding3[0].value[d], Decoding3[m].value[Longer(d, y)], y)
                      /\ Steady(Decoder3, Decoding3[0].pairs[d], Decoding3[m].pairs[Longer(d, y)], y)
                      /\ \A k \in Nat : Steady(Decoder3, Decoding3[0].dense[k][d],
                                                Decoding3[m].dense[k][Longer(d, y)], y)
    BY DEF InnerSteady3
  <2>1. /\ Decoding3[0].value[d] = Failed(d) /\ Decoding3[0].pairs[d] = Failed(d)
        /\ \A k \in Nat : Decoding3[0].dense[k][d] = Failed(d)
    BY Decoding3Round
  <2>2. \A s : Steady(Decoder3, Failed(d), s, y)
    BY FailedSteady
  <2> QED BY <2>1, <2>2, Zenon
<1>2. ASSUME NEW n \in Nat, n \in T PROVE n + 1 \in T
  <2> SUFFICES ASSUME NEW m \in Nat, n + 1 <= m PROVE InnerSteady3(Decoding3[n + 1], Decoding3[m], y)
    OBVIOUS
  <2>1. n + 1 \in Nat /\ n + 1 # 0 /\ (n + 1) - 1 = n /\ m # 0 /\ m - 1 \in Nat /\ n <= m - 1
    OBVIOUS
  <2>2. InnerSteady3(Decoding3[n], Decoding3[m - 1], y)
    BY <1>2, <2>1
  <2> DEFINE inner == Decoding3[n]
             wider == Decoding3[m - 1]
             j == n + 1
  <2> HIDE DEF T
  <2> SUFFICES ASSUME NEW d \in Decoder3
               PROVE  /\ Steady(Decoder3, Decoding3[j].value[d], Decoding3[m].value[Longer(d, y)], y)
                      /\ Steady(Decoder3, Decoding3[j].pairs[d], Decoding3[m].pairs[Longer(d, y)], y)
                      /\ \A k \in Nat : Steady(Decoder3, Decoding3[j].dense[k][d],
                                                Decoding3[m].dense[k][Longer(d, y)], y)
    BY DEF InnerSteady3
  <2>3. Longer(d, y) \in Decoder3
    BY LongerHas
  <2>4. /\ Decoding3[j].value[d] = DecodeByMarker3(inner, d)
        /\ Decoding3[j].pairs[d] = DecodePairs3(inner, d)
        /\ \A k \in Nat : Decoding3[j].dense[k][d] = DecodeDense(inner, d, k)
    <3>1. j \in Nat /\ j # 0 /\ j - 1 = n
      BY <2>1
    <3> HIDE DEF j
    <3> QED BY <3>1, Decoding3Round
  <2>5. /\ Decoding3[m].value[Longer(d, y)] = DecodeByMarker3(wider, Longer(d, y))
        /\ Decoding3[m].pairs[Longer(d, y)] = DecodePairs3(wider, Longer(d, y))
        /\ \A k \in Nat :
             Decoding3[m].dense[k][Longer(d, y)] = DecodeDense(wider, Longer(d, y), k)
    BY <2>1, <2>3, Decoding3Round
  <2> HIDE DEF inner, wider, j
  <2>6. InnerSteady3(inner, wider, y)
    BY <2>2 DEF inner, wider
  <2>7. /\ Steady(Decoder3, DecodeByMarker3(inner, d), DecodeByMarker3(wider, Longer(d, y)), y)
        /\ Steady(Decoder3, DecodePairs3(inner, d), DecodePairs3(wider, Longer(d, y)), y)
        /\ \A k \in Nat : Steady(Decoder3, DecodeDense(inner, d, k),
                                  DecodeDense(wider, Longer(d, y), k), y)
    BY <2>6, DecodeByMarker3Steady, DecodePairs3Steady, DecodeDenseSteady, Zenon
  <2> QED
    BY <2>4, <2>5, <2>7, Zenon
<1>3. Nat \subseteq T
  <2> HIDE DEF T
  <2> QED BY <1>1, <1>2, SetInduction
<1> QED
  BY <1>3

\* At3 with y behind it.
LEMMA LongerWith3 ==
    ASSUME NEW x \in Seq(Byte), NEW y \in Seq(Byte), NEW s \in StringTable, NEW o \in ObjectTable
    PROVE  At3(x, s, o) \in Decoder3 /\ Longer(At3(x, s, o), y) = At3(x \o y, s, o) /\ At3(x, s, o).ok
<1>1. At3(x, s, o).in = x
  BY AtHas
<1> DEFINE z == x \o y
<1>2. Longer(At3(x, s, o), y) = [At3(x, s, o) EXCEPT !.in = z]
  BY <1>1 DEF Longer
<1> HIDE DEF z
<1>3. Longer(At3(x, s, o), y) = At3(z, s, o)
  BY <1>2, OnlyIn3
<1>4. At3(x, s, o) \in Decoder3 /\ At3(x, s, o).ok
  BY AtType3, AtHas
<1> QED
  BY <1>3, <1>4 DEF z

\* Decode gives the value in Go's types.
LEMMA Decode3Gives ==
    ASSUME NEW d
    PROVE  /\ ~DecodeAMF3Value(d).d.ok => ~Decode3(d).d.ok
           /\ \A e, v : DecodeAMF3Value(d) = Ok(e, v) /\ e.ok => Decode3(d) = Ok(e, ToGo3(v))
<1> DEFINE r == DecodeAMF3Value(d)
<1>1. Decode3(d) = IF r.d.ok THEN Ok(r.d, ToGo3(r.val)) ELSE r
  BY Zenon DEF Decode3, Bind
<1>2. ASSUME NEW e, NEW v, r = Ok(e, v), e.ok
      PROVE  Decode3(d) = Ok(e, ToGo3(v))
  <2>1. r.d = e /\ r.val = v
    BY <1>2, OkHas
  <2> HIDE DEF r
  <2> QED BY <1>1, <1>2, <2>1, Zenon
<1>3. ~r.d.ok => ~Decode3(d).d.ok
  <2> HIDE DEF r
  <2> QED BY <1>1, Zenon
<1> QED
  BY <1>2, <1>3

\* Nothing is read of less than the bytes of a value.
LEMMA ReadsOne3 ==
    ASSUME NEW b \in Seq(Byte), NEW s \in StringTable, NEW o \in ObjectTable, NEW t, NEW p, NEW x,
           Reads3(b, s, o, t, p, x)
    PROVE  ReadsOne(3, b, s, o, t, p, ToGo3(x))
<1>0. /\ b # <<>>
      /\ \A rest \in Seq(Byte) : \A m \in Nat :
           m > Len(b) => Decoding3[m].value[At3(b \o rest, s, o)] = Ok(At3(rest, t, p), x)
  BY Zenon DEF Reads3
<1>1. \A d : Decode(3, d) = Decode3(d)
  BY DEF Decode
<1>2. \A u : At(3, u, s, o) = At3(u, s, o) /\ At(3, u, t, p) = At3(u, t, p)
  BY DEF At
<1>3. ASSUME NEW rest \in Seq(Byte)
      PROVE  DecodeAMF3Value(At3(b \o rest, s, o)) = Ok(At3(rest, t, p), x)
  <2> DEFINE z == b \o rest
  <2>1. Join2(b, rest)
    BY JoinTwo
  <2>2. z \in Seq(Byte) /\ Len(z) \in Nat /\ Len(z) + 1 > Len(b) /\ Len(z) + 1 \in Nat
    BY <2>1 DEF Join2
  <2>3. DecodeAMF3Value(At3(z, s, o)) = Decoding3[Len(z) + 1].value[At3(z, s, o)]
    <3> HIDE DEF z
    <3>1. At3(z, s, o).in = z
      BY AtHas
    <3> QED BY <3>1, Zenon DEF DecodeAMF3Value
  <2> DEFINE k == Len(z) + 1
  <2>4. k \in Nat /\ k > Len(b)
    BY <2>2
  <2> HIDE DEF k
  <2>5. Decoding3[k].value[At3(b \o rest, s, o)] = Ok(At3(rest, t, p), x)
    BY <1>0, <2>4, Zenon
  <2> QED
    BY <2>3, <2>5, Zenon DEF k
<1>4. ASSUME NEW y \in Seq(Byte), NEW z \in Seq(Byte), SameJoin(y, z, b, <<>>), z # <<>>
      PROVE  ~DecodeAMF3Value(At3(y, s, o)).d.ok
  <2> DEFINE n == Len(y) + 1
             m == Len(y) + Len(b) + 1
             r == Decoding3[n].value[At3(y, s, o)]
             s1 == Decoding3[m].value[Longer(At3(y, s, o), z)]
  <2>0. n \in Nat /\ m \in Nat /\ n <= m /\ m > Len(b)
    BY LenProperties
  <2>1. DecodeAMF3Value(At3(y, s, o)) = r
    <3>1. At3(y, s, o).in = y
      BY AtHas
    <3> QED BY <3>1, Zenon DEF DecodeAMF3Value
  <2>2. Steady(Decoder3, r, s1, z)
    <3> HIDE DEF n, m
    <3>1. InnerSteady3(Decoding3[n], Decoding3[m], z)
      BY <2>0, Decoding3Steady
    <3>2. At3(y, s, o) \in Decoder3
      BY LongerWith3
    <3> QED BY <3>1, <3>2, Zenon DEF InnerSteady3
  <2>3. s1 = Ok(At3(<<>>, t, p), x)
    <3> HIDE DEF m, n, r
    <3> DEFINE none == <<>>
    <3>1. y \o z = b \o none /\ none \in Seq(Byte)
      BY <1>4 DEF SameJoin
    <3>2. Longer(At3(y, s, o), z) = At3(y \o z, s, o)
      BY LongerWith3
    <3>3. Decoding3[m].value[At3(b \o none, s, o)] = Ok(At3(none, t, p), x)
      BY <1>0, <2>0, <3>1, Zenon
    <3> QED BY <3>1, <3>2, <3>3, Zenon
  <2> HIDE DEF n, m, r, s1
  <2>4. SUFFICES ASSUME r.d.ok PROVE FALSE
    BY <2>1, Zenon
  <2>5. r.d \in Decoder3 /\ s1.d = Longer(r.d, z)
    BY <2>2, <2>4, SteadyHas
  <2>6. s1.d = At3(<<>>, t, p)
    BY <2>3, OkHas
  <2>7. Len(r.d.in \o z) = Len(r.d.in) + Len(z) /\ Longer(r.d, z).in = r.d.in \o z
        /\ Len(r.d.in) \in Nat /\ Len(z) \in Nat
    BY <2>5, LongerHas
  <2>8. At3(<<>>, t, p).in = <<>>
    BY AtHas
  <2>9. Len(z) # 0
    BY <1>4, EmptySeq
  <2> QED
    BY <2>5, <2>6, <2>7, <2>8, <2>9
<1>5. ASSUME NEW y \in Seq(Byte), NEW z \in Seq(Byte), y \o z = b /\ z # <<>>
      PROVE  ~DecodeAMF3Value(At3(y, s, o)).d.ok
  <2>1. b \o <<>> = b
    BY JoinNothing
  <2>2. SameJoin(y, z, b, <<>>)
    BY <1>5, <2>1, Zenon DEF SameJoin
  <2> QED BY <1>4, <1>5, <2>2, Zenon
<1>6. ASSUME NEW rest \in Seq(Byte)
      PROVE  Decode3(At3(b \o rest, s, o)) = Ok(At3(rest, t, p), ToGo3(x))
  <2>1. At3(rest, t, p).ok
    BY AtHas
  <2> QED BY <1>3, <2>1, Decode3Gives, Zenon
<1>7. ASSUME NEW y \in Seq(Byte), NEW z \in Seq(Byte), y \o z = b /\ z # <<>>
      PROVE  ~Decode3(At3(y, s, o)).d.ok
  BY <1>5, <1>7, Decode3Gives, Zenon
<1> QED
  BY <1>0, <1>1, <1>2, <1>6, <1>7, Zenon DEF ReadsOne

-----------------------------------------------------------------------------
(* A whole command: the values one after the other, all of them or as many *)
(* as are all there.                                                       *)

\* f is the encoder e after these values, which are read to the end of the
\* message.
ValuesCarry0(e, f, values, vis, bec) ==
  /\ f \in Encoder0
  /\ f.ok <=> e.ok /\ \A i \in DOMAIN values : AllIn(vis[values[i]], Fit0)
  /\ \E b \in Seq(Byte) :
       /\ f.out = e.out \o b
       /\ f.ok /\ (\A i \in DOMAIN values : AllIn(vis[values[i]], Named))
            => ReadsAll(0, b, <<>>, <<>>, EachBecomes(bec, values))

\* A decoder of AMF0 has no tables, so any will do.
LEMMA AtTypes0 == AtTypes(0, <<>>, <<>>)
<1> SUFFICES ASSUME NEW y \in Seq(Byte) PROVE At(0, y, <<>>, <<>>) \in Decoder(0)
  BY DEF AtTypes
<1>1. <<>> \in Seq(Byte)
  OBVIOUS
<1>2. At0(y) \in Decoder0
  BY <1>1, LongerAt0
<1> QED
  BY <1>2 DEF At, Decoder

\* Of no bytes nothing is read.
LEMMA NoRest0 == ReadsAll(0, <<>>, <<>>, <<>>, <<>>)
<1> DEFINE d == At0(<<>>)
<1>1. d \in Decoder0 /\ d.in = <<>> /\ <<>> \in Seq(Byte)
  BY DEF At0, Decoder0
<1>2. Len(d.in) + 1 = 1
  BY <1>1
<1>3. Decode0(d) = DecodeByMarker0(Decoding0[0], d)
  <2>1. 1 \in Nat /\ 1 # 0 /\ 1 - 1 = 0 /\ <<>> \in Seq(Byte)
    OBVIOUS
  <2>2. Decoding0[1].value[At0(<<>>)] = DecodeByMarker0(Decoding0[1 - 1], At0(<<>>))
    BY <2>1, Decoding0Steps, Zenon
  <2>3. Decode0(d) = Decoding0[1].value[d]
    BY <1>2 DEF Decode0
  <2> QED
    BY <2>1, <2>2, <2>3, Zenon
<1> HIDE DEF d
<1>4. ~Take(d, 1).d.ok
  <2>1. ~(1 \in 0 .. Len(d.in))
    BY <1>1
  <2>2. Take(d, 1) = Failed(d)
    BY <2>1 DEF Take
  <2>3. Failed(d).d.ok = FALSE
    BY <1>1 DEF Failed, Ok, Decoder0
  <2> QED
    BY <2>2, <2>3
<1>5. ~DecodeByMarker0(Decoding0[0], d).d.ok
  BY <1>4, Zenon DEF DecodeByMarker0, Bind
<1>6. ~Decode(0, At(0, <<>>, <<>>, <<>>)).d.ok
  <2>1. Decode(0, At(0, <<>>, <<>>, <<>>)) = Decode0(d)
    BY DEF Decode, At, d
  <2> QED
    BY <1>3, <1>5, <2>1, Zenon
<1> QED
  BY <1>6, AtTypes0, ReadsAllNone

\* ys is x and then the k values xs.
OneFirst(ys, x, xs, k) ==
  /\ Len(xs) = k /\ Len(ys) = k + 1 /\ ys[1] = x
  /\ \A i \in 1 .. k : ys[i + 1] = xs[i]

\* A value in front of others.
LEMMA OneMoreRead0 ==
    ASSUME NEW b \in Seq(Byte), NEW x, Reads0(b, x), NEW c \in Seq(Byte), NEW xs, NEW k \in Nat,
           ReadsAll(0, c, <<>>, <<>>, xs), NEW ys, OneFirst(ys, x, xs, k)
    PROVE  ReadsAll(0, b \o c, <<>>, <<>>, ys)
<1> DEFINE none == <<>>
<1>1. ReadsOne(0, b, none, none, none, none, x)
  BY ReadsOne0, Zenon
<1>2. AtTypes(0, none, none) /\ ReadsAll(0, c, none, none, xs)
  BY AtTypes0
<1> HIDE DEF none
<1>3. ReadsAll(0, b \o c, none, none, ys)
  <2>1. Len(xs) = k /\ Len(ys) = k + 1 /\ ys[1] = x /\ \A i \in 1 .. k : ys[i + 1] = xs[i]
    BY DEF OneFirst
  <2> QED
    BY <1>1, <1>2, <2>1, ReadsAllOne
<1> QED
  BY <1>3 DEF none

\* What is left of F from one place on, and from the next on.
LEMMA LastOf ==
    ASSUME NEW k \in Nat, NEW F, OfLength(F, k), NEW i \in Nat, i < k, NEW n \in Nat, k = i + n + 1
    PROVE  OneFirst(SubSeq(F, i + 1, k), F[i + 1], SubSeq(F, i + 2, k), n)
<1> DEFINE xs == SubSeq(F, i + 2, k)
           ys == SubSeq(F, i + 1, k)
<1>1. F = [j \in 1 .. k |-> F[j]]
  BY DEF OfLength
<1>2. /\ xs = [j \in 1 .. n |-> F[j + i + 1]]
      /\ ys = [j \in 1 .. n + 1 |-> F[j + i]]
  <2>1. k - (i + 2) + 1 = n /\ k - (i + 1) + 1 = n + 1
    OBVIOUS
  <2>2. xs = [j \in 1 .. (1 + k) - (i + 2) |-> F[(i + 2) + j - 1]]
    OBVIOUS
  <2>3. ys = [j \in 1 .. (1 + k) - (i + 1) |-> F[(i + 1) + j - 1]]
    OBVIOUS
  <2> QED
    BY <2>1, <2>2, <2>3
<1> QED
  BY <1>2 DEF OneFirst

\* The values that steps in turn wrote.
LEMMA RestRead0 ==
    ASSUME NEW k \in Nat, NEW values, Len(values) = k, NEW vis, NEW bec, NEW e, NEW f, f.ok,
           NEW bs, NEW cs, Parts(k, e, f, ElementParts0(values, vis, bec), bs, cs),
           \A i \in 1 .. k : AllIn(vis[values[i]], Named),
           NEW F, OfLength(F, k), \A j \in 1 .. k : F[j] = bec[values[j]]
    PROVE  ReadsAll(0, cs[0], <<>>, <<>>, F)
<1> DEFINE P(n) == ReadsAll(0, cs[k - n], <<>>, <<>>, SubSeq(F, (k - n) + 1, k))
           T == {n \in Nat : n <= k => P(n)}
<1>0. /\ cs[k] = <<>>
      /\ \A i \in 0 .. k : cs[i] \in Seq(Byte)
      /\ \A i \in 1 .. k : bs[i] \in Seq(Byte) /\ Reads0(bs[i], F[i])
      /\ \A i \in 0 .. k - 1 : cs[i] = bs[i + 1] \o cs[i + 1]
  <2>1. \A i \in 1 .. k : bs[i] \in Seq(Byte) /\ <<i, bs[i]>> \in ElementParts0(values, vis, bec)
    BY DEF Parts
  <2>2. \A i \in 1 .. k : Reads0(bs[i], bec[values[i]])
    BY <2>1 DEF ElementParts0
  <2> QED
    BY <2>1, <2>2, Zenon DEF Parts
<1>1. 0 \in T
  <2>1. k - 0 = k /\ k \in 0 .. k
    OBVIOUS
  <2>2. SubSeq(F, k + 1, k) = <<>>
    BY <2>1 DEF OfLength
  <2>3. P(0)
    BY <1>0, <2>1, <2>2, NoRest0
  <2> HIDE DEF P
  <2> QED BY <2>3
<1>2. ASSUME NEW n \in Nat, n \in T PROVE n + 1 \in T
  <2> SUFFICES ASSUME n + 1 <= k PROVE P(n + 1)
    <3> HIDE DEF P
    <3> QED OBVIOUS
  <2> DEFINE i == k - (n + 1)
  <2>1. i \in 0 .. k /\ i \in 0 .. k - 1 /\ i + 1 \in 1 .. k /\ i + 1 \in 0 .. k /\ k - n = i + 1
        /\ (k - n) + 1 = i + 2 /\ i \in Nat /\ i < k /\ k = i + n + 1
    OBVIOUS
  <2>2. ReadsAll(0, cs[k - n], <<>>, <<>>, SubSeq(F, (k - n) + 1, k))
    BY <1>2
  <2> HIDE DEF P, T, i
  <2> DEFINE b == bs[i + 1]
             c == cs[i + 1]
             x == F[i + 1]
             xs == SubSeq(F, i + 2, k)
             ys == SubSeq(F, i + 1, k)
  <2>3. ReadsAll(0, c, <<>>, <<>>, xs)
    BY <2>1, <2>2, Zenon
  <2>4. b \in Seq(Byte) /\ c \in Seq(Byte) /\ Reads0(b, x) /\ cs[i] = b \o c
    BY <1>0, <2>1
  <2>5. OneFirst(ys, x, xs, n)
    BY <2>1, LastOf
  <2> HIDE DEF b, c, x, xs, ys
  <2>6. ReadsAll(0, b \o c, <<>>, <<>>, ys)
    BY <2>3, <2>4, <2>5, OneMoreRead0
  <2>7. ReadsAll(0, cs[i], <<>>, <<>>, ys)
    BY <2>4, <2>6, Zenon
  <2> QED BY <2>7, Zenon DEF P, i, ys
<1>3. k \in T
  <2> HIDE DEF T
  <2> QED BY <1>1, <1>2, SetInduction
<1>4. ReadsAll(0, cs[k - k], <<>>, <<>>, SubSeq(F, (k - k) + 1, k))
  BY <1>3
<1>5. k - k = 0 /\ (k - k) + 1 = 1 /\ 0 \in 0 .. k
  OBVIOUS
<1>6. SubSeq(F, 1, k) = F
  BY <1>5 DEF OfLength
<1> QED
  BY <1>4, <1>5, <1>6, Zenon

\* Values in turn, to the end of the message.
LEMMA ValuesCarried0 ==
    ASSUME NEW V, NEW enc, NEW vis, NEW bec, Codec0(V, enc, vis, bec), NEW values \in Seq(V),
           NEW e \in Encoder0
    PROVE  ValuesCarry0(e, InTurn([i \in DOMAIN values |-> enc[values[i]]], e), values, vis, bec)
<1> DEFINE k == Len(values)
           steps == [i \in DOMAIN values |-> enc[values[i]]]
           K == {i \in 1 .. k : AllIn(vis[values[i]], Fit0)}
           R == ElementParts0(values, vis, bec)
           F == EachBecomes(bec, values)
           f == InTurn(steps, e)
<1>1. k \in Nat /\ DOMAIN values = 1 .. k /\ \A i \in 1 .. k : values[i] \in V
  OBVIOUS
<1>2. /\ Len(steps) = k /\ OfLength(F, k)
      /\ \A i \in 1 .. k : steps[i] = enc[values[i]] /\ F[i] = bec[values[i]]
  BY <1>1 DEF EachBecomes, OfLength
<1> HIDE DEF steps, F
<1>3. ASSUME NEW i \in 1 .. k, NEW g \in Encoder0
      PROVE  /\ steps[i][g] \in Encoder0
             /\ steps[i][g].ok <=> g.ok /\ i \in K
             /\ \E b \in Seq(Byte) : /\ steps[i][g].out = g.out \o b
                                     /\ steps[i][g].ok => <<i, b>> \in R
  <2>1. Carries0(g, enc[values[i]][g], vis[values[i]], bec[values[i]])
    BY <1>1 DEF Codec0
  <2> DEFINE h == steps[i][g]
  <2>2. Carries0(g, h, vis[values[i]], bec[values[i]])
    BY <1>2, <2>1
  <2> HIDE DEF h
  <2>3. h \in Encoder0 /\ (h.ok <=> g.ok /\ i \in K)
    BY <2>2 DEF Carries0
  <2>4. PICK b \in Seq(Byte) : /\ h.out = g.out \o b
                               /\ h.ok /\ AllIn(vis[values[i]], Named) => Reads0(b, bec[values[i]])
    BY <2>2, Zenon DEF Carries0
  <2>5. h.ok => <<i, b>> \in R
    <3>1. CASE h.ok
      <4>1. AllIn(vis[values[i]], Named) => Reads0(b, bec[values[i]])
        BY <2>4, <3>1
      <4>2. i \in 1 .. Len(values)
        OBVIOUS
      <4> HIDE DEF k
      <4> QED
        BY <4>1, <4>2 DEF ElementParts0
    <3> QED BY <3>1
  <2> HIDE DEF K, R
  <2> QED
    BY <2>3, <2>4, <2>5 DEF h
<1>4. /\ f \in Encoder0
      /\ f.ok <=> e.ok /\ \A i \in 1 .. k : i \in K
      /\ \E bs, cs : Parts(k, e, f, R, bs, cs)
  <2> HIDE DEF k, K, R
  <2>1. Appending0(k, steps, K, R)
    BY <1>3, Zenon DEF Appending0
  <2>2. Turned0(k, e, InTurn(steps, e), K, R)
    BY <1>1, <1>2, <2>1, Turns0
  <2> QED
    BY <2>2, Zenon DEF Turned0
<1>5. (\A i \in 1 .. k : i \in K) <=> \A i \in DOMAIN values : AllIn(vis[values[i]], Fit0)
  BY <1>1
<1>6. PICK bs, cs : Parts(k, e, f, R, bs, cs)
  BY <1>4
<1>7. cs[0] \in Seq(Byte) /\ f.out = e.out \o cs[0]
  <2>1. 0 \in 0 .. k
    BY <1>1
  <2> QED
    BY <1>6, <2>1 DEF Parts
<1>8. ASSUME f.ok, \A i \in DOMAIN values : AllIn(vis[values[i]], Named)
      PROVE  ReadsAll(0, cs[0], <<>>, <<>>, F)
  <2>1. \A i \in 1 .. k : AllIn(vis[values[i]], Named)
    BY <1>1, <1>8
  <2> HIDE DEF f
  <2> QED
    BY <1>1, <1>2, <1>6, <1>8, <2>1, RestRead0
<1> HIDE DEF K, R
<1> QED
  BY <1>4, <1>5, <1>7, <1>8 DEF F, steps, ValuesCarry0

\* The encoder and the decoder of AMF3 when they are new.
LEMMA New3 ==
    /\ NewAMF3Encoder \in Good3 /\ NewAMF3Encoder.ok /\ NewAMF3Encoder.out = <<>>
    /\ NewAMF3Encoder.strs = <<>> /\ NewAMF3Encoder.objs = <<>>
    /\ <<>> \in StringTable /\ <<>> \in ObjectTable
BY DEF NewAMF3Encoder, Good3, Encoder3, StringTable, ObjectTable

\* A decoder that has tables is a decoder.
LEMMA AtTypes3 ==
    ASSUME NEW s \in StringTable, NEW o \in ObjectTable
    PROVE  AtTypes(3, s, o)
<1> SUFFICES ASSUME NEW y \in Seq(Byte) PROVE At(3, y, s, o) \in Decoder(3)
  BY DEF AtTypes
<1>1. <<>> \in Seq(Byte)
  OBVIOUS
<1>2. At3(y, s, o) \in Decoder3
  BY <1>1, LongerWith3
<1> QED
  BY <1>2 DEF At, Decoder

\* Of no bytes nothing is read.
LEMMA NoRest3 ==
    ASSUME NEW s \in StringTable, NEW o \in ObjectTable
    PROVE  ReadsAll(3, <<>>, s, o, <<>>)
<1> DEFINE d == At3(<<>>, s, o)
<1>1. d \in Decoder3 /\ d.in = <<>>
  <2> DEFINE none == <<>>
  <2>1. none \in Seq(Byte)
    OBVIOUS
  <2>2. d = At3(none, s, o)
    OBVIOUS
  <2> HIDE DEF none, d
  <2>3. d \in Decoder3 /\ d.in = none
    BY <2>1, <2>2, AtType3, AtHas
  <2> QED BY <2>3 DEF none
<1> HIDE DEF d
<1>2. Len(d.in) + 1 = 1 /\ 1 \in Nat /\ 1 # 0 /\ 1 - 1 = 0
  BY <1>1
<1>3. DecodeAMF3Value(d) = DecodeByMarker3(Decoding3[0], d)
  <2>1. Decoding3[1].value[d] = DecodeByMarker3(Decoding3[1 - 1], d)
    BY <1>1, <1>2, Decoding3Steps, Zenon
  <2>2. DecodeAMF3Value(d) = Decoding3[1].value[d]
    BY <1>2 DEF DecodeAMF3Value
  <2> QED
    BY <1>2, <2>1, <2>2, Zenon
<1>4. ~Take(d, 1).d.ok
  <2>1. ~(1 \in 0 .. Len(d.in))
    BY <1>1
  <2>2. Take(d, 1) = Failed(d)
    BY <2>1 DEF Take
  <2>3. Failed(d).d.ok = FALSE
    BY <1>1 DEF Failed, Ok, Decoder3
  <2> QED
    BY <2>2, <2>3
<1>5. ~DecodeByMarker3(Decoding3[0], d).d.ok
  BY <1>4, Zenon DEF DecodeByMarker3, Bind
<1>6. ~Decode3(d).d.ok
  BY <1>3, <1>5, Decode3Gives, Zenon
<1>7. Decode(3, At(3, <<>>, s, o)) = Decode3(d)
  BY DEF Decode, At, d
<1> QED
  BY <1>6, <1>7, AtTypes3, ReadsAllNone

\* No values at the end of the message.
LEMMA NoneLeft3 ==
    ASSUME NEW e \in Good3
    PROVE  Carries3("rest", 0, e, e, <<>>, <<>>)
<1> DEFINE b == <<>>
           none == <<>>
<1>1. b \in Seq(Byte) /\ InGo(none) = none
  BY DEF InGo
<1>2. e.out = e.out \o b
  BY GoodHas3, JoinNothing
<1>3. e.strs \in StringTable
  BY GoodHas3
<1>4. ASSUME NEW o \in ObjectTable
      PROVE  ReadsAs("rest", 0, b, e.strs, o, e.strs, o, none)
  <2>1. ReadsAll(3, b, e.strs, o, none)
    BY <1>3, NoRest3
  <2> HIDE DEF b, none
  <2>2. ReadsAll(3, b, e.strs, o, InGo(none))
    BY <1>1, <2>1
  <2> QED
    BY <2>2 DEF ReadsAs
<1> HIDE DEF b
<1>5. Carries3("rest", 0, e, e, <<>>, none)
  <2> HIDE DEF none
  <2> QED BY <1>1, <1>2, <1>4, NothingVisited3
<1> QED
  BY <1>5

\* A value in front of those at the end of the message.
LEMMA ComposesRest3 ==
    ASSUME NEW T, NEW x \in T, NEW xs \in Seq(T)
    PROVE  Composes("value", 0, x, "rest", 0, xs, "rest", 0, <<x>> \o xs)
<1> DEFINE z == <<x>> \o xs
           ys == InGo(xs)
           zs == InGo(z)
           k == Len(xs)
<1>1. OneFirst(zs, ToGo3(x), ys, k) /\ k \in Nat
  BY DEF InGo, OneFirst
<1> HIDE DEF z, k
<1> SUFFICES ASSUME NEW b \in Seq(Byte), NEW c \in Seq(Byte), NEW r \in StringTable,
                    NEW s \in StringTable, NEW t \in StringTable, NEW o \in ObjectTable,
                    NEW p \in ObjectTable, NEW q \in ObjectTable,
                    ReadsAs("value", 0, b, r, o, s, p, x), ReadsAs("rest", 0, c, s, p, t, q, xs)
             PROVE  ReadsAs("rest", 0, b \o c, r, o, t, q, z)
  BY DEF Composes, z
<1>2. Reads3(b, r, o, s, p, x) /\ ReadsAll(3, c, s, p, ys)
  BY Zenon DEF ReadsAs
<1> DEFINE y == ToGo3(x)
<1>3. ReadsOne(3, b, r, o, s, p, y)
  BY <1>2, ReadsOne3
<1>4. AtTypes(3, r, o)
  BY AtTypes3
<1>5. Len(ys) = k /\ Len(zs) = k + 1 /\ zs[1] = y /\ \A i \in 1 .. k : zs[i + 1] = ys[i]
  BY <1>1 DEF OneFirst
<1> HIDE DEF y, ys, zs
<1>6. ReadsAll(3, b \o c, r, o, zs)
  BY <1>1, <1>2, <1>3, <1>4, <1>5, ReadsAllOne, SMTT(40)
<1> QED
  BY <1>6 DEF ReadsAs, zs

\* Values in turn, to the end of the message.
LEMMA ValuesCarried3 ==
    ASSUME NEW V, NEW enc, NEW vis, NEW bec, Codec3(V, enc, vis, bec),
           \A w \in V : vis[w] \in Seq(AnyValue), NEW values \in Seq(V), NEW e \in Good3
    PROVE  Carries3("rest", 0, e, InTurn([i \in DOMAIN values |-> enc[values[i]]], e),
                    FlattenSeq([i \in DOMAIN values |-> vis[values[i]]]), EachBecomes(bec, values))
<1> DEFINE steps == [i \in DOMAIN values |-> enc[values[i]]]
           ss == [i \in DOMAIN values |-> vis[values[i]]]
           F == EachBecomes(bec, values)
           k == Len(values)
           f == InTurn(steps, e)
           num == [i \in 0 .. k |-> 0]
<1>1. k \in Nat /\ DOMAIN values = 1 .. k /\ \A i \in 1 .. k : values[i] \in V
  OBVIOUS
<1>2. /\ Len(steps) = k /\ F = [j \in 1 .. k |-> F[j]]
      /\ \A i \in 1 .. k : steps[i] = enc[values[i]] /\ F[i] = bec[values[i]]
      /\ \A i \in 1 .. k : ss[i] = vis[values[i]]
  BY <1>1 DEF EachBecomes
<1>3. ss \in Seq(Seq(AnyValue)) /\ Len(ss) = k
  <2>1. \A i \in 1 .. k : vis[values[i]] \in Seq(AnyValue)
    BY <1>1
  <2> QED
    BY <1>1, <2>1, IsASeq
<1>4. num[0] = 0 /\ num[k] = 0 /\ \A i \in 0 .. k - 1 : num[i + 1] = 0 /\ num[i] = 0
  BY <1>1
<1> HIDE DEF steps, ss, F, num, k
<1>5. Each3("value", k, steps, ss, F)
  <2> SUFFICES ASSUME NEW i \in 1 .. k, NEW g \in Good3
               PROVE  Carries3("value", 0, g, steps[i][g], ss[i], F[i])
    BY DEF Each3
  <2>1. Carries3("value", 0, g, enc[values[i]][g], vis[values[i]], bec[values[i]])
    BY <1>1 DEF Codec3
  <2> QED
    BY <1>2, <2>1
<1>6. Onward("value", "rest", k, F, num)
  <2> SUFFICES ASSUME NEW i \in 0 .. k - 1
               PROVE  Composes("value", 0, F[i + 1], "rest", num[i + 1], SubSeq(F, i + 2, k),
                               "rest", num[i], <<F[i + 1]>> \o SubSeq(F, i + 2, k))
    BY DEF Onward
  <2> DEFINE y == F[i + 1]
             xs == SubSeq(F, i + 2, k)
             T == {F[j] : j \in 1 .. k}
  <2>1. y \in T
    <3>1. i + 1 \in 1 .. k
      BY <1>1
    <3> QED
      BY <3>1
  <2>2. xs \in Seq(T)
    <3>1. F \in Seq(T)
      BY <1>1, <1>2, IsASeq
    <3>2. DOMAIN F = 1 .. k /\ k \in Nat
      BY <1>1, <1>2
    <3> HIDE DEF T
    <3> QED
      BY <3>1, <3>2
  <2> HIDE DEF y, xs, T
  <2>3. Composes("value", 0, y, "rest", 0, xs, "rest", 0, <<y>> \o xs)
    BY <2>1, <2>2, ComposesRest3
  <2>4. num[i] = 0 /\ num[i + 1] = 0
    BY <1>4
  <2> QED
    BY <2>3, <2>4 DEF y, xs
<1>7. f \in Good3 => Carries3("rest", num[k], f, f, <<>>, <<>>)
  <2> HIDE DEF f
  <2> QED
    BY <1>4, NoneLeft3
<1>8. Carries3("rest", num[0], e, f, FlattenSeq(ss), F)
  BY <1>1, <1>2, <1>3, <1>5, <1>6, <1>7, ChainCarried3
<1>9. Carries3("rest", 0, e, f, FlattenSeq(ss), F)
  BY <1>4, <1>8, Zenon
<1> QED
  BY <1>9 DEF f, steps, ss, F

\* Values that contain no others can be encoded, and so can the builder's own.
LEMMA ScalarIn ==
    /\ Scalar \subseteq Value[Nesting]
    /\ Scalar \subseteq Value[Nesting - 1] /\ Nesting - 1 \in Nat /\ Nesting \in Nat
    /\ Value[Nesting] = Scalar \cup Container(Value[Nesting - 1])
<1>1. Nesting \in Nat /\ Nesting - 1 \in Nat /\ (Nesting - 1) + 1 = Nesting
  BY NestingAssumption
<1>2. Value[Nesting] = Scalar \cup Container(Value[Nesting - 1])
  <2> DEFINE n == Nesting - 1
  <2>1. Value[n + 1] = Scalar \cup Container(Value[n])
    BY <1>1, ValuesAre
  <2> QED BY <1>1, <2>1, Zenon
<1>3. Scalar \subseteq Value[Nesting - 1]
  <2>1. CASE Nesting - 1 = 0
    BY <2>1, ValuesAre, Zenon
  <2>2. CASE Nesting - 1 # 0
    <3> DEFINE n == (Nesting - 1) - 1
    <3>1. n \in Nat /\ n + 1 = Nesting - 1
      BY <1>1, <2>2
    <3> HIDE DEF n
    <3>2. Value[n + 1] = Scalar \cup Container(Value[n])
      BY <3>1, ValuesAre
    <3>3. Value[Nesting - 1] = Scalar \cup Container(Value[n])
      BY <3>1, <3>2, Zenon
    <3> DEFINE S == Scalar
               W == Value[Nesting - 1]
               C == Container(Value[n])
    <3> HIDE DEF S, W, C
    <3>4. S \subseteq S \cup C /\ W = S \cup C
      BY <3>3 DEF S, W, C
    <3> QED BY <3>4, Zenon DEF S, W
  <2> QED BY <2>1, <2>2
<1>4. Scalar \subseteq Value[Nesting]
  <2> DEFINE S == Scalar
             W == Value[Nesting]
             C == Container(Value[Nesting - 1])
  <2> HIDE DEF S, W, C
  <2>1. S \subseteq S \cup C /\ W = S \cup C
    BY <1>2 DEF S, W, C
  <2> QED BY <2>1, Zenon DEF S, W
<1> QED
  BY <1>1, <1>2, <1>3, <1>4

\* Strings and numbers are such values.
LEMMA ScalarHas ==
    /\ <<"nil">> \in Scalar
    /\ \A s \in GoString : <<"string", s>> \in Scalar
    /\ \A x \in Bits : <<"float64", x>> \in Scalar
BY DEF Scalar

\* The names, and the numbers, that the code spells out.
LEMMA NamesHave ==
    /\ \A s \in {"connect", "publish", "play", "_result", "_error", "onStatus", "level", "code",
                  "description", "details", "status", "error", "warning", "NetStream.Publish.Start",
                  "NetStream.Play.Start", "NetStream.Play.StreamNotFound", "Stream is now published",
                  "Stream is now playing"} : Text[s] \in GoString
    /\ \A n \in -2 .. 3 : Float64[n] \in Bits
<1>1. \A s \in DOMAIN Text : Text[s] \in GoString
  BY TextAssumption
<1>2. \A n \in -2 .. 3 : n \in DOMAIN Float64 /\ Float64[n] \in Bits
  BY FloatAssumption
<1> QED
  BY <1>1, <1>2, NamesAssumption

\* A command of typed parts.
LEMMA CommandIn ==
    ASSUME NEW name \in GoString, NEW transactionID \in Bits, NEW commandObj \in Value[Nesting],
           NEW args \in Seq(Value[Nesting])
    PROVE  Command(name, transactionID, commandObj, args) \in CommandSet
BY DEF Command, CommandSet

\* One argument.
LEMMA OneIn ==
    ASSUME NEW S, NEW v \in S
    PROVE  <<v>> \in Seq(S)
OBVIOUS

\* Short lists are lists.
LEMMA ShortList ==
    ASSUME NEW S, NEW s \in Seq(S), Len(s) <= 4
    PROVE  s \in List(S)
<1>1. 4 < TwoTo24
  BY DEF TwoTo24, TwoTo21
<1>2. Len(s) \in Nat /\ TwoTo24 \in Nat
  BY DEF TwoTo24, TwoTo21
<1> QED
  BY <1>1, <1>2 DEF List

\* One more at the end of a list.
OneLonger(t, s, x) ==
  DOMAIN t = 1 .. Len(s) + 1 /\ t[Len(s) + 1] = x /\ \A i \in 1 .. Len(s) : t[i] = s[i]

\* Append makes such a list.
LEMMA AtTheEnd ==
    ASSUME NEW S, NEW s \in Seq(S), NEW x \in S
    PROVE  OneLonger(Append(s, x), s, x)
BY DEF OneLonger

\* The status of an onStatus command is a map.
LEMMA OnStatusIn ==
    ASSUME NEW transactionID \in Bits, NEW commandObj \in Value[Nesting],
           NEW level, NEW code, Text[level] \in GoString, Text[code] \in GoString,
           NEW description \in GoString, NEW details \in GoString
    PROVE  OnStatus(transactionID, commandObj, level, code, description, details) \in CommandSet
<1> DEFINE W == Value[Nesting - 1]
           V == Value[Nesting]
           P == GoString \X W
           pair1 == <<Text["level"], String(level)>>
           pair2 == <<Text["code"], String(code)>>
           pair3 == <<Text["description"], <<"string", description>>>>
           pair4 == <<Text["details"], <<"string", details>>>>
           always == <<pair1, pair2, pair3>>
           status == IF details = <<>> THEN always ELSE Append(always, pair4)
           name == Text["onStatus"]
           v == <<"map", status>>
           args == <<v>>
<1>1. /\ Text["level"] \in GoString /\ Text["code"] \in GoString /\ name \in GoString
      /\ Text["description"] \in GoString /\ Text["details"] \in GoString
  BY NamesHave
<1>2. /\ String(level) \in W /\ String(code) \in W
      /\ <<"string", description>> \in W /\ <<"string", details>> \in W
  <2>1. \A s \in GoString : <<"string", s>> \in W
    BY ScalarIn, ScalarHas, Zenon
  <2> HIDE DEF W
  <2> QED BY <2>1 DEF String
<1> HIDE DEF W
<1>3. pair1 \in P /\ pair2 \in P /\ pair3 \in P /\ pair4 \in P
  BY <1>1, <1>2
<1>9. /\ pair1[1] # pair2[1] /\ pair1[1] # pair3[1] /\ pair1[1] # pair4[1]
      /\ pair2[1] # pair3[1] /\ pair2[1] # pair4[1] /\ pair3[1] # pair4[1]
  <2>1. /\ "level" \in DOMAIN Text /\ "code" \in DOMAIN Text /\ "description" \in DOMAIN Text
        /\ "details" \in DOMAIN Text
    BY NamesAssumption, Zenon
  <2>2. \A s, t \in DOMAIN Text : s # t => Text[s] # Text[t]
    BY TextAssumption, Zenon DEF IsInjective
  <2>3. /\ pair1[1] = Text["level"] /\ pair2[1] = Text["code"]
        /\ pair3[1] = Text["description"] /\ pair4[1] = Text["details"]
    OBVIOUS
  <2> HIDE DEF pair1, pair2, pair3, pair4
  <2>4. /\ Text["level"] # Text["code"] /\ Text["level"] # Text["description"]
        /\ Text["level"] # Text["details"] /\ Text["code"] # Text["description"]
        /\ Text["code"] # Text["details"] /\ Text["description"] # Text["details"]
    BY <2>1, <2>2
  <2> QED BY <2>3, <2>4, Zenon
<1> HIDE DEF pair1, pair2, pair3, pair4, P
<1>4. status \in Seq(P) /\ Len(status) <= 4
  BY <1>3
<1>10. \A i, j \in DOMAIN status : status[i][1] = status[j][1] => i = j
  <2>1. CASE details = <<>>
    <3>1. status = <<pair1, pair2, pair3>>
      BY <2>1
    <3> HIDE DEF status
    <3>2. DOMAIN status = {1, 2, 3} /\ status[1] = pair1 /\ status[2] = pair2 /\ status[3] = pair3
      BY <3>1
    <3> QED BY <1>9, <3>2
  <2>2. CASE details # <<>>
    <3>1. status = Append(always, pair4)
      BY <2>2
    <3> HIDE DEF status
    <3>2. /\ always \in Seq(P) /\ Len(always) = 3 /\ always[1] = pair1 /\ always[2] = pair2
          /\ always[3] = pair3
      BY <1>3
    <3> HIDE DEF always
    <3>3. /\ DOMAIN status = 1 .. 4 /\ status[1] = pair1 /\ status[2] = pair2
          /\ status[3] = pair3 /\ status[4] = pair4
      <4> DEFINE n == Len(always)
      <4>1. /\ DOMAIN status = 1 .. n + 1 /\ status[n + 1] = pair4
            /\ \A i \in 1 .. n : status[i] = always[i]
        <5>1. always \in Seq(P) /\ pair4 \in P
          BY <1>3, <3>2
        <5>2. OneLonger(Append(always, pair4), always, pair4)
          BY <5>1, AtTheEnd, Zenon
        <5>3. OneLonger(status, always, pair4)
          BY <3>1, <5>2, Zenon
        <5> QED BY <5>3 DEF OneLonger
      <4>2. n = 3 /\ 3 + 1 = 4 /\ 1 \in 1 .. 3 /\ 2 \in 1 .. 3 /\ 3 \in 1 .. 3
        BY <3>2
      <4> HIDE DEF n
      <4>3. DOMAIN status = 1 .. 4 /\ status[4] = pair4 /\ \A i \in 1 .. 3 : status[i] = always[i]
        BY <4>1, <4>2
      <4> QED BY <3>2, <4>2, <4>3, Zenon
    <3>4. 1 .. 4 = {1, 2, 3, 4}
      OBVIOUS
    <3> QED BY <1>9, <3>3, <3>4
  <2> QED BY <2>1, <2>2
<1> HIDE DEF status
<1>5. status \in List(P)
  BY <1>4, ShortList
<1>6. v \in V
  <2>0. status \in Mapping(W)
    BY <1>5, <1>10 DEF Mapping, P
  <2>1. v \in Container(W)
    BY <2>0 DEF Container
  <2> HIDE DEF v
  <2>2. v \in Container(Value[Nesting - 1])
    BY <2>1 DEF W
  <2> DEFINE C == Container(Value[Nesting - 1])
             S == Scalar
  <2>3. V = S \cup C /\ v \in C
    BY <2>2, ScalarIn, Zenon
  <2> HIDE DEF C, S, V
  <2> QED BY <2>3
<1> HIDE DEF v
<1>7. args \in Seq(V)
  BY <1>6, OneIn
<1> HIDE DEF args, name, V
<1>8. Command(name, transactionID, commandObj, args) \in CommandSet
  BY <1>1, <1>7, CommandIn DEF V
<1>11. OnStatus(transactionID, commandObj, level, code, description, details)
        = Command(name, transactionID, commandObj, args)
  BY Zenon DEF OnStatus, name, args, v, status, always, pair1, pair2, pair3, pair4
<1> QED
  BY <1>8, <1>11

\* What the builder's own functions make are commands with values as deep as
\* Nesting allows.
LEMMA AnyCommandIn == AnyCommand \subseteq CommandSet
<1>1. Commands \subseteq CommandSet /\ \A p \in Infos : <<"map", p>> \in Value[Nesting]
  BY CommandsAssumption
<1>2. Text["_result"] \in GoString /\ Text["_error"] \in GoString
  BY NamesHave
<1>3. \A n \in {0, 1, 2} : Float64[n] \in Bits
  <2>1. \A n \in {0, 1, 2} : n \in -2 .. 3
    OBVIOUS
  <2> QED BY <2>1, NamesHave, Zenon
<1>4. /\ <<"nil">> \in Value[Nesting]
      /\ \A x \in Bits : <<"float64", x>> \in Value[Nesting]
  BY ScalarIn, ScalarHas, Zenon
<1>5. ASSUME NEW name, Text[name] \in GoString
      PROVE  ConnectResults(name) \subseteq CommandSet
  <2> SUFFICES ASSUME NEW p \in Infos, NEW i \in Infos
               PROVE  ConnectResult(name, Float64[1], p, i) \in CommandSet
    BY DEF ConnectResults
  <2> DEFINE n == Text[name]
             t == Float64[1]
             obj == <<"map", p>>
             info == <<"map", i>>
             args == <<info>>
  <2>1. n \in GoString /\ t \in Bits /\ obj \in Value[Nesting] /\ info \in Value[Nesting]
    BY <1>1, <1>3, <1>5
  <2> HIDE DEF n, t, obj, info
  <2>2. args \in Seq(Value[Nesting])
    BY <2>1, OneIn
  <2> HIDE DEF args
  <2>3. Command(n, t, obj, args) \in CommandSet
    BY <2>1, <2>2, CommandIn
  <2> QED BY <2>3, Zenon DEF ConnectResult, n, t, obj, info, args
<1>6. StreamResults \subseteq CommandSet
  <2> DEFINE n == Text["_result"]
             t == Float64[2]
             obj == <<"nil">>
             id == <<"float64", Float64[1]>>
             args == <<id>>
  <2>1. n \in GoString /\ t \in Bits /\ obj \in Value[Nesting] /\ id \in Value[Nesting]
    BY <1>2, <1>3, <1>4
  <2> HIDE DEF n, t, obj, id
  <2>2. args \in Seq(Value[Nesting])
    BY <2>1, OneIn
  <2> HIDE DEF args
  <2>3. Command(n, t, obj, args) \in CommandSet
    BY <2>1, <2>2, CommandIn
  <2>4. CreateStreamResult(Float64[2], Float64[1]) \in CommandSet
    BY <2>3, Zenon DEF CreateStreamResult, n, t, obj, id, args
  <2> QED BY <2>4 DEF StreamResults
<1>7. /\ \A s \in {"status", "error", "warning", "NetStream.Publish.Start", "NetStream.Play.Start",
                    "NetStream.Play.StreamNotFound", "Stream is now published",
                    "Stream is now playing", "details"} : Text[s] \in GoString
      /\ <<>> \in GoString
  <2>1. <<>> \in GoString
    <3>1. <<>> \in Seq(Byte) /\ Len(<<>>) <= 4
      OBVIOUS
    <3> QED BY <3>1, ShortList DEF GoString
  <2> QED BY <2>1, NamesHave
<1>8. PublishResults \cup PlayResults \cup ErrorStatuses \subseteq CommandSet
  <2> DEFINE t == Float64[0]
             obj == <<"nil">>
             none == <<>>
  <2>1. t \in Bits /\ obj \in Value[Nesting] /\ none \in GoString
    BY <1>3, <1>4, <1>7
  <2> HIDE DEF t, obj, none
  <2>2. /\ OnStatus(t, obj, "status", "NetStream.Publish.Start", Text["Stream is now published"], none)
             \in CommandSet
        /\ OnStatus(t, obj, "status", "NetStream.Play.Start", Text["Stream is now playing"], none)
             \in CommandSet
        /\ OnStatus(t, obj, "error", "NetStream.Play.StreamNotFound", Text["Stream is now playing"], none)
             \in CommandSet
    BY <1>7, <2>1, OnStatusIn
  <2>3. /\ PublishResult(Float64[0]) \in CommandSet /\ PlayResult(Float64[0]) \in CommandSet
        /\ BuildError(Float64[0], "NetStream.Play.StreamNotFound", Text["Stream is now playing"])
             \in CommandSet
    BY <2>2, Zenon DEF PublishResult, PlayResult, BuildError, t, obj, none
  <2> QED BY <2>3 DEF PublishResults, PlayResults, ErrorStatuses
<1>9. Statuses \subseteq CommandSet
  <2> SUFFICES ASSUME NEW c \in Statuses PROVE c \in CommandSet
    OBVIOUS
  <2>0. PICK p \in Infos, details \in {<<>>, Text["details"]} :
          c = OnStatus(Float64[0], <<"map", p>>, "warning", "NetStream.Play.Start", <<>>, details)
    BY Z3 DEF Statuses
  <2> DEFINE t == Float64[0]
             obj == <<"map", p>>
             none == <<>>
  <2>1. t \in Bits /\ obj \in Value[Nesting] /\ none \in GoString /\ details \in GoString
    BY <1>1, <1>3, <1>7
  <2> HIDE DEF t, obj, none
  <2>2. OnStatus(t, obj, "warning", "NetStream.Play.Start", none, details) \in CommandSet
    BY <1>7, <2>1, OnStatusIn
  <2> QED BY <2>0, <2>2, Zenon DEF t, obj, none
<1>10. ConnectResults("_result") \subseteq CommandSet /\ ConnectResults("_error") \subseteq CommandSet
  BY <1>2, <1>5
<1> QED
  BY <1>1, <1>6, <1>8, <1>9, <1>10 DEF AnyCommand

\* What is joined to three.
AfterThree(h, t, n) ==
  /\ Len(h \o t) = n + 3 /\ DOMAIN (h \o t) = 1 .. n + 3
  /\ h \o t = [i \in 1 .. n + 3 |-> (h \o t)[i]]
  /\ (h \o t)[1] = h[1] /\ (h \o t)[2] = h[2] /\ (h \o t)[3] = h[3]
  /\ \A i \in 1 .. n : (h \o t)[i + 3] = t[i]

\* Three elements and a sequence.
LEMMA ThreeThen ==
    ASSUME NEW S, NEW h \in Seq(S), Len(h) = 3, NEW t \in Seq(S), NEW n, Len(t) = n
    PROVE  AfterThree(h, t, n)
<1> DEFINE s == h \o t
<1>1. n \in Nat
  OBVIOUS
<1>2. /\ s \in Seq(S) /\ Len(s) = 3 + n
      /\ \A i \in 1 .. 3 + n : s[i] = IF i <= 3 THEN h[i] ELSE t[i - 3]
  <2>1. /\ s \in Seq(S) /\ Len(s) = Len(h) + Len(t)
        /\ \A i \in 1 .. Len(h) + Len(t) : s[i] = IF i <= Len(h) THEN h[i] ELSE t[i - Len(h)]
    BY ConcatProperties
  <2>2. Len(h) = 3 /\ Len(t) = n
    OBVIOUS
  <2> HIDE DEF s
  <2> QED BY <2>1, <2>2
<1> HIDE DEF s
<1>3. Len(s) = n + 3 /\ DOMAIN s = 1 .. n + 3 /\ s = [i \in 1 .. n + 3 |-> s[i]]
  BY <1>1, <1>2
<1>4. s[1] = h[1] /\ s[2] = h[2] /\ s[3] = h[3]
  BY <1>1, <1>2
<1>5. ASSUME NEW i \in 1 .. n PROVE s[i + 3] = t[i]
  <2>1. i + 3 \in 1 .. 3 + n /\ ~(i + 3 <= 3) /\ (i + 3) - 3 = i
    BY <1>1
  <2> QED BY <1>2, <2>1
<1> QED
  BY <1>3, <1>4, <1>5, Zenon DEF AfterThree, s

\* The values of a command are its name, its transaction and its object, then
\* its arguments.
ValuesAre3(c, x, y) ==
  /\ Values(c) \in Seq(Value[Nesting]) /\ Len(c.args) \in Nat /\ Len(Values(c)) = Len(c.args) + 3
  /\ Values(c)[1] = x /\ Values(c)[2] = y /\ Values(c)[3] = c.commandObj
  /\ \A i \in 1 .. Len(c.args) : Values(c)[i + 3] = c.args[i]

\* The parts of a command are values, or can be.
LEMMA CommandHas ==
    ASSUME NEW c \in CommandSet
    PROVE  /\ c.name \in GoString /\ c.transactionID \in Bits
           /\ c.commandObj \in Value[Nesting] /\ c.args \in Seq(Value[Nesting])
           /\ <<"string", c.name>> \in Scalar /\ <<"float64", c.transactionID>> \in Scalar
           /\ <<"string", c.name>> \in Value[Nesting] /\ <<"float64", c.transactionID>> \in Value[Nesting]
<1>1. /\ c.name \in GoString /\ c.transactionID \in Bits
      /\ c.commandObj \in Value[Nesting] /\ c.args \in Seq(Value[Nesting])
  BY DEF CommandSet
<1>2. <<"string", c.name>> \in Scalar /\ <<"float64", c.transactionID>> \in Scalar
  BY <1>1, ScalarHas
<1> DEFINE x == <<"string", c.name>>
           y == <<"float64", c.transactionID>>
<1>3. x \in Value[Nesting] /\ y \in Value[Nesting]
  <2> HIDE DEF x, y
  <2> QED BY <1>2, ScalarIn DEF x, y
<1> QED
  BY <1>1, <1>2, <1>3

\* The values of a command: its name, its transaction, its object, its arguments.
LEMMA ValuesHave ==
    ASSUME NEW c \in CommandSet
    PROVE  ValuesAre3(c, <<"string", c.name>>, <<"float64", c.transactionID>>)
<1> DEFINE x == <<"string", c.name>>
           y == <<"float64", c.transactionID>>
           z == c.commandObj
           V == Value[Nesting]
           a == c.args
<1>1. x \in V /\ y \in V /\ z \in V /\ a \in Seq(V)
  BY CommandHas
<1>2. Values(c) = <<x, y, z>> \o a
  BY DEF Values
<1> HIDE DEF x, y, z, V, a
<1> DEFINE h == <<x, y, z>>
<1>3. h \in Seq(V) /\ Len(h) = 3 /\ h[1] = x /\ h[2] = y /\ h[3] = z /\ Len(a) \in Nat
  BY <1>1
<1> HIDE DEF h
<1> DEFINE vs == h \o a
<1>4. /\ vs \in Seq(V) /\ Len(vs) = Len(a) + 3 /\ vs[1] = x /\ vs[2] = y /\ vs[3] = z
      /\ \A i \in 1 .. Len(a) : vs[i + 3] = a[i]
  <2>1. AfterThree(h, a, Len(a))
    BY <1>1, <1>3, ThreeThen
  <2>2. /\ Len(vs) = Len(a) + 3 /\ vs[1] = h[1] /\ vs[2] = h[2] /\ vs[3] = h[3]
        /\ \A i \in 1 .. Len(a) : vs[i + 3] = a[i]
    BY <2>1, Zenon DEF AfterThree
  <2>3. vs \in Seq(V)
    BY <1>1, <1>3, JoinedRest
  <2> HIDE DEF vs
  <2> QED BY <1>3, <2>2, <2>3
<1> HIDE DEF vs
<1>5. Values(c) = vs
  BY <1>2 DEF vs, h
<1> QED
  BY <1>3, <1>4, <1>5 DEF ValuesAre3, x, y, z, V, a

\* A value that contains no others.
LEMMA VisitAlone ==
    ASSUME NEW v \in Scalar
    PROVE  Visit[Nesting][v] = <<v>>
<1> DEFINE vis == Inside(Visit, Nesting)
<1>1. Visit[Nesting][v] = VisitBy(vis, v)
  BY ScalarIn, VisitEquation
<1> HIDE DEF vis
<1>2. VisitBy(vis, v) = <<v>>
  BY VisitScalar
<1> QED
  BY <1>1, <1>2

\* Everything in a command, in the order in which it is written.
Visits(c) == FlattenSeq([i \in DOMAIN Values(c) |-> Visit[Nesting][Values(c)[i]]])

\* Four parts.
JoinedFour(a, b, c, d) == ((a \o b) \o c) \o d = a \o (b \o (c \o d))

\* Joining four parts, it does not matter where one begins.
LEMMA JoinFourAny ==
    ASSUME NEW S, NEW a \in Seq(S), NEW b \in Seq(S), NEW c \in Seq(S), NEW d \in Seq(S)
    PROVE  JoinedFour(a, b, c, d)
<1> DEFINE ab == a \o b
           cd == c \o d
<1>1. JoinedThree(S, a, b, c) /\ JoinedThree(S, b, c, d)
  BY JoinAny
<1>2. ab \in Seq(S) /\ cd \in Seq(S)
  BY <1>1, Zenon DEF JoinedThree
<1> HIDE DEF ab, cd
<1>3. JoinedThree(S, ab, c, d) /\ JoinedThree(S, a, b, cd)
  BY <1>2, JoinAny
<1>4. (ab \o c) \o d = ab \o cd /\ (a \o b) \o cd = a \o (b \o cd)
  BY <1>3, Zenon DEF JoinedThree, cd
<1> QED
  BY <1>4, Zenon DEF JoinedFour, ab, cd

\* Name and transaction come before everything else in a command.
LEMMA VisitsAre ==
    ASSUME NEW c \in CommandSet
    PROVE  /\ VisitCommand(c) \in Seq(AnyValue)
           /\ Visits(c) = <<<<"string", c.name>>>> \o (<<<<"float64", c.transactionID>>>> \o VisitCommand(c))
<1> DEFINE x == <<"string", c.name>>
           y == <<"float64", c.transactionID>>
           z == Visit[Nesting][c.commandObj]
           tail == [i \in DOMAIN c.args |-> Visit[Nesting][c.args[i]]]
           a == <<x>>
           b == <<y>>
           S == AnyValue
           ss == [i \in DOMAIN Values(c) |-> Visit[Nesting][Values(c)[i]]]
           n == Len(c.args)
           head == <<a, b, z>>
<1>1. Visit[Nesting][x] = a /\ Visit[Nesting][y] = b
  <2>1. x \in Scalar /\ y \in Scalar
    BY CommandHas
  <2> HIDE DEF x, y
  <2>2. Visit[Nesting][x] = <<x>>
    BY <2>1, VisitAlone, Zenon
  <2>3. Visit[Nesting][y] = <<y>>
    BY <2>1, VisitAlone, Zenon
  <2> QED BY <2>2, <2>3
<1>2. ValuesAre3(c, x, y)
  BY ValuesHave, Zenon
<1>3. /\ x \in Value[Nesting] /\ y \in Value[Nesting] /\ c.commandObj \in Value[Nesting]
      /\ c.args \in Seq(Value[Nesting]) /\ n \in Nat
  BY CommandHas
<1>4. \A v \in Value[Nesting] : v \in S /\ Visit[Nesting][v] \in Seq(S)
  <2> SUFFICES ASSUME NEW v \in Value[Nesting] PROVE v \in S /\ Visit[Nesting][v] \in Seq(S)
    OBVIOUS
  <2>1. Nesting \in Nat
    BY NestingAssumption
  <2> QED BY <2>1, VisitHas, WithinIs
<1>5. a \in Seq(S) /\ b \in Seq(S) /\ z \in Seq(S)
  <2>1. x \in S /\ y \in S /\ z \in Seq(S)
    BY <1>3, <1>4, Zenon
  <2> HIDE DEF x, y, S, z
  <2> QED BY <2>1
<1>6. tail \in Seq(Seq(S)) /\ Len(tail) = n /\ \A i \in 1 .. n : tail[i] = Visit[Nesting][c.args[i]]
  <2>1. \A i \in 1 .. n : c.args[i] \in Value[Nesting]
    BY <1>3
  <2>2. \A i \in 1 .. n : Visit[Nesting][c.args[i]] \in Seq(S)
    BY <1>4, <2>1, Zenon
  <2>3. DOMAIN c.args = 1 .. n
    BY <1>3
  <2> HIDE DEF S
  <2> QED BY <1>3, <2>2, <2>3, IsASeq
<1>7. /\ Len(ss) = n + 3 /\ DOMAIN ss = 1 .. n + 3
      /\ ss[1] = Visit[Nesting][x] /\ ss[2] = Visit[Nesting][y] /\ ss[3] = z
      /\ \A i \in 1 .. n : ss[i + 3] = Visit[Nesting][c.args[i]]
  <2>1. /\ Values(c) \in Seq(Value[Nesting]) /\ Len(Values(c)) = n + 3
        /\ Values(c)[1] = x /\ Values(c)[2] = y /\ Values(c)[3] = c.commandObj
        /\ \A i \in 1 .. n : Values(c)[i + 3] = c.args[i]
    BY <1>2 DEF ValuesAre3
  <2>2. DOMAIN Values(c) = 1 .. n + 3
    BY <2>1
  <2>3. DOMAIN ss = 1 .. n + 3 /\ \A i \in 1 .. n + 3 : ss[i] = Visit[Nesting][Values(c)[i]]
    BY <2>2
  <2>4. Len(ss) = n + 3
    <3> DEFINE F(i) == Visit[Nesting][Values(c)[i]]
    <3>1. ss = [i \in 1 .. n + 3 |-> F(i)]
      BY <2>2
    <3> HIDE DEF F, ss, n
    <3> QED BY <1>3, <3>1
  <2>5. 1 \in 1 .. n + 3 /\ 2 \in 1 .. n + 3 /\ 3 \in 1 .. n + 3 /\ \A i \in 1 .. n : i + 3 \in 1 .. n + 3
    BY <1>3
  <2> HIDE DEF ss, x, y
  <2> QED BY <2>1, <2>3, <2>4, <2>5
<1> HIDE DEF tail, z, ss, n, x, y, S, a, b
<1>8. head \in Seq(Seq(S)) /\ Len(head) = 3 /\ head[1] = a /\ head[2] = b /\ head[3] = z
  BY <1>5
<1>9. ss = head \o tail
  <2> HIDE DEF head
  <2>1. /\ Len(head \o tail) = n + 3 /\ DOMAIN (head \o tail) = 1 .. n + 3
        /\ (head \o tail)[1] = a /\ (head \o tail)[2] = b /\ (head \o tail)[3] = z
        /\ \A i \in 1 .. n : (head \o tail)[i + 3] = tail[i]
    <3>1. AfterThree(head, tail, n)
      BY <1>6, <1>8, ThreeThen
    <3> QED BY <1>8, <3>1, Zenon DEF AfterThree
  <2>2. ASSUME NEW i \in 1 .. n + 3 PROVE ss[i] = (head \o tail)[i]
    <3>1. i = 1 \/ i = 2 \/ i = 3 \/ (i - 3 \in 1 .. n /\ (i - 3) + 3 = i)
      BY <1>3
    <3>2. CASE i - 3 \in 1 .. n /\ (i - 3) + 3 = i
      <4> DEFINE j == i - 3
      <4>1. j \in 1 .. n /\ j + 3 = i
        BY <3>2
      <4> HIDE DEF j
      <4>2. ss[j + 3] = Visit[Nesting][c.args[j]] /\ (head \o tail)[j + 3] = tail[j]
            /\ tail[j] = Visit[Nesting][c.args[j]]
        BY <1>6, <1>7, <2>1, <4>1, Zenon
      <4> QED BY <4>1, <4>2
    <3>3. CASE i = 1 \/ i = 2 \/ i = 3
      BY <1>1, <1>7, <2>1, <3>3
    <3> QED BY <3>1, <3>2, <3>3
  <2>3. ss = [i \in 1 .. n + 3 |-> ss[i]]
    BY <1>7 DEF ss
  <2>4. head \o tail = [i \in 1 .. n + 3 |-> (head \o tail)[i]]
    <3>1. AfterThree(head, tail, n)
      BY <1>6, <1>8, ThreeThen
    <3> QED BY <3>1, Zenon DEF AfterThree
  <2> QED BY <2>2, <2>3, <2>4
<1>10. FlattenSeq(head) = (a \o b) \o z
  <2> DEFINE h0 == <<>>
             h1 == Append(h0, a)
             h2 == Append(h1, b)
  <2>1. h0 \in Seq(Seq(S)) /\ h1 \in Seq(Seq(S)) /\ h2 \in Seq(Seq(S)) /\ head = Append(h2, z)
    BY <1>5
  <2> HIDE DEF h0, h1, h2, head
  <2>2. /\ FlattenSeq(head) = FlattenSeq(h2) \o z
        /\ FlattenSeq(h2) = FlattenSeq(h1) \o b
        /\ FlattenSeq(h1) = FlattenSeq(h0) \o a
    BY <1>5, <2>1, FlattenAppend DEF h1, h2
  <2>3. FlattenSeq(h0) = <<>> /\ <<>> \o a = a
    BY <1>5, FlattenNone, JoinNothing DEF h0
  <2> QED BY <2>2, <2>3, Zenon
<1> DEFINE t == FlattenSeq(tail)
<1>11. t \in Seq(S)
  BY <1>6, FlattenType
<1>12. FlattenSeq(ss) = ((a \o b) \o z) \o t
  <2>1. FlattenSeq(head \o tail) = FlattenSeq(head) \o FlattenSeq(tail)
    <3> HIDE DEF head
    <3> QED BY <1>6, <1>8, FlattenJoin
  <2> QED BY <1>9, <1>10, <2>1, Zenon
<1>13. VisitCommand(c) = z \o t
  BY Zenon DEF VisitCommand, z, t, tail
<1> HIDE DEF t
<1>14. z \o t \in Seq(S)
  BY <1>5, <1>11, JoinedRest
<1>15. ((a \o b) \o z) \o t = a \o (b \o (z \o t))
  <2>1. JoinedFour(a, b, z, t)
    BY <1>5, <1>11, JoinFourAny
  <2> QED BY <2>1, Zenon DEF JoinedFour
<1>16. Visits(c) = a \o (b \o VisitCommand(c))
  BY <1>12, <1>13, <1>15, Zenon DEF Visits, ss
<1> QED
  BY <1>13, <1>14, <1>16 DEF a, b, x, y, S

\* A name and a transaction can be written and read, whatever else is in the
\* command.
PlainScalar(v) == v \in Fit0 /\ v \in Fit3 /\ v \in Named /\ v \in Plain3

\* They are values without others in them, and are no containers.
LEMMA HeadPlain ==
    ASSUME NEW v \in Scalar, v[1] \in {"string", "float64"}
    PROVE  PlainScalar(v) /\ v \in AnyValue
<1>1. v \in AnyValue
  <2>1. v \in Value[Nesting] /\ Nesting \in Nat
    BY ScalarIn
  <2> DEFINE W == Value[Nesting]
  <2>2. W \subseteq AnyValue
    BY <2>1, ValuesAre
  <2> HIDE DEF W
  <2> QED BY <2>1, <2>2 DEF W
<1>2. PairsOf(v) = <<>>
  BY Contents
<1>3. Keys(v) = {}
  BY <1>2 DEF Keys
<1>4. /\ v[1] \in Tags0 /\ v[1] \in Tags3 /\ v[1] # "AMF3Integer"
      /\ v[1] \notin {"AMF0EcmaArray", "AMF0TypedObject"}
      /\ v[1] \notin {"AMF3Date", "AMF3Array"}
  BY DEF Tags0, Tags3, GoTags
<1>5. v \in Fit0 /\ v \in Fit3
  BY <1>1, <1>3, <1>4 DEF Fit0, Fit3, Encodable0, Encodable3
<1>6. v \in Named /\ v \in Plain3
  BY <1>1, <1>3, <1>4 DEF Named, Plain3
<1> QED
  BY <1>1, <1>5, <1>6, Zenon DEF PlainScalar

\* All is well with a command if it is with its object and its arguments.
LEMMA VisitsIn ==
    ASSUME NEW c \in CommandSet, NEW T, T \in {Fit0, Fit3, Named, Plain3}
    PROVE  AllIn(Visits(c), T) <=> AllIn(VisitCommand(c), T)
<1> DEFINE x == <<"string", c.name>>
           y == <<"float64", c.transactionID>>
           u == VisitCommand(c)
           a == <<x>>
           b == <<y>>
           S == AnyValue
<1>1. x \in T /\ y \in T /\ x \in S /\ y \in S
  <2>1. x \in Scalar /\ y \in Scalar
    BY CommandHas
  <2>2. x[1] \in {"string", "float64"} /\ y[1] \in {"string", "float64"}
    OBVIOUS
  <2> HIDE DEF x, y
  <2>3. PlainScalar(x) /\ x \in AnyValue
    BY <2>1, <2>2, HeadPlain
  <2>4. PlainScalar(y) /\ y \in AnyValue
    BY <2>1, <2>2, HeadPlain
  <2> QED BY <2>3, <2>4 DEF PlainScalar
<1>2. u \in Seq(S) /\ Visits(c) = a \o (b \o u)
  BY VisitsAre, Zenon
<1> HIDE DEF x, y, u, S
<1>3. a \in Seq(S) /\ b \in Seq(S) /\ AllIn(a, T) /\ AllIn(b, T)
  BY <1>1 DEF AllIn
<1> HIDE DEF a, b
<1> DEFINE bu == b \o u
<1>4. bu \in Seq(S)
  BY <1>2, <1>3, JoinedRest
<1>5. AllIn(bu, T) <=> AllIn(b, T) /\ AllIn(u, T)
  BY <1>2, <1>3, AllInJoin
<1> HIDE DEF bu
<1>6. AllIn(a \o bu, T) <=> AllIn(a, T) /\ AllIn(bu, T)
  BY <1>3, <1>4, AllInJoin
<1>7. Visits(c) = a \o bu
  BY <1>2 DEF bu
<1> QED
  BY <1>3, <1>5, <1>6, <1>7, Zenon DEF u

\* With empty tables the dates come in order, if they come before the containers.
LEMMA DatesOrdered ==
    ASSUME NEW u \in Seq(AnyValue), DatesBeforeContainers(u)
    PROVE  Ordered(<<>>, <<>>, u)
<1> SUFFICES ASSUME NEW i \in DOMAIN u, Recurs(<<>>, u, i)
             PROVE  Alike(<<>>, <<>>, u, i)
  BY DEF Ordered
<1>1. PICK j \in DOMAIN u : i < j /\ u[j] = u[i]
  BY DEF Recurs
<1>2. u[i][1] = "time" /\ \A k \in 1 .. i - 1 : u[k] # u[i]
  BY DEF Recurs
<1>3. \A k \in 1 .. i : u[k][1] \notin {"slice", "map", "AMF3Object"}
  BY <1>1, <1>2 DEF DatesBeforeContainers
<1> QED
  BY <1>3 DEF Alike, Containers3

\* So they do after a value that is neither.
LEMMA OrderedAfter ==
    ASSUME NEW v \in AnyValue, v[1] \notin Containers3, v[1] # "time", NEW w \in Seq(AnyValue),
           Ordered(<<>>, <<>>, w)
    PROVE  Ordered(<<>>, <<>>, <<v>> \o w)
<1> DEFINE x == <<v>> \o w
           n == Len(w)
           none == <<>>
<1>1. /\ n \in Nat /\ DOMAIN x = 1 .. n + 1 /\ DOMAIN w = 1 .. n
      /\ x[1] = v /\ \A k \in 1 .. n : x[k + 1] = w[k]
  BY OneMore
<1>0. ~\E i \in DOMAIN none : TRUE
  OBVIOUS
<1> HIDE DEF x, n, none
<1> SUFFICES ASSUME NEW i \in DOMAIN x, Recurs(none, x, i)
             PROVE  Alike(none, none, x, i)
  BY DEF Ordered, none, x
<1>2. x[i][1] = "time" /\ (\A k \in 1 .. i - 1 : x[k] # x[i])
      /\ \E j \in DOMAIN x : i < j /\ x[j] = x[i]
  BY DEF Recurs
<1>3. i # 1
  BY <1>1, <1>2
<1> DEFINE l == i - 1
<1>4. l \in 1 .. n /\ l + 1 = i
  BY <1>1, <1>3
<1> HIDE DEF l
<1>5. w[l] = x[i]
  BY <1>1, <1>4
<1>6. Recurs(none, w, l)
  <2>1. \A k \in 1 .. l - 1 : w[k] # w[l]
    <3> SUFFICES ASSUME NEW k \in 1 .. l - 1 PROVE w[k] # w[l]
      OBVIOUS
    <3>1. k + 1 \in 1 .. i - 1 /\ k \in 1 .. n
      BY <1>1, <1>4
    <3> QED BY <1>1, <1>2, <1>5, <3>1
  <2>2. \E j \in DOMAIN w : l < j /\ w[j] = w[l]
    <3>1. PICK j \in DOMAIN x : i < j /\ x[j] = x[i]
      BY <1>2
    <3>2. j - 1 \in DOMAIN w /\ l < j - 1 /\ (j - 1) + 1 = j
      BY <1>1, <1>4, <3>1
    <3>3. w[j - 1] = x[j]
      BY <1>1, <3>2
    <3> QED BY <1>5, <3>1, <3>2, <3>3
  <2>3. ~Known(none, w[l][2])
    BY <1>0 DEF Known
  <2>4. l \in DOMAIN w /\ w[l][1] = "time"
    BY <1>1, <1>2, <1>4, <1>5
  <2> QED BY <2>1, <2>2, <2>3, <2>4 DEF Recurs
<1>7. \A k \in 1 .. l : w[k][1] \notin Containers3
  BY <1>1, <1>4, <1>6 DEF Ordered, Alike, none
<1>8. ASSUME NEW k \in 1 .. i PROVE x[k][1] \notin Containers3
  <2>1. CASE k = 1
    BY <1>1, <2>1
  <2>2. CASE k # 1
    <3>1. k - 1 \in 1 .. l /\ k - 1 \in 1 .. n /\ (k - 1) + 1 = k
      BY <1>1, <1>4, <2>2
    <3>2. x[k] = w[k - 1]
      BY <1>1, <3>1
    <3> QED BY <1>7, <3>1, <3>2
  <2> QED BY <2>1, <2>2
<1> QED
  BY <1>8 DEF Alike

\* The tables of a new encoder and of a new decoder are in step for a command in
\* which no date is repeated that came after an array or an object.
LEMMA CommandInStep ==
    ASSUME NEW c \in CommandSet, DatesBeforeContainers(VisitCommand(c))
    PROVE  InStep(<<>>, <<>>, Visits(c))
<1> DEFINE x == <<"string", c.name>>
           y == <<"float64", c.transactionID>>
           u == VisitCommand(c)
           S == AnyValue
<1>1. /\ x \in S /\ x[1] \notin Containers3 /\ x[1] # "time"
      /\ y \in S /\ y[1] \notin Containers3 /\ y[1] # "time"
  <2>1. x \in Scalar /\ y \in Scalar
    BY CommandHas
  <2>2. x[1] = "string" /\ y[1] = "float64"
    OBVIOUS
  <2> HIDE DEF x, y
  <2>3. x \in AnyValue
    BY <2>1, <2>2, HeadPlain
  <2>4. y \in AnyValue
    BY <2>1, <2>2, HeadPlain
  <2> QED BY <2>2, <2>3, <2>4 DEF Containers3
<1>2. u \in Seq(S) /\ Visits(c) = <<x>> \o (<<y>> \o u)
  BY VisitsAre, Zenon
<1>3. Ordered(<<>>, <<>>, u)
  BY <1>2, DatesOrdered
<1> HIDE DEF x, y, u
<1> DEFINE t == <<y>> \o u
<1>4. Ordered(<<>>, <<>>, t)
  BY <1>1, <1>2, <1>3, OrderedAfter
<1>5. t \in Seq(S)
  <2>1. <<y>> \in Seq(S)
    BY <1>1
  <2> QED BY <1>2, <2>1, JoinedRest
<1> HIDE DEF t
<1>6. Ordered(<<>>, <<>>, <<x>> \o t)
  BY <1>1, <1>4, <1>5, OrderedAfter
<1>7. Visits(c) = <<x>> \o t
  BY <1>2 DEF t
<1> DEFINE w == Visits(c)
           none == <<>>
<1>8. Ordered(none, none, w)
  BY <1>6, <1>7
<1>9. Len(none) <= Len(none) /\ ~\E i \in DOMAIN none : TRUE
  OBVIOUS
<1> HIDE DEF w, none
<1>10. InStep(none, none, w)
  BY <1>8, <1>9 DEF InStep
<1> QED
  BY <1>10 DEF none, w

\* What the values of a command become.
Meant(encoding, c) == [i \in DOMAIN Values(c) |-> Becomes(encoding, Values(c)[i])]
Fit(encoding) == IF encoding = 3 THEN Fit3 ELSE Fit0

\* f is the encoder after the command of s was written.
BuildGives(s, f) ==
  /\ f.out \in Seq(Byte)
  /\ f.ok <=> AllIn(VisitCommand(s.command), Fit(s.encoding))
  /\ f.ok /\ Plain(s) => ReadsAll(s.encoding, f.out, <<>>, <<>>, Meant(s.encoding, s.command))

\* What was visited, value by value.
LEMMA VisitsSteps ==
    ASSUME NEW c \in CommandSet
    PROVE  /\ \A v \in Value[Nesting] : Visit[Nesting][v] \in Seq(AnyValue)
           /\ \A T : AllIn(Visits(c), T)
                <=> \A i \in DOMAIN Values(c) : AllIn(Visit[Nesting][Values(c)[i]], T)
           /\ Values(c) \in Seq(Value[Nesting]) /\ Visits(c) \in Seq(AnyValue)
<1>1. \A v \in Value[Nesting] : Visit[Nesting][v] \in Seq(AnyValue)
  <2> SUFFICES ASSUME NEW v \in Value[Nesting] PROVE Visit[Nesting][v] \in Seq(AnyValue)
    OBVIOUS
  <2>1. Nesting \in Nat
    BY NestingAssumption
  <2> QED BY <2>1, VisitHas
<1>2. Values(c) \in Seq(Value[Nesting])
  BY ValuesHave DEF ValuesAre3
<1> DEFINE values == Values(c)
           vis == Visit[Nesting]
           n == Len(values)
           ss == [i \in DOMAIN values |-> vis[values[i]]]
           V == Value[Nesting]
<1>3. values \in Seq(V) /\ n \in Nat /\ DOMAIN values = 1 .. n /\ \A v \in V : vis[v] \in Seq(AnyValue)
  BY <1>1, <1>2
<1> HIDE DEF values, vis, V, n
<1>4. \A i \in 1 .. n : vis[values[i]] \in Seq(AnyValue)
  <2>1. \A i \in 1 .. n : values[i] \in V
    BY <1>3 DEF n
  <2> QED BY <1>3, <2>1, Zenon
<1>5. ss \in Seq(Seq(AnyValue)) /\ DOMAIN ss = 1 .. n /\ \A i \in 1 .. n : ss[i] = vis[values[i]]
  BY <1>3, <1>4, IsASeq
<1> HIDE DEF ss
<1>6. ASSUME NEW T
      PROVE  AllIn(FlattenSeq(ss), T) <=> \A i \in DOMAIN values : AllIn(vis[values[i]], T)
  <2>1. AllIn(FlattenSeq(ss), T) <=> \A i \in DOMAIN ss : AllIn(ss[i], T)
    BY <1>5, AllInFlatten
  <2> QED BY <1>3, <1>5, <2>1, Zenon
<1>7. FlattenSeq(ss) \in Seq(AnyValue)
  BY <1>5, FlattenType
<1>8. Visits(c) = FlattenSeq(ss)
  BY Zenon DEF Visits, ss, values, vis
<1>9. \A T : AllIn(Visits(c), T) <=> \A i \in DOMAIN values : AllIn(vis[values[i]], T)
  BY <1>6, <1>8, Zenon
<1> QED
  BY <1>1, <1>2, <1>7, <1>8, <1>9, Zenon DEF values, vis

\* AMF0.
LEMMA BuildGives0 ==
    ASSUME NEW s, s.command \in CommandSet, s.encoding = 0
    PROVE  BuildGives(s, BuildCommand(0, s.command))
<1> DEFINE c == s.command
           values == Values(c)
           V == Value[Nesting]
           enc == EncodeValue0[Nesting]
           vis == Visit[Nesting]
           bec == Becomes0[Nesting]
           e == NewAMF0Encoder
           f == InTurn([i \in DOMAIN values |-> enc[values[i]]], e)
           F == EachBecomes(bec, values)
<1>0. c \in CommandSet
  OBVIOUS
<1>1. /\ values \in Seq(V)
      /\ \A T : AllIn(Visits(c), T) <=> \A i \in DOMAIN values : AllIn(vis[values[i]], T)
  BY <1>0, VisitsSteps, Zenon
<1>2. Codec0(V, enc, vis, bec)
  <2>1. Nesting \in Nat
    BY NestingAssumption
  <2> QED BY <2>1, ValueCarried0, Zenon
<1>3. e \in Encoder0 /\ e.ok /\ e.out = <<>>
  BY DEF NewAMF0Encoder, Encoder0
<1>4. f = BuildCommand(0, c)
  <2>1. ~(0 = 3)
    OBVIOUS
  <2> QED BY <2>1, Zenon DEF BuildCommand
<1>5. F = Meant(0, c)
  BY DEF Meant, EachBecomes, Becomes
<1> HIDE DEF F, c, values, V, enc, vis, bec, e
<1>6. ValuesCarry0(e, f, values, vis, bec)
  BY <1>1, <1>2, <1>3, ValuesCarried0
<1> HIDE DEF f
<1>7. f.ok <=> AllIn(VisitCommand(c), Fit0)
  <2>1. f.ok <=> \A i \in DOMAIN values : AllIn(vis[values[i]], Fit0)
    BY <1>3, <1>6, Zenon DEF ValuesCarry0
  <2>2. AllIn(Visits(c), Fit0) <=> AllIn(VisitCommand(c), Fit0)
    BY <1>0, VisitsIn
  <2> QED BY <1>1, <2>1, <2>2, Zenon
<1>8. PICK b \in Seq(Byte) : /\ f.out = e.out \o b
                             /\ f.ok /\ (\A i \in DOMAIN values : AllIn(vis[values[i]], Named))
                                  => ReadsAll(0, b, <<>>, <<>>, F)
  BY <1>6, Zenon DEF ValuesCarry0, F
<1>9. f.out = b
  <2>1. <<>> \o b = b
    BY JoinNothing
  <2> QED BY <1>3, <1>8, <2>1, Zenon
<1>10. Plain(s) => \A i \in DOMAIN values : AllIn(vis[values[i]], Named)
  <2> SUFFICES ASSUME Plain(s) PROVE AllIn(Visits(c), Named)
    BY <1>1, Zenon
  <2>1. NoEmptyKey(VisitCommand(c))
    BY Zenon DEF Plain, c
  <2>2. VisitCommand(c) \in Seq(AnyValue)
    BY <1>0, VisitsAre
  <2>3. AllIn(VisitCommand(c), Named)
    BY <2>1, <2>2 DEF NoEmptyKey, AllIn, Named
  <2> QED BY <1>0, <2>3, VisitsIn
<1>11. Fit(0) = Fit0 /\ 0 = s.encoding
  BY DEF Fit
<1>12. f.ok /\ Plain(s) => ReadsAll(0, f.out, <<>>, <<>>, Meant(0, c))
  BY <1>5, <1>8, <1>9, <1>10, Zenon
<1>13. BuildGives(s, f)
  BY <1>7, <1>9, <1>11, <1>12, Zenon DEF BuildGives, c
<1> QED
  BY <1>4, <1>13 DEF c

\* AMF3.
LEMMA BuildGives3 ==
    ASSUME NEW s, s.command \in CommandSet, s.encoding = 3,
           Len(BuildCommand(3, s.command).out) < TwoTo24
    PROVE  BuildGives(s, BuildCommand(3, s.command))
<1> DEFINE c == s.command
           values == Values(c)
           V == Value[Nesting]
           enc == EncodeValue3[Nesting]
           vis == Visit[Nesting]
           bec == Becomes3[Nesting]
           e == NewAMF3Encoder
           f == InTurn([i \in DOMAIN values |-> enc[values[i]]], e)
           F == EachBecomes(bec, values)
           w == Visits(c)
           none == <<>>
<1>0. c \in CommandSet
  OBVIOUS
<1>1. /\ values \in Seq(V) /\ w \in Seq(AnyValue)
      /\ \A v \in V : vis[v] \in Seq(AnyValue)
  BY <1>0, VisitsSteps, Zenon
<1>2. Codec3(V, enc, vis, bec)
  <2>1. Nesting \in Nat
    BY NestingAssumption
  <2> QED BY <2>1, ValueCarried3, Zenon
<1>3. e \in Good3 /\ e.ok /\ e.out = none /\ e.strs = none /\ e.objs = none
      /\ none \in ObjectTable
  BY New3
<1>4. f = BuildCommand(3, c)
  BY Zenon DEF BuildCommand
<1>5. InGo(F) = Meant(3, c)
  BY DEF Meant, EachBecomes, Becomes, InGo
<1>6. w = FlattenSeq([i \in DOMAIN values |-> vis[values[i]]])
  BY Zenon DEF Visits
<1> HIDE DEF F, c, values, V, enc, vis, bec, e, w
<1>7. Carries3("rest", 0, e, f, FlattenSeq([i \in DOMAIN values |-> vis[values[i]]]), F)
  BY <1>1, <1>2, <1>3, ValuesCarried3 DEF F
<1> HIDE DEF f
<1>8. Carries3("rest", 0, e, f, w, F)
  BY <1>6, <1>7, Zenon
<1>9. f.ok <=> AllIn(VisitCommand(c), Fit3)
  <2>1. f.ok <=> AllIn(w, Fit3)
    BY <1>3, <1>8, Zenon DEF Carries3
  <2>2. AllIn(Visits(c), Fit3) <=> AllIn(VisitCommand(c), Fit3)
    BY <1>0, VisitsIn
  <2> QED BY <2>1, <2>2 DEF w
<1>10. PICK b \in Seq(Byte) : /\ f.out = e.out \o b
                              /\ Readable3(f, w) => ReadsAfter("rest", 0, e, f, w, F, b)
  BY <1>8, Zenon DEF Carries3
<1>11. f.out = b
  <2>1. <<>> \o b = b
    BY JoinNothing
  <2> QED BY <1>3, <1>10, <2>1, Zenon DEF none
<1>12. ASSUME f.ok, Plain(s)
       PROVE  ReadsAll(3, b, none, none, Meant(3, c))
  <2>1. /\ NoEmptyKey(VisitCommand(c)) /\ NoTypedContainers(VisitCommand(c))
        /\ DatesBeforeContainers(VisitCommand(c)) /\ NoWideInteger(VisitCommand(c))
    BY <1>12, Zenon DEF Plain, c
  <2>2. VisitCommand(c) \in Seq(AnyValue)
    BY <1>0, VisitsAre
  <2>3. AllIn(VisitCommand(c), Plain3)
    BY <2>1, <2>2 DEF NoEmptyKey, NoTypedContainers, NoWideInteger, AllIn, Plain3
  <2>4. AllIn(w, Plain3)
    BY <1>0, <2>3, VisitsIn DEF w
  <2>5. Len(f.out) < TwoTo24
    BY <1>4 DEF c
  <2>6. Readable3(f, w)
    BY <1>12, <2>4, <2>5, Zenon DEF Readable3
  <2>7. InStep(none, none, w)
    BY <1>0, <2>1, CommandInStep DEF w, none
  <2>8. none \in Seq(AnyValue) /\ w \o none = w
    BY <1>1, JoinNothing DEF none
  <2>9. InStep(e.objs, none, w \o none)
    BY <1>3, <2>7, <2>8, Zenon
  <2>10. ReadsAfter("rest", 0, e, f, w, F, b)
    BY <1>10, <2>6
  <2>11. PICK p \in ObjectTable : ReadsAs("rest", 0, b, e.strs, none, f.strs, p, F)
    BY <1>3, <2>8, <2>9, <2>10, Zenon DEF ReadsAfter
  <2>12. ReadsAll(3, b, e.strs, none, InGo(F))
    BY <2>11 DEF ReadsAs
  <2> QED BY <1>3, <1>5, <2>12, Zenon
<1>13. Fit(3) = Fit3 /\ 3 = s.encoding
  BY DEF Fit
<1>14. BuildGives(s, f)
  BY <1>9, <1>11, <1>12, <1>13, Zenon DEF BuildGives, c, none
<1> QED
  BY <1>4, <1>14 DEF c

\* In either, for the commands there are.
LEMMA BuildOf ==
    ASSUME NEW s, s.command \in AnyCommand, s.encoding \in Encodings
    PROVE  BuildGives(s, BuildCommand(s.encoding, s.command))
<1>1. s.command \in CommandSet
  BY AnyCommandIn
<1>2. CASE s.encoding = 0
  <2>1. BuildGives(s, BuildCommand(0, s.command))
    BY <1>1, <1>2, BuildGives0
  <2> QED BY <1>2, <2>1
<1>3. CASE s.encoding = 3
  <2>0. Len(BuildCommand(3, s.command).out) < TwoTo24
    <3>1. 3 \in Encodings
      BY DEF Encodings
    <3> QED BY <3>1, SmallAssumption
  <2>1. BuildGives(s, BuildCommand(3, s.command))
    BY <1>1, <1>3, <2>0, BuildGives3
  <2> QED BY <1>3, <2>1
<1> QED
  BY <1>2, <1>3 DEF Encodings

\* A string and a float64 stay what they are, in either encoding.
LEMMA StaysAs ==
    ASSUME NEW encoding \in Encodings, NEW tag \in {"string", "float64"}, NEW x,
           <<tag, x>> \in Scalar
    PROVE  Becomes(encoding, <<tag, x>>) = <<tag, x>>
<1> DEFINE v == <<tag, x>>
<1>0. v[1] = tag /\ v[2] = x
  OBVIOUS
<1>1. v \in Value[Nesting] /\ Nesting \in Nat
  BY ScalarIn
<1>2. Becomes0[Nesting][v] = ByType0(Inside(Becomes0, Nesting), v)
  <2>1. Becomes0[Nesting] = BecomeStep0(Nesting, Inside(Becomes0, Nesting))
    BY <1>1, Becomes0Is, Zenon
  <2> DEFINE bec == Inside(Becomes0, Nesting)
  <2> HIDE DEF bec, v
  <2> QED
    BY <1>1, <2>1, Zenon DEF BecomeStep0, bec
<1>3. Becomes3[Nesting][v] = ByType3(Inside(Becomes3, Nesting), v)
  <2>1. Becomes3[Nesting] = BecomeStep3(Nesting, Inside(Becomes3, Nesting))
    BY <1>1, Becomes3Is, Zenon
  <2> DEFINE bec == Inside(Becomes3, Nesting)
  <2> HIDE DEF bec, v
  <2> QED
    BY <1>1, <2>1, Zenon DEF BecomeStep3, bec
<1>4. Becomes0[Nesting][v] = v
  <2> DEFINE bec == Inside(Becomes0, Nesting)
  <2> HIDE DEF bec, v
  <2>1. v[1] \in {"float64", "bool", "string", "nil"}
    BY <1>0
  <2>2. ByType0(bec, v) = v
    BY <2>1, BecomesByType0
  <2> QED
    BY <1>2, <2>2 DEF bec
<1> DEFINE w == Becomes3[Nesting][v]
<1>5. /\ v[1] = "string" => w = <<"AMF3String", v[2]>>
      /\ v[1] = "float64" => w = <<"AMF3Double", v[2]>>
  <2> DEFINE bec == Inside(Becomes3, Nesting)
  <2> HIDE DEF bec, v, w
  <2>1. /\ v[1] = "string" => ByType3(bec, v) = <<"AMF3String", v[2]>>
        /\ v[1] = "float64" => ByType3(bec, v) = <<"AMF3Double", v[2]>>
    BY BecomesByType3
  <2> QED
    BY <1>3, <2>1 DEF bec, w
<1>6. ToGo3(w) = v
  <2> HIDE DEF w
  <2>1. CASE tag = "string"
    <3>1. w = <<"AMF3String", x>>
      BY <1>0, <1>5, <2>1
    <3>2. w[1] = "AMF3String" /\ w[2] = x
      BY <3>1
    <3>3. ToGo3(w) = <<"string", w[2]>>
      BY <3>2 DEF ToGo3
    <3> QED BY <2>1, <3>2, <3>3
  <2>2. CASE tag = "float64"
    <3>1. w = <<"AMF3Double", x>>
      BY <1>0, <1>5, <2>2
    <3>2. w[1] = "AMF3Double" /\ w[2] = x
      BY <3>1
    <3>3. ToGo3(w) = <<"float64", w[2]>>
      BY <3>2 DEF ToGo3
    <3> QED BY <2>2, <3>2, <3>3
  <2> QED
    BY <2>1, <2>2
<1> HIDE DEF v
<1>7. Becomes(encoding, v) = v
  BY <1>4, <1>6, Zenon DEF Becomes, w
<1> QED
  BY <1>7 DEF v

\* F is what the values of c become, k its arguments.
MeantAs(encoding, c, k, F) ==
  /\ k \in Nat /\ k = Len(c.args) /\ Len(F) = k + 3 /\ OfLength(F, k + 3)
  /\ F[1] = <<"string", c.name>> /\ F[2] = <<"float64", c.transactionID>>
  /\ F[3] = Becomes(encoding, c.commandObj)
  /\ \A i \in 1 .. k : F[i + 3] = Becomes(encoding, c.args[i])

\* It is a sequence of at least three.
LEMMA MeantHas ==
    ASSUME NEW c \in CommandSet, NEW encoding \in Encodings
    PROVE  MeantAs(encoding, c, Len(c.args), Meant(encoding, c))
<1> DEFINE k == Len(c.args)
           values == Values(c)
           x == <<"string", c.name>>
           y == <<"float64", c.transactionID>>
           n == k + 3
           F == Meant(encoding, c)
<1>0. x \in Scalar /\ y \in Scalar
  BY CommandHas
<1>1. ValuesAre3(c, x, y)
  BY ValuesHave
<1>2. Becomes(encoding, x) = x /\ Becomes(encoding, y) = y
  BY <1>0, StaysAs
<1> HIDE DEF x, y
<1>3. /\ values \in Seq(Value[Nesting]) /\ k \in Nat /\ Len(values) = n
      /\ values[1] = x /\ values[2] = y /\ values[3] = c.commandObj
      /\ \A i \in 1 .. k : values[i + 3] = c.args[i]
  BY <1>1 DEF ValuesAre3
<1>4. F = [i \in DOMAIN values |-> Becomes(encoding, values[i])]
  BY DEF Meant
<1> HIDE DEF values, F, n
<1>5. DOMAIN values = 1 .. n
  BY <1>3
<1>6. n \in Nat /\ n = k + 3 /\ \A i \in 1 .. k : i + 3 \in 1 .. n
  BY <1>3 DEF n
<1>7. F = [i \in 1 .. n |-> Becomes(encoding, values[i])]
  BY <1>4, <1>5
<1>8. \A i \in 1 .. n : F[i] = Becomes(encoding, values[i])
  BY <1>7
<1>9. OfLength(F, n)
  <2>1. DOMAIN F = 1 .. n
    BY <1>7
  <2>2. F = [i \in DOMAIN F |-> F[i]]
    BY <1>7
  <2> QED BY <2>1, <2>2 DEF OfLength
<1>10. Len(F) = n
  BY <1>6, <1>7
<1>11. 1 \in 1 .. n /\ 2 \in 1 .. n /\ 3 \in 1 .. n
  BY <1>3, <1>6
<1>12. F[1] = x /\ F[2] = y /\ F[3] = Becomes(encoding, c.commandObj)
  BY <1>2, <1>3, <1>8, <1>11
<1>13. \A i \in 1 .. k : F[i + 3] = Becomes(encoding, c.args[i])
  BY <1>3, <1>6, <1>8
<1> HIDE DEF k
<1>14. OfLength(F, k + 3) /\ Len(F) = k + 3
  BY <1>6, <1>9, <1>10
<1> QED
  BY <1>3, <1>12, <1>13, <1>14, Zenon DEF MeantAs, x, y, k, F

\* A whole command, or a part of it that is right as far as it goes.
InPart(s, c, m) ==
  c = Command(Meaning(s).name, Meaning(s).transactionID, Meaning(s).commandObj,
              SubSeq(Meaning(s).args, 1, m))
Arrives(s, c, whole) ==
  \/ c = Refused /\ ~whole
  \/ \E m \in 0 .. Len(Meaning(s).args) :
       InPart(s, c, m) /\ (whole => m = Len(Meaning(s).args))

\* What a chain gives of the values of a command.
LEMMA CommandOfChain ==
    ASSUME NEW s, s.command \in CommandSet, s.encoding \in Encodings,
           NEW F, NEW k, MeantAs(s.encoding, s.command, k, F),
           NEW n \in 0 .. k + 3, NEW D, Chain(s.encoding, n, D, F),
           NEW data, NewDecoder(s.encoding, data) = D[0]
    PROVE  /\ n < 3 => ParseCommand(s.encoding, data) = Refused
           /\ n >= 3 => InPart(s, ParseCommand(s.encoding, data), n - 3)
           /\ Len(Meaning(s).args) = k
<1> DEFINE encoding == s.encoding
           c == s.command
           G == [i \in 1 .. n |-> F[i]]
           args == [i \in DOMAIN c.args |-> Becomes(encoding, c.args[i])]
           p == ParseCommand(encoding, data)
<1>0. /\ k \in Nat /\ k = Len(c.args)
      /\ F[1] = <<"string", c.name>> /\ F[2] = <<"float64", c.transactionID>>
      /\ F[3] = Becomes(encoding, c.commandObj)
      /\ \A i \in 1 .. k : F[i + 3] = Becomes(encoding, c.args[i])
  BY DEF MeantAs
<1>1. n \in Nat /\ n <= k + 3 /\ encoding \in Encodings
  BY <1>0
<1>2. OfLength(G, n) /\ \A i \in 1 .. n : G[i] = F[i]
  BY DEF OfLength
<1> HIDE DEF G
<1>3. Chain(encoding, n, D, G)
  BY <1>2, Zenon DEF Chain
<1>4. /\ n < 3 => p = Refused
      /\ n >= 3 => p = IF G[1][1] # "string" \/ G[2][1] # "float64" THEN Refused
                       ELSE Command(G[1][2], G[2][2], G[3], SubSeq(G, 4, n))
  <2> HIDE DEF encoding
  <2>1. NewDecoder(encoding, data) = D[0]
    BY DEF encoding
  <2> QED BY <1>1, <1>2, <1>3, <2>1, ParsedOfChain
<1>5. c.args \in Seq(Value[Nesting])
  BY CommandHas
<1>6. DOMAIN args = 1 .. k /\ args = [i \in 1 .. k |-> Becomes(encoding, c.args[i])]
  BY <1>0, <1>5
<1>7. Len(args) = k
  BY <1>0, <1>6
<1>8. /\ Meaning(s).name = c.name /\ Meaning(s).transactionID = c.transactionID
      /\ Meaning(s).commandObj = Becomes(encoding, c.commandObj) /\ Meaning(s).args = args
  BY DEF Meaning, Command
<1>9. ASSUME n >= 3 PROVE InPart(s, p, n - 3)
  <2>1. 1 \in 1 .. n /\ 2 \in 1 .. n /\ 3 \in 1 .. n
    BY <1>1, <1>9
  <2>2. G[1] = <<"string", c.name>> /\ G[2] = <<"float64", c.transactionID>>
        /\ G[3] = Becomes(encoding, c.commandObj)
    BY <1>0, <1>2, <2>1
  <2>3. p = Command(c.name, c.transactionID, Becomes(encoding, c.commandObj), SubSeq(G, 4, n))
    <3>1. G[1][1] = "string" /\ G[1][2] = c.name /\ G[2][1] = "float64" /\ G[2][2] = c.transactionID
      BY <2>2
    <3> HIDE DEF p, encoding, c
    <3> QED BY <1>4, <1>9, <2>2, <3>1
  <2>4. SubSeq(G, 4, n) = SubSeq(args, 1, n - 3)
    <3> DEFINE m == n - 3
    <3>0. \A i, j \in Nat : i >= 3 /\ i <= j + 3 =>
            /\ i - 3 \in Nat /\ i - 3 <= j /\ i = (i - 3) + 3
            /\ (1 + i) - 4 = i - 3 /\ (1 + (i - 3)) - 1 = i - 3
      OBVIOUS
    <3>1. m \in Nat /\ m <= k /\ n = m + 3 /\ (1 + n) - 4 = m /\ (1 + m) - 1 = m
      BY <1>0, <1>1, <1>9, <3>0, Zenon
    <3>2. \A i \in 1 .. m : i + 3 \in 1 .. n /\ i \in 1 .. k /\ (i + 4) - 1 = i + 3 /\ (i + 1) - 1 = i
      BY <1>1, <1>0, <3>1
    <3>3. \A i \in 1 .. m : G[(i + 4) - 1] = args[(i + 1) - 1]
      <4> SUFFICES ASSUME NEW i \in 1 .. m PROVE G[(i + 4) - 1] = args[(i + 1) - 1]
        OBVIOUS
      <4>1. i + 3 \in 1 .. n /\ i \in 1 .. k /\ (i + 4) - 1 = i + 3 /\ (i + 1) - 1 = i
        BY <3>2
      <4> HIDE DEF args, m
      <4>2. G[i + 3] = F[i + 3] /\ F[i + 3] = Becomes(encoding, c.args[i])
        BY <1>0, <1>2, <4>1
      <4>3. args[i] = Becomes(encoding, c.args[i])
        BY <1>6, <4>1
      <4> QED BY <4>1, <4>2, <4>3
    <3> HIDE DEF m, args
    <3>4. [i \in 1 .. m |-> G[(i + 4) - 1]] = [i \in 1 .. m |-> args[(i + 1) - 1]]
      BY <3>3
    <3>5. SubSeq(G, 4, n) = [i \in 1 .. m |-> G[(i + 4) - 1]]
      BY <3>1
    <3>6. SubSeq(args, 1, m) = [i \in 1 .. m |-> args[(i + 1) - 1]]
      BY <3>1
    <3> QED BY <3>4, <3>5, <3>6 DEF m
  <2> HIDE DEF args
  <2> QED
    BY <1>8, <2>3, <2>4 DEF InPart
<1> QED
  BY <1>4, <1>7, <1>8, <1>9

\* The decoder that a parser starts with.
LEMMA NewDecoderIs ==
    ASSUME NEW encoding, NEW data
    PROVE  NewDecoder(encoding, data) = At(encoding, data, <<>>, <<>>)
BY DEF NewDecoder, NewAMF3Decoder, NewAMF0Decoder, At, At3, At0

\* Of the bytes of a command what is there of it is parsed.
LEMMA WhatArrives ==
    ASSUME NEW s, s.command \in CommandSet, s.encoding \in Encodings, NEW b \in Seq(Byte),
           ReadsAll(s.encoding, b, <<>>, <<>>, Meant(s.encoding, s.command)),
           NEW y \in Seq(Byte), NEW z \in Seq(Byte), y \o z = b
    PROVE  Arrives(s, ParseCommand(s.encoding, y), z = <<>>)
<1> DEFINE k == Len(s.command.args)
           F == Meant(s.encoding, s.command)
           c == ParseCommand(s.encoding, y)
           whole == z = <<>>
<1>1. MeantAs(s.encoding, s.command, k, F)
  BY MeantHas
<1>2. ReadsFrom(s.encoding, y, whole, <<>>, <<>>, F)
  <2> HIDE DEF F
  <2> QED BY Zenon DEF ReadsAll, whole, F
<1> HIDE DEF F, whole
<1>3. PICK n \in 0 .. Len(F) : \E D : /\ Chain(s.encoding, n, D, F)
                                      /\ D[0] = At(s.encoding, y, <<>>, <<>>)
                                      /\ whole => n = Len(F)
  BY <1>2, Zenon DEF ReadsFrom
<1>4. PICK D : /\ Chain(s.encoding, n, D, F) /\ D[0] = At(s.encoding, y, <<>>, <<>>)
               /\ whole => n = Len(F)
  BY <1>3, Zenon
<1>5. Len(F) = k + 3 /\ k \in Nat
  BY <1>1 DEF MeantAs
<1>6. n \in 0 .. k + 3
  BY <1>5
<1>7. NewDecoder(s.encoding, y) = D[0]
  BY <1>4, NewDecoderIs, Zenon
<1> HIDE DEF k
<1>8. /\ n < 3 => c = Refused
      /\ n >= 3 => InPart(s, c, n - 3)
      /\ Len(Meaning(s).args) = k
  BY <1>1, <1>4, <1>6, <1>7, CommandOfChain
<1>9. CASE n < 3
  <2>1. ~whole
    BY <1>4, <1>5, <1>9
  <2> HIDE DEF c
  <2>2. c = Refused
    BY <1>8, <1>9
  <2> QED BY <2>1, <2>2, Zenon DEF Arrives, c, whole
<1>10. CASE ~(n < 3)
  <2> DEFINE m == n - 3
  <2>1. m \in 0 .. k /\ (whole => m = k) /\ n >= 3
    BY <1>4, <1>5, <1>6, <1>10
  <2>2. InPart(s, c, m)
    BY <1>8, <2>1
  <2> HIDE DEF c, m
  <2> QED BY <1>8, <2>1, <2>2, Zenon DEF Arrives, c, whole
<1> QED
  BY <1>9, <1>10

-----------------------------------------------------------------------------
(* The first byte of a command is the marker of a string, and that of one  *)
(* encoding marks no string in the other.                                  *)

\* Bytes of which the first is in M.
StartsWith(M) == {x \in Seq(Byte) : x # <<>> /\ x[1] \in M}

\* It is still the first when more are written.
LEMMA StillStarts ==
    ASSUME NEW M, NEW a \in StartsWith(M), NEW b \in Seq(Byte)
    PROVE  a \o b \in StartsWith(M)
<1> DEFINE x == a \o b
           n == Len(a)
           m == Len(b)
<1>1. a \in Seq(Byte) /\ n \in Nat /\ m \in Nat /\ n # 0 /\ a[1] \in M
  BY EmptySeq DEF StartsWith
<1>2. x \in Seq(Byte) /\ Len(x) = n + m /\ \A i \in 1 .. n + m : x[i] = IF i <= n THEN a[i] ELSE b[i - n]
  BY <1>1, ConcatProperties
<1> HIDE DEF x, n, m
<1>3. 1 \in 1 .. n + m /\ 1 <= n /\ n + m # 0
  BY <1>1
<1>4. x[1] = a[1]
  BY <1>2, <1>3
<1>5. x # <<>>
  BY <1>2, <1>3, EmptySeq
<1>6. x \in StartsWith(M)
  BY <1>1, <1>2, <1>4, <1>5 DEF StartsWith
<1> QED BY <1>6 DEF x

\* And of what is cut from them, if there is anything.
LEMMA CutStarts ==
    ASSUME NEW M, NEW y \in Seq(Byte), NEW z \in Seq(Byte), y \o z \in StartsWith(M), y # <<>>
    PROVE  y \in StartsWith(M)
<1> DEFINE x == y \o z
           n == Len(y)
           m == Len(z)
<1>1. n \in Nat /\ m \in Nat /\ n # 0
  BY EmptySeq
<1>2. \A i \in 1 .. n + m : x[i] = IF i <= n THEN y[i] ELSE z[i - n]
  BY ConcatProperties
<1>3. x[1] \in M
  BY DEF StartsWith
<1> HIDE DEF x, n, m
<1>4. 1 \in 1 .. n + m /\ 1 <= n
  BY <1>1
<1>5. y[1] \in M
  BY <1>2, <1>3, <1>4
<1> QED BY <1>5 DEF StartsWith

\* What holds after the first of some steps, and is kept by the others, holds
\* after all.
FirstGives(steps, x, S) == steps[1][x] \in S
OthersKeep(steps, k, S) == \A i \in 2 .. k : \A g \in S : steps[i][g] \in S

\* So it is after all the steps.
LEMMA HoldsInTurn ==
    ASSUME NEW steps, NEW k \in Nat, k # 0, Len(steps) = k, NEW x, NEW S,
           FirstGives(steps, x, S), OthersKeep(steps, k, S)
    PROVE  InTurn(steps, x) \in S
<1>1. PICK after : Turn(steps, k, x, after)
  BY InTurnIs
<1>2. /\ after[0] = x /\ InTurn(steps, x) = after[k]
      /\ \A i \in 1 .. k : after[i] = steps[i][after[i - 1]]
  BY <1>1 DEF Turn
<1> DEFINE T == {i \in Nat : i + 1 <= k => after[i + 1] \in S}
<1>3. 0 \in T
  <2>1. 1 \in 1 .. k /\ 1 - 1 = 0 /\ 0 + 1 = 1
    OBVIOUS
  <2>2. after[1] = steps[1][x]
    BY <1>2, <2>1
  <2>3. after[1] \in S
    BY <2>2 DEF FirstGives
  <2> QED BY <2>1, <2>3
<1>4. ASSUME NEW i \in Nat, i \in T PROVE i + 1 \in T
  <2> SUFFICES ASSUME (i + 1) + 1 <= k PROVE after[(i + 1) + 1] \in S
    OBVIOUS
  <2> DEFINE j == (i + 1) + 1
  <2>1. j \in 2 .. k /\ j \in 1 .. k /\ j - 1 = i + 1 /\ i + 1 <= k
    OBVIOUS
  <2>2. after[i + 1] \in S
    BY <1>4, <2>1
  <2> HIDE DEF j
  <2>3. after[j] = steps[j][after[i + 1]]
    BY <1>2, <2>1
  <2>4. steps[j][after[i + 1]] \in S
    BY <2>1, <2>2, Zenon DEF OthersKeep
  <2> QED BY <2>3, <2>4 DEF j
<1>5. k - 1 \in T
  <2> HIDE DEF T
  <2>1. Nat \subseteq T
    BY <1>3, <1>4, SetInduction
  <2>2. k - 1 \in Nat
    OBVIOUS
  <2> QED BY <2>1, <2>2
<1>6. (k - 1) + 1 = k
  OBVIOUS
<1> QED
  BY <1>2, <1>5, <1>6

\* A name starts with the marker of a string.
LEMMA NameFirst0 ==
    ASSUME NEW s \in GoString
    PROVE  EncodeString0(NewAMF0Encoder, s).out \in StartsWith({String0, LongString0})
<1> DEFINE e == NewAMF0Encoder
           M == {String0, LongString0}
           f == EncodeString0(e, s)
<1>0. e \in Encoder0 /\ e.out = <<>> /\ s \in Seq(Byte)
  BY DEF NewAMF0Encoder, Encoder0, GoString, List
<1>1. ASSUME NEW n \in M
      PROVE  <<n>> \in StartsWith(M) /\ <<n>> \in Seq(Byte) /\ e.out \o <<n>> = <<n>>
  <2>1. n \in Byte
    BY <1>1, Markers0
  <2>2. <<n>> \in Seq(Byte) /\ <<n>> # <<>> /\ <<n>>[1] = n
    BY <2>1
  <2>3. <<>> \o <<n>> = <<n>>
    BY <2>2, JoinNothing
  <2>4. <<n>> \in StartsWith(M)
    BY <2>2 DEF StartsWith
  <2> QED BY <1>0, <2>2, <2>3, <2>4
<1> HIDE DEF e
<1>2. CASE Len(s) > MaxShort
  <2> DEFINE a == <<LongString0>>
             b == UInt32(Len(s))
  <2>1. a \in StartsWith(M) /\ a \in Seq(Byte) /\ e.out \o a = a
    BY <1>1
  <2>2. b \in Seq(Byte)
    BY <1>0, UInt32Type
  <2>3. f = Write(e, (a \o b) \o s)
    BY <1>2, Zenon DEF EncodeString0, EncodeLongString
  <2> HIDE DEF a, b
  <2>4. a \o b \in StartsWith(M)
    BY <2>1, <2>2, StillStarts
  <2>5. (a \o b) \o s \in StartsWith(M)
    BY <1>0, <2>4, StillStarts
  <2> DEFINE w == (a \o b) \o s
  <2>6. w \in StartsWith(M) /\ w \in Seq(Byte) /\ f = Write(e, w)
    BY <2>3, <2>5 DEF StartsWith
  <2> HIDE DEF w, f
  <2>7. f.out = e.out \o w
    BY <1>0, <2>6, WriteHas0
  <2>8. <<>> \o w = w
    BY <2>6, JoinNothing
  <2> QED BY <1>0, <2>6, <2>7, <2>8, Zenon DEF f, e
<1>3. CASE ~(Len(s) > MaxShort)
  <2> DEFINE a == <<String0>>
             b == UInt16(Len(s)) \o s
             g == Write(e, a)
  <2>1. a \in StartsWith(M) /\ a \in Seq(Byte) /\ e.out \o a = a
    BY <1>1
  <2>2. b \in Seq(Byte)
    <3>1. Len(s) <= MaxShort
      BY <1>0, <1>3, MaxShortIs
    <3>2. UInt16(Len(s)) \in Seq(Byte)
      BY <1>0, <3>1, ShortLength
    <3> QED BY <1>0, <3>2, JoinedRest
  <2>3. f = Write(g, b)
    BY <1>3, Zenon DEF EncodeString0, WriteShort
  <2> HIDE DEF a, b
  <2>4. g \in Encoder0 /\ g.out = a
    BY <1>0, <2>1, WriteHas0
  <2> HIDE DEF f, g
  <2>5. f.out = a \o b
    BY <2>2, <2>3, <2>4, WriteHas0
  <2>6. a \o b \in StartsWith(M)
    BY <2>1, <2>2, StillStarts
  <2> QED BY <2>5, <2>6, Zenon DEF f, e
<1> QED
  BY <1>2, <1>3

\* Also in AMF3.
LEMMA NameFirst3 ==
    ASSUME NEW s \in Seq(Byte)
    PROVE  WriteStringWithReference(Write(NewAMF3Encoder, <<String3>>), s).out
             \in StartsWith({String3})
<1> DEFINE e == NewAMF3Encoder
           a == <<String3>>
           g == Write(e, a)
           f == WriteStringWithReference(g, s)
<1>0. e \in Good3 /\ e.out = <<>>
  BY New3
<1>1. a \in Seq(Byte) /\ a # <<>> /\ a[1] = String3
  BY DEF String3, Byte
<1>2. a \in StartsWith({String3}) /\ <<>> \o a = a
  BY <1>1, JoinNothing DEF StartsWith
<1> HIDE DEF e, a
<1>3. g \in Good3 /\ g.out = a
  <2>1. g \in Good3 /\ g.out = e.out \o a
    BY <1>0, <1>1, WriteHas3, Zenon
  <2> QED BY <1>0, <1>2, <2>1, Zenon
<1> HIDE DEF g
<1>4. StringHas3(g, f, s)
  BY <1>3, StringWritten3
<1> HIDE DEF f
<1>5. PICK b \in Seq(Byte) : f.out = g.out \o b
  BY <1>4 DEF StringHas3
<1>6. f.out \in StartsWith({String3})
  BY <1>2, <1>3, <1>5, StillStarts
<1> QED BY <1>6 DEF f, g, e, a

\* The markers of a string.
Strings(encoding) == IF encoding = 3 THEN {String3} ELSE {String0, LongString0}

\* What encodes the values of a command, one after the other.
EncodeSteps(values, enc) == [i \in DOMAIN values |-> enc[values[i]]]

\* A command in AMF0 starts with one of them.
LEMMA CommandFirst0 ==
    ASSUME NEW c \in CommandSet
    PROVE  BuildCommand(0, c).out \in StartsWith(Strings(0))
<1> DEFINE values == Values(c)
           V == Value[Nesting]
           enc == EncodeValue0[Nesting]
           vis == Visit[Nesting]
           bec == Becomes0[Nesting]
           e == NewAMF0Encoder
           steps == EncodeSteps(values, enc)
           x == <<"string", c.name>>
           k == Len(values)
           M == {String0, LongString0}
           S == {g \in Encoder0 : g.out \in StartsWith(M)}
<1>0. /\ c.name \in GoString /\ x \in Scalar /\ x \in V /\ Nesting \in Nat
      /\ x[1] = "string" /\ x[2] = c.name
  BY CommandHas, ScalarIn
<1>1. Codec0(V, enc, vis, bec)
  BY <1>0, ValueCarried0, Zenon
<1>2. e \in Encoder0
  BY DEF NewAMF0Encoder, Encoder0
<1>3. ValuesAre3(c, x, <<"float64", c.transactionID>>)
  BY ValuesHave
<1>4. values \in Seq(V) /\ k \in Nat /\ k # 0 /\ values[1] = x
  BY <1>3 DEF ValuesAre3
<1> HIDE DEF values, V
<1>5. DOMAIN values = 1 .. k /\ \A i \in 1 .. k : values[i] \in V
  BY <1>4
<1>6. Len(steps) = k /\ \A i \in 1 .. k : steps[i] = enc[values[i]]
  BY <1>4, <1>5 DEF EncodeSteps
<1>7. enc[x][e] = EncodeString0(e, c.name)
  <2> DEFINE inner == Inside(EncodeValue0, Nesting)
  <2>1. enc = EncodeStep0(Nesting, inner)
    BY <1>0, EncodeValue0Is, Zenon
  <2> HIDE DEF inner, x, e
  <2>2. enc[x] = [g \in Encoder0 |-> EncodeByType0(inner, g, x)]
    BY <1>0, <2>1, Zenon DEF EncodeStep0, V
  <2>3. enc[x][e] = EncodeByType0(inner, e, x)
    BY <1>2, <2>2, Zenon
  <2>4. EncodeByType0(inner, e, x) = EncodeString0(e, x[2])
    <3>1. WrittenByType0(inner, e, x)
      BY EncodedByType0
    <3>2. x[1] \in {"string", "AMF0String"}
      BY <1>0
    <3> QED BY <3>1, <3>2, Zenon DEF WrittenByType0
  <2> QED BY <1>0, <2>3, <2>4, Zenon
<1> HIDE DEF enc, vis, bec, x, steps, k
<1>8. \A v \in V : \A g \in Encoder0 :
        enc[v][g] \in Encoder0 /\ \E b \in Seq(Byte) : enc[v][g].out = g.out \o b
  BY <1>1, Zenon DEF Codec0, Carries0
<1>9. FirstGives(steps, e, S)
  <2>1. 1 \in 1 .. k
    BY <1>4
  <2>2. steps[1][e] = EncodeString0(e, c.name)
    BY <1>4, <1>6, <1>7, <2>1, Zenon
  <2>3. steps[1][e] \in Encoder0
    BY <1>2, <1>4, <1>6, <1>8, <2>1, <1>5, Zenon
  <2>4. EncodeString0(e, c.name).out \in StartsWith(M)
    BY <1>0, NameFirst0
  <2> HIDE DEF M, e
  <2> QED BY <2>2, <2>3, <2>4, Zenon DEF FirstGives
<1>10. OthersKeep(steps, k, S)
  <2> SUFFICES ASSUME NEW i \in 2 .. k, NEW g \in S PROVE steps[i][g] \in S
    BY Zenon DEF OthersKeep
  <2> HIDE DEF M, e
  <2>1. i \in 1 .. k /\ g \in Encoder0 /\ g.out \in StartsWith(M)
    BY <1>4
  <2>2. values[i] \in V /\ steps[i] = enc[values[i]]
    BY <1>5, <1>6, <2>1, Zenon
  <2>3. steps[i][g] \in Encoder0 /\ \E b \in Seq(Byte) : steps[i][g].out = g.out \o b
    BY <1>8, <2>1, <2>2, Zenon
  <2> DEFINE h == steps[i][g]
  <2>4. PICK b \in Seq(Byte) : h.out = g.out \o b
    BY <2>3
  <2>5. h \in Encoder0
    BY <2>3
  <2> HIDE DEF h
  <2>6. h.out \in StartsWith(M)
    BY <2>1, <2>4, StillStarts
  <2>7. h \in S
    BY <2>5, <2>6
  <2> QED BY <2>7 DEF h
<1>11. InTurn(steps, e) \in S
  <2> HIDE DEF S, e
  <2> QED BY <1>4, <1>6, <1>9, <1>10, HoldsInTurn
<1>12. BuildCommand(0, c) = InTurn(steps, e)
  <2>1. ~(0 = 3)
    OBVIOUS
  <2> QED BY <2>1, Zenon DEF BuildCommand, steps, EncodeSteps, values, enc, e
<1>13. Strings(0) = M
  BY DEF Strings
<1> QED
  BY <1>11, <1>12, <1>13, Zenon

\* A command in AMF3 does.
LEMMA CommandFirst3 ==
    ASSUME NEW c \in CommandSet
    PROVE  BuildCommand(3, c).out \in StartsWith(Strings(3))
<1> DEFINE values == Values(c)
           V == Value[Nesting]
           enc == EncodeValue3[Nesting]
           vis == Visit[Nesting]
           bec == Becomes3[Nesting]
           e == NewAMF3Encoder
           steps == EncodeSteps(values, enc)
           x == <<"string", c.name>>
           k == Len(values)
           M == {String3}
           S == {g \in Good3 : g.out \in StartsWith(M)}
<1>0. /\ c.name \in Seq(Byte) /\ x \in Scalar /\ x \in V /\ Nesting \in Nat
      /\ x[1] = "string" /\ x[2] = c.name
  BY CommandHas, ScalarIn DEF GoString, List
<1>1. Codec3(V, enc, vis, bec)
  BY <1>0, ValueCarried3, Zenon
<1>2. e \in Good3 /\ e \in Encoder3
  BY New3, GoodHas3
<1>3. ValuesAre3(c, x, <<"float64", c.transactionID>>)
  BY ValuesHave
<1>4. values \in Seq(V) /\ k \in Nat /\ k # 0 /\ values[1] = x
  BY <1>3 DEF ValuesAre3
<1> HIDE DEF values, V
<1>5. DOMAIN values = 1 .. k /\ \A i \in 1 .. k : values[i] \in V
  BY <1>4
<1>6. Len(steps) = k /\ \A i \in 1 .. k : steps[i] = enc[values[i]]
  BY <1>4, <1>5 DEF EncodeSteps
<1>7. enc[x][e] = WriteStringWithReference(Write(e, <<String3>>), c.name)
  <2> DEFINE inner == Inside(EncodeValue3, Nesting)
  <2>1. enc = EncodeStep3(Nesting, inner)
    BY <1>0, EncodeValue3Is, Zenon
  <2> HIDE DEF inner, x, e
  <2>2. enc[x] = [g \in Encoder3 |-> EncodeByType3(inner, g, x)]
    BY <1>0, <2>1, Zenon DEF EncodeStep3, V
  <2>3. enc[x][e] = EncodeByType3(inner, e, x)
    BY <1>2, <2>2, Zenon
  <2>4. EncodeByType3(inner, e, x) = WriteStringWithReference(Write(e, <<String3>>), x[2])
    <3>1. WrittenByType3(inner, e, x)
      BY EncodedByType3
    <3>2. x[1] \in {"string", "AMF3String"}
      BY <1>0
    <3> QED BY <3>1, <3>2, Zenon DEF WrittenByType3
  <2> QED BY <1>0, <2>3, <2>4, Zenon
<1> HIDE DEF enc, vis, bec, x, steps, k
<1>8. \A v \in V : \A g \in Good3 :
        enc[v][g] \in Good3 /\ \E b \in Seq(Byte) : enc[v][g].out = g.out \o b
  BY <1>1, Zenon DEF Codec3, Carries3
<1>9. FirstGives(steps, e, S)
  <2>1. 1 \in 1 .. k
    BY <1>4
  <2>2. steps[1][e] = WriteStringWithReference(Write(e, <<String3>>), c.name)
    BY <1>4, <1>6, <1>7, <2>1, Zenon
  <2>3. steps[1][e] \in Good3
    BY <1>2, <1>4, <1>6, <1>8, <2>1, <1>5, Zenon
  <2>4. WriteStringWithReference(Write(e, <<String3>>), c.name).out \in StartsWith(M)
    BY <1>0, NameFirst3
  <2> HIDE DEF M, e
  <2> QED BY <2>2, <2>3, <2>4, Zenon DEF FirstGives
<1>10. OthersKeep(steps, k, S)
  <2> SUFFICES ASSUME NEW i \in 2 .. k, NEW g \in S PROVE steps[i][g] \in S
    BY Zenon DEF OthersKeep
  <2> HIDE DEF M, e
  <2>1. i \in 1 .. k /\ g \in Good3 /\ g.out \in StartsWith(M)
    BY <1>4
  <2>2. values[i] \in V /\ steps[i] = enc[values[i]]
    BY <1>5, <1>6, <2>1, Zenon
  <2>3. steps[i][g] \in Good3 /\ \E b \in Seq(Byte) : steps[i][g].out = g.out \o b
    BY <1>8, <2>1, <2>2, Zenon
  <2> DEFINE h == steps[i][g]
  <2>4. PICK b \in Seq(Byte) : h.out = g.out \o b
    BY <2>3
  <2>5. h \in Good3
    BY <2>3
  <2> HIDE DEF h
  <2>6. h.out \in StartsWith(M)
    BY <2>1, <2>4, StillStarts
  <2>7. h \in S
    BY <2>5, <2>6
  <2> QED BY <2>7 DEF h
<1>11. InTurn(steps, e) \in S
  <2> HIDE DEF S, e
  <2> QED BY <1>4, <1>6, <1>9, <1>10, HoldsInTurn
<1>12. BuildCommand(3, c) = InTurn(steps, e)
  BY Zenon DEF BuildCommand, steps, EncodeSteps, values, enc, e
<1>13. Strings(3) = M
  BY DEF Strings
<1> QED
  BY <1>11, <1>12, <1>13, Zenon

\* What does not start with a string is not a command.
LEMMA NoNameRefused ==
    ASSUME NEW encoding, NEW data, NEW r, r = Decode(encoding, NewDecoder(encoding, data)),
           r.d.ok => r.val[1] # "string"
    PROVE  ParseCommand(encoding, data) = Refused
<1> DEFINE head == ReadHead(encoding, data)
           two == Decode(encoding, r.d)
           three == Decode(encoding, two.d)
           x == r.val
           y == two.val
           z == three.val
           values == <<x, y, z>>
<1>1. head = IF ~r.d.ok THEN r
             ELSE Bind(Decode(encoding, r.d), LAMBDA e, t :
                    Bind(Decode(encoding, e), LAMBDA f, o : Ok(f, <<x, t, o>>)))
  BY Zenon DEF ReadHead, Bind
<1>2. values[1] = x
  OBVIOUS
<1> HIDE DEF head, two, three
<1>3. head.d.ok => head.val[1] = x /\ r.d.ok
  <2>1. CASE ~r.d.ok
    BY <1>1, <2>1, Zenon
  <2>2. CASE r.d.ok /\ ~two.d.ok
    BY <1>1, <2>2, Zenon DEF Bind, two
  <2>3. CASE r.d.ok /\ two.d.ok /\ ~three.d.ok
    BY <1>1, <2>3, Zenon DEF Bind, two, three
  <2>4. CASE r.d.ok /\ two.d.ok /\ three.d.ok
    <3>1. head = Ok(three.d, values)
      BY <1>1, <2>4, Zenon DEF Bind, two, three
    <3>2. head.val = values
      BY <3>1, OkHas, Zenon
    <3> HIDE DEF values, x
    <3> QED BY <1>2, <2>4, <3>2, Zenon
  <2> QED
    BY <2>1, <2>2, <2>3, <2>4
<1>4. CommandOf(encoding, head) = Refused
  <2> HIDE DEF values
  <2>1. CASE ~head.d.ok
    BY <2>1, Zenon DEF CommandOf
  <2>2. CASE head.d.ok
    <3>1. head.val[1][1] # "string"
      BY <1>3, <2>2, Zenon
    <3> QED BY <2>2, <3>1, Zenon DEF CommandOf
  <2> QED BY <2>1, <2>2
<1> QED
  BY <1>4, Zenon DEF ParseCommand, head

\* No bytes are no command.
LEMMA NoBytesRefused ==
    ASSUME NEW encoding \in Encodings
    PROVE  ParseCommand(encoding, <<>>) = Refused
<1> DEFINE none == <<>>
           r == Decode(encoding, NewDecoder(encoding, none))
<1>1. none \in Seq(Byte) /\ none \o none = none /\ none \in StringTable /\ none \in ObjectTable
  BY New3
<1>2. ReadsAll(encoding, none, none, none, none)
  BY <1>1, NoRest0, NoRest3 DEF Encodings
<1>3. ReadsFrom(encoding, none, none = <<>>, none, none, none)
  <2> HIDE DEF none
  <2> QED BY <1>1, <1>2, Zenon DEF ReadsAll, none
<1>0. Len(none) = 0 /\ 0 .. 0 = {0}
  OBVIOUS
<1> HIDE DEF none
<1>4. PICK n \in 0 .. Len(none) :
        \E D : Chain(encoding, n, D, none) /\ D[0] = At(encoding, none, none, none)
  BY <1>3, Zenon DEF ReadsFrom
<1>5. n = 0
  BY <1>0
<1>6. ~Decode(encoding, At(encoding, none, none, none)).d.ok
  BY <1>4, <1>5, Zenon DEF Chain
<1>7. NewDecoder(encoding, none) = At(encoding, none, none, none)
  BY NewDecoderIs, Zenon DEF none
<1>8. ~r.d.ok
  BY <1>6, <1>7, Zenon
<1> HIDE DEF r
<1>9. r = Decode(encoding, NewDecoder(encoding, none))
  BY DEF r
<1>10. r.d.ok => r.val[1] # "string"
  BY <1>8
<1>11. ParseCommand(encoding, none) = Refused
  BY <1>9, <1>10, NoNameRefused
<1> QED
  BY <1>11 DEF none

\* The first byte, and the rest.
LEMMA FirstByte ==
    ASSUME NEW M, NEW x \in StartsWith(M)
    PROVE  \E rest \in Seq(Byte) : x = <<x[1]>> \o rest
<1>1. x \in Seq(Byte) /\ x # <<>>
  BY DEF StartsWith
<1>2. Tail(x) \in Seq(Byte) /\ x = <<Head(x)>> \o Tail(x) /\ Head(x) = x[1]
  <2>1. Tail(x) \in Seq(Byte) /\ Head(x) = x[1]
    BY <1>1
  <2>2. x = <<Head(x)>> \o Tail(x)
    BY <1>1
  <2> QED BY <2>1, <2>2
<1> QED
  BY <1>2, Zenon

\* AMF0 takes the marker of AMF3's strings for undefined.
LEMMA OtherString0 ==
    ASSUME NEW x \in StartsWith(Strings(3))
    PROVE  ParseCommand(0, x) = Refused
<1>1. PICK rest \in Seq(Byte) : x = <<x[1]>> \o rest
  BY FirstByte
<1>2. x[1] = Undefined0 /\ Undefined0 \in Byte /\ x \in Seq(Byte)
  BY DEF StartsWith, Strings, String3, Undefined0, Byte
<1> DEFINE m == Len(x) + 1
           r == Decode(0, NewDecoder(0, x))
           nil == <<"nil">>
           w == <<Undefined0>> \o rest
<1>3. x = w
  BY <1>1, <1>2, Zenon
<1>4. m \in Nat /\ m # 0
  BY <1>2
<1>5. r = Decoding0[m].value[At0(x)]
  <2>1. NewDecoder(0, x) = At0(x) /\ At0(x).in = x
    BY DEF NewDecoder, NewAMF0Decoder, At0
  <2>2. r = Decode0(At0(x))
    BY <2>1 DEF Decode
  <2> QED BY <2>1, <2>2, Zenon DEF Decode0
<1> HIDE DEF m, r, w, nil
<1>6. r = DecodeByMarker0(Decoding0[m - 1], At0(x))
  BY <1>2, <1>4, <1>5, Decoding0Steps, Zenon
<1> DEFINE inner == Decoding0[m - 1]
<1> HIDE DEF inner
<1>7. DecodeByMarker0(inner, At0(w)) = DecodeMarked0(inner, At0(rest), Undefined0)
  BY <1>2, MarkedGives, Zenon DEF w
<1>8. r = Ok(At0(rest), nil)
  BY <1>3, <1>6, <1>7, ByMarker0, Zenon DEF inner, nil
<1>9. r.val = nil
  BY <1>8, OkHas, Zenon
<1>10. nil[1] # "string"
  BY DEF nil
<1>11. r = Decode(0, NewDecoder(0, x)) /\ (r.d.ok => r.val[1] # "string")
  BY <1>9, <1>10 DEF r
<1> QED
  BY <1>11, NoNameRefused

\* AMF3 takes that of AMF0's short strings for false, and knows no such marker as
\* that of the long ones.
LEMMA OtherString3 ==
    ASSUME NEW x \in StartsWith(Strings(0))
    PROVE  ParseCommand(3, x) = Refused
<1>1. PICK rest \in Seq(Byte) : x = <<x[1]>> \o rest
  BY FirstByte
<1> DEFINE n == x[1]
           m == Len(x) + 1
           none == <<>>
           d == At3(x, none, none)
           e == At3(rest, none, none)
           u == DecodeAMF3Value(d)
           r == Decode(3, NewDecoder(3, x))
           v == <<"AMF3Boolean", FALSE>>
           w == <<n>> \o rest
<1>2. x[1] \in {False3, LongString0} /\ n \in Byte /\ x \in Seq(Byte)
  BY DEF StartsWith, Strings, String0, False3, LongString0, Byte
<1>3. m \in Nat /\ m # 0
  BY <1>2
<1>4. none \in StringTable /\ none \in ObjectTable
  BY New3
<1>5. d \in Decoder3 /\ d.in = x /\ NewDecoder(3, x) = d
  <2>1. NewDecoder(3, x) = d
    BY DEF NewDecoder, NewAMF3Decoder, At3
  <2> HIDE DEF none
  <2>2. d \in Decoder3 /\ d.in = x
    BY <1>2, <1>4, AtType3, AtHas
  <2> QED BY <2>1, <2>2
<1>6. r = Decode3(d)
  BY <1>5 DEF Decode
<1>7. u = Decoding3[m].value[d]
  BY <1>5, Zenon DEF DecodeAMF3Value
<1>12. v[1] = "AMF3Boolean" /\ v[2] = FALSE
  OBVIOUS
<1> DEFINE inner == Decoding3[m - 1]
<1> HIDE DEF d, e, m, u, r, w, v, inner, none
<1>8. u = DecodeByMarker3(inner, d)
  BY <1>3, <1>5, <1>7, Decoding3Steps, Zenon DEF inner
<1>9. DecodeByMarker3(inner, At3(w, none, none)) = DecodeMarked3(inner, e, n)
  <2> HIDE DEF n
  <2>1. n \in Byte
    BY <1>2
  <2>2. DecodeByMarker3(inner, At3(<<n>> \o rest, none, none))
          = DecodeMarked3(inner, At3(rest, none, none), n)
    BY <2>1, MarkedGives3, Zenon
  <2> QED BY <2>2, Zenon DEF w, e
<1>10. x = w
  BY <1>1, Zenon DEF w
<1>11. u = DecodeMarked3(inner, e, n)
  BY <1>8, <1>9, <1>10, Zenon DEF d
<1>13. r.d.ok => r.val[1] # "string"
  <2>1. CASE n = False3
    <3>1. u = Ok(e, v)
      BY <1>11, <2>1, ByMarker3, Zenon DEF v
    <3>2. e.ok
      BY DEF e, At3
    <3>3. r = Ok(e, ToGo3(v))
      BY <1>6, <3>1, <3>2, Decode3Gives, Zenon DEF u
    <3>4. ToGo3(v) = <<"bool", v[2]>>
      BY <1>12, Zenon DEF ToGo3
    <3>5. r.val = <<"bool", v[2]>>
      BY <3>3, <3>4, OkHas, Zenon
    <3> QED BY <3>5
  <2>2. CASE n = LongString0
    <3>1. n \notin {Undefined3, Null3, False3, True3, Integer3, Double3, String3, Date3, Array3, Object3}
      BY <2>2 DEF LongString0, Undefined3, Null3, False3, True3, Integer3, Double3, String3, Date3,
                  Array3, Object3
    <3>2. u = Failed(e)
      BY <1>11, <3>1, Zenon DEF DecodeMarked3
    <3>3. Failed(e).d.ok = FALSE
      BY DEF Failed, Ok, e, At3
    <3>4. ~u.d.ok
      BY <3>2, <3>3
    <3>5. ~r.d.ok
      BY <1>6, <3>4, Decode3Gives, Zenon DEF u
    <3> QED BY <3>5
  <2> QED
    BY <1>2, <2>1, <2>2
<1>14. r = Decode(3, NewDecoder(3, x))
  BY DEF r
<1> QED
  BY <1>13, <1>14, NoNameRefused

\* A command, or the first of its bytes, is refused in the other encoding.
LEMMA OtherRefused ==
    ASSUME NEW c \in CommandSet, NEW encoding \in Encodings, NEW other \in Encodings,
           other # encoding, NEW y \in Seq(Byte), NEW z \in Seq(Byte),
           y \o z = BuildCommand(encoding, c).out
    PROVE  ParseCommand(other, y) = Refused
<1>1. CASE y = <<>>
  BY <1>1, NoBytesRefused
<1>2. CASE y # <<>>
  <2>1. BuildCommand(encoding, c).out \in StartsWith(Strings(encoding))
    BY CommandFirst0, CommandFirst3 DEF Encodings
  <2>2. y \o z \in StartsWith(Strings(encoding))
    BY <2>1
  <2>3. y \in StartsWith(Strings(encoding))
    BY <1>2, <2>2, CutStarts
  <2>4. \/ encoding = 0 /\ other = 3
        \/ encoding = 3 /\ other = 0
    BY DEF Encodings
  <2> QED
    BY <2>3, <2>4, OtherString0, OtherString3
<1> QED
  BY <1>1, <1>2

-----------------------------------------------------------------------------
(* What holds of the variables, and is kept by every action.               *)

\* What was sent is a command, built by one of the codecs.
SentAs(s) ==
  s # None =>
    /\ s.command \in AnyCommand /\ s.encoding \in Encodings
    /\ s.ok = BuildCommand(s.encoding, s.command).ok

\* The first n bytes of what was built, all of them if whole.
PartOf(s, bytes, whole) ==
  LET out == BuildCommand(s.encoding, s.command).out
  IN  \E n \in 0 .. Len(out) : bytes = SubSeq(out, 1, n) /\ (whole <=> n = Len(out))

\* The message m is what was sent, or its beginning.
MessageOf(s, m, p) ==
  m # None =>
    /\ s # None /\ s.ok /\ p = None
    /\ m.whole \in BOOLEAN /\ PartOf(s, m.bytes, m.whole)

\* So is what p was parsed of.
ParsedOf(s, m, p) ==
  p # None =>
    /\ s # None /\ s.ok /\ m = None
    /\ p.encoding \in Encodings /\ p.whole \in BOOLEAN
    /\ \E bytes : PartOf(s, bytes, p.whole) /\ p.command = ParseCommand(p.encoding, bytes)

\* What the application is told of a command.
ResultAs(name, command) ==
  CASE name = "connect" -> ParseConnectCommand(command.commandObj)
    [] name = "publish" -> ParsePublishCommand(command.args)
    [] name = "play" -> ParsePlayCommand(command.args)

\* u is what the application was told of p.
UnderstoodOf(p, u) ==
  u # None =>
    /\ p # None /\ p.command # Refused
    /\ u.as \in {"connect", "publish", "play"} /\ u.result = ResultAs(u.as, p.command)

\* The ends f have the encoding that u asks for.
FollowersOf(f, b, q, u) ==
  /\ b \in Encodings /\ q \in Encodings /\ f \subseteq {"builder", "parser"}
  /\ f # {} => u # None /\ u.as = "connect"
  /\ "builder" \in f => b = EncodingFromConnect(u.result, 0)
  /\ "parser" \in f => q = EncodingFromConnect(u.result, 0)

\* The inductive invariant: each variable is what the code makes of those before it.
CommandsInv ==
  /\ SentAs(sent)
  /\ MessageOf(sent, message, parsed)
  /\ ParsedOf(sent, message, parsed)
  /\ UnderstoodOf(parsed, understood)
  /\ FollowersOf(followers, builderEncoding, parserEncoding, understood)

\* Nothing is left of a command when there is none.
LEMMA NothingLeft ==
    ASSUME CommandsInv
    PROVE  /\ sent = None => message = None /\ parsed = None
           /\ parsed = None => understood = None
           /\ understood = None => followers = {}
BY Zenon DEF CommandsInv, MessageOf, ParsedOf, UnderstoodOf, FollowersOf

\* A record of another shape is not None.
LEMMA Shapes ==
    ASSUME NEW x, NEW y, NEW z
    PROVE  /\ [command |-> x, encoding |-> y, ok |-> z] # None
           /\ [command |-> x, encoding |-> y, whole |-> z] # None
           /\ [bytes |-> x, whole |-> y] # None
           /\ [as |-> x, result |-> y] # None
BY DEF None

\* What is asked for does not depend on what was spoken.
LEMMA FollowsAlike ==
    ASSUME NEW result, NEW before
    PROVE  /\ EncodingFromConnect(result, before) = EncodingFromConnect(result, 0)
           /\ EncodingFromConnect(result, before) \in Encodings
BY DEF EncodingFromConnect, Encodings

\* The bytes of a command, once written.
LEMMA BuiltBytes ==
    ASSUME NEW s, s.command \in AnyCommand, s.encoding \in Encodings
    PROVE  BuildCommand(s.encoding, s.command).out \in Seq(Byte)
BY BuildOf DEF BuildGives

\* All of a sequence is one of its beginnings.
LEMMA WholePart ==
    ASSUME NEW S, NEW out \in Seq(S)
    PROVE  /\ SubSeq(out, 1, Len(out)) = out /\ Len(out) \in 0 .. Len(out)
           /\ \A n \in 0 .. Len(out) : \A m \in 0 .. n :
                m \in 0 .. Len(out) /\ SubSeq(SubSeq(out, 1, n), 1, m) = SubSeq(out, 1, m)
           /\ \A n \in 0 .. Len(out) : SubSeq(out, 1, n) \in Seq(S) /\ Len(SubSeq(out, 1, n)) = n
<1> DEFINE k == Len(out)
<1>1. k \in Nat /\ DOMAIN out = 1 .. k
  BY LenProperties
<1>2. ASSUME NEW n \in 0 .. k
      PROVE  /\ SubSeq(out, 1, n) \in Seq(S) /\ Len(SubSeq(out, 1, n)) = n
             /\ \A i \in 1 .. n : SubSeq(out, 1, n)[i] = out[i]
  BY <1>1, SubSeqProperties
<1>3. SubSeq(out, 1, k) = out
  <2>1. k \in 0 .. k
    BY <1>1
  <2>2. /\ SubSeq(out, 1, k) \in Seq(S) /\ Len(SubSeq(out, 1, k)) = k
        /\ \A i \in 1 .. k : SubSeq(out, 1, k)[i] = out[i]
    BY <1>2, <2>1
  <2> QED BY <2>2, SeqEqual
<1>4. ASSUME NEW n \in 0 .. k, NEW m \in 0 .. n
      PROVE  m \in 0 .. k /\ SubSeq(SubSeq(out, 1, n), 1, m) = SubSeq(out, 1, m)
  <2>1. m \in 0 .. k /\ n \in Nat /\ m \in Nat /\ \A i \in 1 .. m : i \in 1 .. n
    BY <1>1
  <2> DEFINE a == SubSeq(out, 1, n)
             b == SubSeq(a, 1, m)
             c == SubSeq(out, 1, m)
  <2>2. a \in Seq(S) /\ Len(a) = n /\ \A i \in 1 .. n : a[i] = out[i]
    BY <1>2
  <2>3. c \in Seq(S) /\ Len(c) = m /\ \A i \in 1 .. m : c[i] = out[i]
    BY <1>2, <2>1
  <2> HIDE DEF a
  <2>4. b \in Seq(S) /\ Len(b) = m /\ \A i \in 1 .. m : b[i] = a[i]
    BY <2>1, <2>2, SubSeqProperties
  <2> HIDE DEF b, c
  <2>5. b = c
    BY <2>1, <2>2, <2>3, <2>4, SeqEqual
  <2> QED BY <2>1, <2>5 DEF a, b, c
<1> QED
  BY <1>1, <1>2, <1>3, <1>4

\* At the start there is nothing.
LEMMA CommandsInvInit == Init => CommandsInv
BY DEF Init, CommandsInv, SentAs, MessageOf, ParsedOf, UnderstoodOf, FollowersOf, Encodings

\* A command is built.
LEMMA BuildKeeps ==
    ASSUME CommandsInv, NEW c \in AnyCommand, Build(c)
    PROVE  CommandsInv'
<1> DEFINE e == BuildCommand(builderEncoding, c)
           s == [command |-> c, encoding |-> builderEncoding, ok |-> e.ok]
<1>1. /\ sent = None /\ sent' = s
      /\ message' = IF e.ok THEN [bytes |-> e.out, whole |-> TRUE] ELSE None
      /\ UNCHANGED <<builderEncoding, parserEncoding, parsed, understood, followers>>
  BY Zenon DEF Build, Built
<1>2. message = None /\ parsed = None /\ understood = None /\ followers = {}
  BY <1>1, NothingLeft
<1>3. s.command = c /\ s.encoding = builderEncoding /\ s.ok = e.ok /\ s # None
  BY Shapes
<1>4. builderEncoding \in Encodings
  BY DEF CommandsInv, FollowersOf
<1> HIDE DEF s
<1>5. SentAs(s)
  BY <1>3, <1>4, Zenon DEF SentAs, e
<1>6. MessageOf(s, message', None)
  <2>1. CASE e.ok
    <3> DEFINE m == [bytes |-> e.out, whole |-> TRUE]
    <3>1. m.bytes = e.out /\ m.whole = TRUE
      OBVIOUS
    <3>2. e.out \in Seq(Byte)
      BY <1>3, <1>4, BuiltBytes
    <3> DEFINE out == e.out
    <3>3. out \in Seq(Byte) /\ m.bytes = out
      BY <3>1, <3>2
    <3>7. out = BuildCommand(s.encoding, s.command).out
      BY <1>3
    <3> HIDE DEF out
    <3>4. SubSeq(out, 1, Len(out)) = out /\ Len(out) \in 0 .. Len(out)
      BY <3>3, WholePart
    <3>5. message' = m
      BY <1>1, <2>1
    <3> HIDE DEF m
    <3>6. PartOf(s, m.bytes, m.whole)
      BY <3>1, <3>3, <3>4, <3>7, Zenon DEF PartOf
    <3>8. m.whole \in BOOLEAN
      BY <3>1
    <3>9. s.ok
      BY <1>3, <2>1
    <3> QED
      BY <1>3, <3>5, <3>6, <3>8, <3>9, Zenon DEF MessageOf
  <2>2. CASE ~e.ok
    BY <1>1, <2>2 DEF MessageOf
  <2> QED BY <2>1, <2>2
<1>7. /\ parsed' = None /\ understood' = None /\ followers' = {}
      /\ builderEncoding' \in Encodings /\ parserEncoding' \in Encodings
  BY <1>1, <1>2 DEF CommandsInv, FollowersOf
<1> QED
  BY <1>1, <1>5, <1>6, <1>7 DEF CommandsInv, ParsedOf, UnderstoodOf, FollowersOf

\* A message loses its tail.
LEMMA CutKeeps ==
    ASSUME CommandsInv, Cut
    PROVE  CommandsInv'
<1> DEFINE out == BuildCommand(sent.encoding, sent.command).out
<1>1. /\ message # None /\ message.whole
      /\ UNCHANGED <<builderEncoding, parserEncoding, sent, parsed, understood, followers>>
  BY Zenon DEF Cut
<1>2. PICK n \in 0 .. Len(message.bytes) - 1 :
        message' = [bytes |-> SubSeq(message.bytes, 1, n), whole |-> FALSE]
  BY DEF Cut
<1>3. sent # None /\ sent.ok /\ parsed = None /\ PartOf(sent, message.bytes, message.whole)
  BY <1>1, Zenon DEF CommandsInv, MessageOf
<1>4. out \in Seq(Byte)
  BY <1>3, BuiltBytes, Zenon DEF CommandsInv, SentAs
<1>5. message.bytes = out
  <2>1. message.bytes = SubSeq(out, 1, Len(out))
    BY <1>1, <1>3, Zenon DEF PartOf
  <2> HIDE DEF out
  <2> QED BY <1>4, <2>1, WholePart
<1> DEFINE m == [bytes |-> SubSeq(message.bytes, 1, n), whole |-> FALSE]
<1>6. m.bytes = SubSeq(message.bytes, 1, n) /\ m.whole = FALSE
  OBVIOUS
<1>7. n \in 0 .. Len(out) /\ n # Len(out)
  <2> HIDE DEF out
  <2>1. Len(out) \in Nat
    BY <1>4
  <2> QED BY <1>5, <2>1
<1> HIDE DEF m, out
<1>8. m.bytes = SubSeq(out, 1, n)
  BY <1>5, <1>6
<1>9. ~m.whole /\ m.whole \in BOOLEAN
  BY <1>6
<1>10. PartOf(sent, m.bytes, m.whole)
  BY <1>7, <1>8, <1>9, Zenon DEF PartOf, out
<1>11. MessageOf(sent, m, parsed)
  BY <1>3, <1>9, <1>10, Zenon DEF MessageOf
<1>12. message' = m
  BY <1>2 DEF m
<1> QED
  BY <1>1, <1>3, <1>11, <1>12, Zenon DEF CommandsInv, ParsedOf

\* The parser takes it.
LEMMA ParseKeeps ==
    ASSUME CommandsInv, Parse
    PROVE  CommandsInv'
<1> DEFINE p == [command |-> ParseCommand(parserEncoding, message.bytes),
                 encoding |-> parserEncoding, whole |-> message.whole]
<1>1. /\ message # None /\ parsed' = p /\ message' = None
      /\ UNCHANGED <<builderEncoding, parserEncoding, sent, understood, followers>>
  BY Zenon DEF Parse
<1>2. /\ sent # None /\ sent.ok /\ parsed = None /\ message.whole \in BOOLEAN
      /\ PartOf(sent, message.bytes, message.whole)
  BY <1>1, Zenon DEF CommandsInv, MessageOf
<1>3. understood = None /\ followers = {}
  BY <1>2, NothingLeft
<1>4. /\ p.command = ParseCommand(parserEncoding, message.bytes)
      /\ p.encoding = parserEncoding /\ p.whole = message.whole
  OBVIOUS
<1>5. parserEncoding \in Encodings
  BY Zenon DEF CommandsInv, FollowersOf
<1> HIDE DEF p
<1>6. ParsedOf(sent, None, p)
  BY <1>2, <1>4, <1>5, Zenon DEF ParsedOf
<1>7. MessageOf(sent, None, p) /\ UnderstoodOf(p, None)
  BY Zenon DEF MessageOf, UnderstoodOf
<1> QED
  BY <1>1, <1>3, <1>6, <1>7, Zenon DEF CommandsInv

\* The application is told of it.
LEMMA UnderstandKeeps ==
    ASSUME CommandsInv, NEW name \in {"connect", "publish", "play"}, NEW result,
           Understand(name, result), result = ResultAs(name, parsed.command)
    PROVE  CommandsInv'
<1> DEFINE u == [as |-> name, result |-> result]
<1>1. /\ parsed # None /\ understood = None /\ parsed.command # Refused /\ understood' = u
      /\ UNCHANGED <<builderEncoding, parserEncoding, sent, message, parsed, followers>>
  BY Zenon DEF Understand
<1>2. followers = {}
  BY <1>1, NothingLeft
<1>3. u.as = name /\ u.result = result
  OBVIOUS
<1> HIDE DEF u
<1>4. UnderstoodOf(parsed, u)
  BY <1>1, <1>3, Zenon DEF UnderstoodOf
<1>5. FollowersOf({}, builderEncoding, parserEncoding, u)
  BY DEF CommandsInv, FollowersOf
<1> QED
  BY <1>1, <1>2, <1>4, <1>5, Zenon DEF CommandsInv

\* An end chooses its encoding, or follows the connect command.
LEMMA EncodingKeeps ==
    ASSUME CommandsInv,
           SetBuilderEncoding \/ SetParserEncoding \/ BuilderFollows \/ ParserFollows
    PROVE  CommandsInv'
<1>1. UNCHANGED <<sent, message, parsed, understood>>
  BY DEF SetBuilderEncoding, SetParserEncoding, BuilderFollows, ParserFollows
<1>2. FollowersOf(followers, builderEncoding, parserEncoding, understood)
  BY Zenon DEF CommandsInv
<1>3. FollowersOf(followers', builderEncoding', parserEncoding', understood)
  <2>1. CASE SetBuilderEncoding
    BY <1>2, <2>1 DEF SetBuilderEncoding, FollowersOf
  <2>2. CASE SetParserEncoding
    BY <1>2, <2>2 DEF SetParserEncoding, FollowersOf
  <2>3. CASE BuilderFollows
    <3>1. builderEncoding' = EncodingFromConnect(understood.result, 0) /\ builderEncoding' \in Encodings
      BY <2>3, FollowsAlike DEF BuilderFollows
    <3> QED BY <1>2, <2>3, <3>1 DEF BuilderFollows, FollowersOf
  <2>4. CASE ParserFollows
    <3>1. parserEncoding' = EncodingFromConnect(understood.result, 0) /\ parserEncoding' \in Encodings
      BY <2>4, FollowsAlike DEF ParserFollows
    <3> QED BY <1>2, <2>4, <3>1 DEF ParserFollows, FollowersOf
  <2> QED BY <2>1, <2>2, <2>3, <2>4
<1> QED
  BY <1>1, <1>3, Zenon DEF CommandsInv

\* The application is done.
LEMMA ForgetKeeps ==
    ASSUME CommandsInv, Forget
    PROVE  CommandsInv'
<1>1. /\ sent' = None /\ message' = None /\ parsed' = None /\ understood' = None
      /\ followers' = {} /\ UNCHANGED <<builderEncoding, parserEncoding>>
  BY DEF Forget
<1> QED
  BY <1>1 DEF CommandsInv, SentAs, MessageOf, ParsedOf, UnderstoodOf, FollowersOf

\* Every step keeps the invariant.
LEMMA CommandsInvNext ==
    ASSUME CommandsInv, [Next]_vars
    PROVE  CommandsInv'
<1>1. ASSUME NEW S, S \subseteq AnyCommand, BuildSome(S) PROVE CommandsInv'
  <2>1. PICK c \in S : Build(c)
    BY <1>1, Zenon DEF BuildSome
  <2> QED BY <1>1, <2>1, BuildKeeps
<1>2. CASE BuildAny \/ BuildConnectResult \/ BuildConnectError \/ BuildCreateStreamResult
           \/ BuildPublishResult \/ BuildPlayResult \/ BuildErrorStatus \/ BuildOnStatus
  <2>1. /\ Commands \subseteq AnyCommand
        /\ ConnectResults("_result") \subseteq AnyCommand
        /\ ConnectResults("_error") \subseteq AnyCommand
        /\ StreamResults \subseteq AnyCommand /\ PublishResults \subseteq AnyCommand
        /\ PlayResults \subseteq AnyCommand /\ ErrorStatuses \subseteq AnyCommand
        /\ Statuses \subseteq AnyCommand
    BY DEF AnyCommand
  <2> QED
    BY <1>1, <1>2, <2>1, Zenon
       DEF BuildAny, BuildConnectResult, BuildConnectError, BuildCreateStreamResult,
           BuildPublishResult, BuildPlayResult, BuildErrorStatus, BuildOnStatus
<1>3. CASE Cut
  BY <1>3, CutKeeps
<1>4. CASE Parse
  BY <1>4, ParseKeeps
<1>5. CASE UnderstandConnect \/ UnderstandPublish \/ UnderstandPlay
  <2> DEFINE c == parsed.command
  <2>1. /\ ResultAs("connect", c) = ParseConnectCommand(c.commandObj)
        /\ ResultAs("publish", c) = ParsePublishCommand(c.args)
        /\ ResultAs("play", c) = ParsePlayCommand(c.args)
    <3> HIDE DEF c
    <3> QED BY DEF ResultAs
  <2>2. \A name \in {"connect", "publish", "play"} :
          Understand(name, ResultAs(name, c)) => CommandsInv'
    BY UnderstandKeeps
  <2> QED
    BY <1>5, <2>1, <2>2 DEF UnderstandConnect, UnderstandPublish, UnderstandPlay
<1>6. CASE SetBuilderEncoding \/ SetParserEncoding \/ BuilderFollows \/ ParserFollows
  BY <1>6, EncodingKeeps
<1>7. CASE Forget
  BY <1>7, ForgetKeeps
<1>8. CASE UNCHANGED vars
  BY <1>8, Zenon DEF vars, CommandsInv
<1> QED
  BY <1>2, <1>3, <1>4, <1>5, <1>6, <1>7, <1>8, Zenon DEF Next

\* The inductive invariant of builder, message, parser and application: what each
\* has was made from what the one before it had, by BuildCommand, a cut,
\* ParseCommand, and the functions that look into a command.
THEOREM CommandsInvariant == Spec => []CommandsInv
<1>1. Init => CommandsInv
  BY CommandsInvInit
<1>2. CommandsInv /\ [Next]_vars => CommandsInv'
  BY CommandsInvNext
<1> QED
  BY <1>1, <1>2, PTL DEF Spec

\* Every variable has its type; above all every byte that BuildCommand writes,
\* from whatever numbers, lengths and references, is a byte.
THEOREM CommandsTyped == Spec => []CommandsTypeOK
<1>1. CommandsInv => CommandsTypeOK
  <2> SUFFICES ASSUME CommandsInv PROVE CommandsTypeOK
    OBVIOUS
  <2>1. /\ followers \subseteq {"builder", "parser"}
        /\ followers # {} => understood # None
        /\ builderEncoding \in Encodings /\ parserEncoding \in Encodings
    BY Zenon DEF CommandsInv, FollowersOf
  <2>2. understood # None => understood.as \in {"connect", "publish", "play"} /\ parsed # None
    BY Zenon DEF CommandsInv, UnderstoodOf
  <2>3. parsed # None => parsed.encoding \in Encodings /\ sent # None
    BY Zenon DEF CommandsInv, ParsedOf
  <2>4. ASSUME message # None
        PROVE  /\ sent # None /\ sent.ok /\ parsed = None /\ message.whole \in BOOLEAN
               /\ \A i \in DOMAIN message.bytes : message.bytes[i] \in Byte
    <3>1. /\ sent # None /\ sent.ok /\ parsed = None /\ message.whole \in BOOLEAN
          /\ PartOf(sent, message.bytes, message.whole)
      BY <2>4, Zenon DEF CommandsInv, MessageOf
    <3> DEFINE out == BuildCommand(sent.encoding, sent.command).out
    <3>2. out \in Seq(Byte)
      BY <3>1, BuiltBytes, Zenon DEF CommandsInv, SentAs
    <3> HIDE DEF out
    <3>3. PICK n \in 0 .. Len(out) : message.bytes = SubSeq(out, 1, n)
      BY <3>1, Zenon DEF PartOf, out
    <3>4. message.bytes \in Seq(Byte)
      BY <3>2, <3>3, WholePart
    <3>5. \A i \in DOMAIN message.bytes : message.bytes[i] \in Byte
      BY <3>4
    <3> QED BY <3>1, <3>5
  <2> QED
    BY <2>1, <2>2, <2>3, <2>4, Zenon DEF CommandsTypeOK
<1> QED
  BY <1>1, CommandsInvariant, PTL

\* The beginning of what was built, and what is missing.
PartSplit(s, bytes, whole) ==
  \E z \in Seq(Byte) : /\ bytes \in Seq(Byte) /\ bytes \o z = BuildCommand(s.encoding, s.command).out
                       /\ whole <=> z = <<>>

\* A message with or without its tail begins what was built.
LEMMA PartSplits ==
    ASSUME NEW s, s.command \in AnyCommand, s.encoding \in Encodings, NEW bytes, NEW whole,
           PartOf(s, bytes, whole)
    PROVE  PartSplit(s, bytes, whole)
<1> DEFINE out == BuildCommand(s.encoding, s.command).out
           k == Len(out)
<1>1. out \in Seq(Byte)
  BY BuiltBytes
<1>2. PICK n \in 0 .. k : bytes = SubSeq(out, 1, n) /\ (whole <=> n = k)
  BY Zenon DEF PartOf
<1> DEFINE a == SubSeq(out, 1, n)
           z == SubSeq(out, n + 1, k)
           w == a \o z
<1> HIDE DEF out
<1>3. k \in Nat /\ n \in 0 .. k /\ n + 1 \in 1 .. k + 1 /\ (k - (n + 1)) + 1 = k - n /\ k - n \in Nat
  BY <1>1
<1>4. a \in Seq(Byte) /\ Len(a) = n /\ \A i \in 1 .. n : a[i] = out[i]
  <2>1. 1 \in 1 .. Len(out) + 1 /\ n \in 1 - 1 .. Len(out) /\ (n - 1) + 1 = n
        /\ \A i \in 1 .. n : (1 + i) - 1 = i
    BY <1>1, <1>3
  <2> HIDE DEF k
  <2> QED BY <1>1, <2>1, SubSeqProperties
<1>5. z \in Seq(Byte) /\ Len(z) = k - n /\ \A i \in 1 .. k - n : z[i] = out[((n + 1) + i) - 1]
  <2> DEFINE m == n + 1
  <2>1. m \in 1 .. Len(out) + 1 /\ k \in m - 1 .. Len(out) /\ (k - m) + 1 = k - n
    BY <1>3
  <2> HIDE DEF m, k
  <2>2. SubSeq(out, m, k) \in Seq(Byte) /\ Len(SubSeq(out, m, k)) = (k - m) + 1
        /\ \A i \in 1 .. (k - m) + 1 : SubSeq(out, m, k)[i] = out[(m + i) - 1]
    BY <1>1, <2>1, SubSeqProperties
  <2> QED BY <2>1, <2>2 DEF m
<1>11. bytes = a
  BY <1>2
<1> HIDE DEF k, z, a
<1>6. w \in Seq(Byte) /\ Len(w) = n + Len(z) /\ \A i \in 1 .. n + Len(z) : w[i] = IF i <= n THEN a[i] ELSE z[i - n]
  BY <1>4, <1>5, ConcatProperties, ZenonT(60)
<1> HIDE DEF w
<1>7. Len(w) = k /\ n + Len(z) = k
  BY <1>3, <1>5, <1>6
<1>8. ASSUME NEW i \in 1 .. k PROVE w[i] = out[i]
  <2>1. CASE i <= n
    <3>1. i \in 1 .. n
      BY <2>1
    <3> QED BY <1>4, <1>6, <1>7, <2>1, <3>1
  <2>2. CASE ~(i <= n)
    <3>1. i - n \in 1 .. k - n /\ ((n + 1) + (i - n)) - 1 = i
      BY <1>3, <2>2
    <3> QED BY <1>5, <1>6, <1>7, <2>2, <3>1
  <2> QED BY <2>1, <2>2
<1>9. w = out
  <2>1. k = Len(out)
    BY DEF k
  <2> QED BY <1>1, <1>6, <1>7, <1>8, <2>1, SeqEqual
<1>10. whole <=> z = <<>>
  <2>1. z = <<>> <=> Len(z) = 0
    BY <1>5, EmptySeq
  <2>2. Len(z) = 0 <=> n = k
    BY <1>3, <1>5
  <2> QED BY <1>2, <2>1, <2>2
<1> QED
  BY <1>4, <1>5, <1>9, <1>10, <1>11, Zenon DEF PartSplit, w, out

\* What the codec can write of a command, value by value.
LEMMA BuildableIs ==
    ASSUME NEW s, s.command \in CommandSet, s.encoding \in Encodings
    PROVE  Buildable(s) <=> AllIn(VisitCommand(s.command), Fit(s.encoding))
<1> DEFINE visited == VisitCommand(s.command)
<1>1. visited \in Seq(AnyValue)
  BY VisitsAre
<1>2. \A i \in DOMAIN visited : visited[i] \in AnyValue
  BY <1>1
<1>3. Buildable(s) <=> \A i \in DOMAIN visited :
                         IF s.encoding = 3 THEN Encodable3(visited[i]) ELSE Encodable0(visited[i])
  BY Zenon DEF Buildable
<1> HIDE DEF visited
<1>4. CASE s.encoding = 3
  <2>1. Fit(s.encoding) = Fit3
    BY <1>4 DEF Fit
  <2>2. \A i \in DOMAIN visited : visited[i] \in Fit3 <=> Encodable3(visited[i])
    BY <1>2, Zenon DEF Fit3
  <2> QED BY <1>3, <1>4, <2>1, <2>2, Zenon DEF AllIn, visited
<1>5. CASE s.encoding # 3
  <2>1. Fit(s.encoding) = Fit0
    BY <1>5 DEF Fit
  <2>2. \A i \in DOMAIN visited : visited[i] \in Fit0 <=> Encodable0(visited[i])
    BY <1>2, Zenon DEF Fit0
  <2> QED BY <1>3, <1>5, <2>1, <2>2, Zenon DEF AllIn, visited
<1> QED
  BY <1>4, <1>5

\* Of a command that was sent, the codec wrote it if it could.
LEMMA SentBuilt ==
    ASSUME CommandsInv, sent # None
    PROVE  /\ sent.command \in AnyCommand /\ sent.encoding \in Encodings
           /\ sent.command \in CommandSet
           /\ sent.ok <=> Buildable(sent)
<1>1. /\ sent.command \in AnyCommand /\ sent.encoding \in Encodings
      /\ sent.ok = BuildCommand(sent.encoding, sent.command).ok
  BY Zenon DEF CommandsInv, SentAs
<1>2. sent.command \in CommandSet
  BY <1>1, AnyCommandIn
<1> DEFINE e == BuildCommand(sent.encoding, sent.command)
<1>3. BuildGives(sent, e)
  BY <1>1, BuildOf
<1> HIDE DEF e
<1>4. e.ok <=> AllIn(VisitCommand(sent.command), Fit(sent.encoding))
  BY <1>3, Zenon DEF BuildGives
<1>5. Buildable(sent) <=> AllIn(VisitCommand(sent.command), Fit(sent.encoding))
  BY <1>1, <1>2, BuildableIs
<1>6. sent.ok = e.ok
  BY <1>1 DEF e
<1> QED
  BY <1>1, <1>2, <1>4, <1>5, <1>6

\* Of what was read, all of a command or its beginning.
LEMMA ReadArrives ==
    ASSUME CommandsInv, SameEncoding, Plain(sent)
    PROVE  Arrives(sent, parsed.command, parsed.whole)
<1> DEFINE e == BuildCommand(sent.encoding, sent.command)
<1>1. /\ sent # None /\ sent.ok /\ parsed.encoding = sent.encoding
      /\ \E bytes : /\ PartOf(sent, bytes, parsed.whole)
                    /\ parsed.command = ParseCommand(parsed.encoding, bytes)
  BY Zenon DEF SameEncoding, Read, CommandsInv, ParsedOf
<1>2. PICK bytes : /\ PartOf(sent, bytes, parsed.whole)
                   /\ parsed.command = ParseCommand(parsed.encoding, bytes)
  BY <1>1
<1>3. sent.command \in AnyCommand /\ sent.encoding \in Encodings /\ sent.command \in CommandSet
  BY <1>1, SentBuilt
<1>4. PartSplit(sent, bytes, parsed.whole)
  BY <1>2, <1>3, PartSplits
<1>5. PICK z \in Seq(Byte) : /\ bytes \in Seq(Byte) /\ bytes \o z = e.out
                             /\ parsed.whole <=> z = <<>>
  BY <1>4, Zenon DEF PartSplit
<1>6. e.ok
  BY <1>1, Zenon DEF CommandsInv, SentAs
<1>7. BuildGives(sent, e)
  BY <1>3, BuildOf
<1> HIDE DEF e
<1>8. e.out \in Seq(Byte)
      /\ ReadsAll(sent.encoding, e.out, <<>>, <<>>, Meant(sent.encoding, sent.command))
  BY <1>6, <1>7, Zenon DEF BuildGives
<1> DEFINE b == e.out
           whole == z = <<>>
<1>9. bytes \o z = b /\ b \in Seq(Byte)
      /\ ReadsAll(sent.encoding, b, <<>>, <<>>, Meant(sent.encoding, sent.command))
  BY <1>5, <1>8
<1>10. Arrives(sent, ParseCommand(sent.encoding, bytes), whole)
  <2> HIDE DEF b
  <2> QED BY <1>3, <1>5, <1>9, WhatArrives
<1>11. parsed.whole <=> whole
  BY <1>5
<1> HIDE DEF whole
<1>12. Arrives(sent, parsed.command, whole)
  BY <1>1, <1>2, <1>10, Zenon
<1> QED
  BY <1>11, <1>12, Zenon DEF Arrives

\* A command that has been read has its parts.
LEMMA MeaningHas ==
    ASSUME NEW s, s.command \in CommandSet
    PROVE  /\ Meaning(s) = Command(Meaning(s).name, Meaning(s).transactionID,
                                   Meaning(s).commandObj, Meaning(s).args)
           /\ Len(Meaning(s).args) \in Nat
           /\ SubSeq(Meaning(s).args, 1, Len(Meaning(s).args)) = Meaning(s).args
           /\ Len(Meaning(s).args) = Len(s.command.args)
           /\ \E S : Meaning(s).args \in Seq(S)
           /\ \A i \in 1 .. Len(s.command.args) :
                Meaning(s).args[i] = Becomes(s.encoding, s.command.args[i])
<1> DEFINE bec(v) == Becomes(s.encoding, v)
           from == s.command.args
           args == [i \in DOMAIN from |-> bec(from[i])]
           k == Len(from)
<1>1. Meaning(s) = Command(Meaning(s).name, Meaning(s).transactionID,
                           Meaning(s).commandObj, Meaning(s).args)
      /\ Meaning(s).args = args
  BY DEF Meaning, Command
<1>2. from \in Seq(Value[Nesting])
  BY CommandHas
<1> HIDE DEF bec, from
<1>3. k \in Nat /\ DOMAIN from = 1 .. k
  BY <1>2
<1>4. args \in Seq({bec(from[i]) : i \in 1 .. k}) /\ Len(args) = k /\ \A i \in 1 .. k : args[i] = bec(from[i])
  <2> DEFINE S == {bec(from[i]) : i \in 1 .. k}
  <2>1. \A i \in 1 .. k : bec(from[i]) \in S
    OBVIOUS
  <2> HIDE DEF S, k
  <2>2. args = [i \in 1 .. k |-> bec(from[i])]
    BY <1>3
  <2>3. args \in Seq(S) /\ Len(args) = k /\ \A i \in 1 .. k : args[i] = bec(from[i])
    BY <1>3, <2>1, <2>2, IsASeq
  <2> QED BY <2>3 DEF S
<1> DEFINE S == {bec(from[i]) : i \in 1 .. k}
<1>6. args \in Seq(S)
  BY <1>4
<1> HIDE DEF args, k, S
<1>5. SubSeq(args, 1, Len(args)) = args
  <2>1. args \in Seq(S)
    BY <1>4 DEF S
  <2> QED BY <2>1, WholePart
<1> QED
  BY <1>1, <1>3, <1>4, <1>5, <1>6, Zenon DEF k, bec, from

-----------------------------------------------------------------------------
(* What arrives of a command.                                              *)

\* c is the command w, but for its arguments.
EndsSooner(w, c) == c = [w EXCEPT !.args = c.args]

\* A part of a command has the fields of the command.
LEMMA PartHas ==
    ASSUME NEW s, s.command \in CommandSet, NEW c, NEW m, InPart(s, c, m)
    PROVE  /\ c.name = Meaning(s).name /\ c.transactionID = Meaning(s).transactionID
           /\ c.commandObj = Meaning(s).commandObj /\ c.args = SubSeq(Meaning(s).args, 1, m)
           /\ EndsSooner(Meaning(s), c)
<1> DEFINE w == Meaning(s)
           a == w.name
           b == w.transactionID
           o == w.commandObj
           args == w.args
           x == SubSeq(w.args, 1, m)
<1>1. w = Command(a, b, o, args)
  BY MeaningHas
<1>2. c = Command(a, b, o, x)
  BY DEF InPart
<1> HIDE DEF a, b, o, args, x, w
<1>3. c.name = a /\ c.transactionID = b /\ c.commandObj = o /\ c.args = x
  BY <1>2 DEF Command
<1>4. Command(a, b, o, x) = [Command(a, b, o, args) EXCEPT !.args = x]
  BY DEF Command
<1>5. c = [w EXCEPT !.args = x]
  BY <1>1, <1>2, <1>4
<1>6. EndsSooner(w, c)
  BY <1>3, <1>5 DEF EndsSooner
<1> QED
  BY <1>3, <1>6 DEF w, a, b, o, x

\* What is read of a whole message is the command that was built.
LEMMA WholeRead ==
    ASSUME CommandsInv, SameEncoding, Plain(sent), parsed.whole
    PROVE  parsed.command = Meaning(sent)
<1>1. sent # None
  BY Zenon DEF SameEncoding, Read, CommandsInv, ParsedOf
<1>2. sent.command \in CommandSet
  BY <1>1, SentBuilt
<1>3. Arrives(sent, parsed.command, parsed.whole)
  BY ReadArrives
<1>4. InPart(sent, parsed.command, Len(Meaning(sent).args))
  BY <1>3, Zenon DEF Arrives
<1> QED
  BY <1>2, <1>4, MeaningHas, Zenon DEF InPart

\* BuildCommand fails for exactly the commands that have a value its codec has no
\* form for; and what ParseCommand makes of a whole message by the encoding it
\* was built with is the command that was built, if that is plain.
THEOREM WholeCommandArrives == Spec => []ArrivesWhole
<1>1. CommandsInv => ArrivesWhole
  <2> SUFFICES ASSUME CommandsInv PROVE ArrivesWhole
    OBVIOUS
  <2>1. sent # None => (sent.ok <=> Buildable(sent))
    BY SentBuilt
  <2>2. SameEncoding /\ parsed.whole /\ Plain(sent) => parsed.command = Meaning(sent)
    BY WholeRead
  <2> QED BY <2>1, <2>2, Zenon DEF ArrivesWhole
<1> QED
  BY <1>1, CommandsInvariant, PTL

\* Wherever a message of a plain command is cut, ParseCommand refuses it or gives
\* the command without its last arguments: a value that is not all there is not
\* read (io.ReadFull), and the loop over the arguments (commands.go) ends at it.
THEOREM CutCommandIsPrefix == Spec => []CutIsPrefix
<1>1. CommandsInv => CutIsPrefix
  <2> SUFFICES ASSUME CommandsInv, SameEncoding, Plain(sent), parsed.command # Refused
               PROVE  /\ parsed.command = [Meaning(sent) EXCEPT !.args = parsed.command.args]
                      /\ IsPrefix(parsed.command.args, Meaning(sent).args)
    BY Zenon DEF CutIsPrefix
  <2>1. sent # None
    BY Zenon DEF SameEncoding, Read, CommandsInv, ParsedOf
  <2>2. sent.command \in CommandSet
    BY <2>1, SentBuilt
  <2>3. Arrives(sent, parsed.command, parsed.whole)
    BY ReadArrives
  <2>4. PICK m \in 0 .. Len(Meaning(sent).args) : InPart(sent, parsed.command, m)
    BY <2>3, Zenon DEF Arrives
  <2>5. /\ parsed.command.args = SubSeq(Meaning(sent).args, 1, m)
        /\ EndsSooner(Meaning(sent), parsed.command)
    BY <2>2, <2>4, PartHas, Zenon
  <2> DEFINE args == Meaning(sent).args
             part == SubSeq(args, 1, m)
  <2>6. PICK S : args \in Seq(S)
    BY <2>2, MeaningHas
  <2>7. m \in 0 .. Len(args)
    OBVIOUS
  <2> HIDE DEF args
  <2>8. Len(part) = m /\ Len(args) \in Nat /\ SubSeq(part, 1, m) = part
    <3>1. /\ Len(SubSeq(args, 1, m)) = m /\ Len(args) \in Nat
          /\ \A n \in 0 .. m : SubSeq(SubSeq(args, 1, m), 1, n) = SubSeq(args, 1, n)
      BY <2>6, <2>7, WholePart
    <3>2. m \in 0 .. m
      BY <3>1, <2>7
    <3> QED BY <3>1, <3>2
  <2> HIDE DEF part
  <2>9. IsPrefix(part, args)
    <3>1. Len(part) <= Len(args)
      BY <2>7, <2>8
    <3>2. SubSeq(part, 1, Len(part)) = SubSeq(args, 1, Len(part))
      BY <2>8 DEF part
    <3> QED BY <3>1, <3>2 DEF IsPrefix
  <2> QED
    BY <2>5, <2>9, Zenon DEF part, args, EndsSooner
<1> QED
  BY <1>1, CommandsInvariant, PTL

\* What is read by the other encoding is refused.
LEMMA OtherRead ==
    ASSUME CommandsInv
    PROVE  OtherEncodingRefused
<1> SUFFICES ASSUME Read, ~SameEncoding
             PROVE  parsed.command = Refused
  BY Zenon DEF OtherEncodingRefused
<1>1. /\ sent # None /\ parsed.encoding \in Encodings /\ parsed.encoding # sent.encoding
      /\ \E bytes : /\ PartOf(sent, bytes, parsed.whole)
                    /\ parsed.command = ParseCommand(parsed.encoding, bytes)
  BY Zenon DEF SameEncoding, Read, CommandsInv, ParsedOf
<1>2. PICK bytes : /\ PartOf(sent, bytes, parsed.whole)
                   /\ parsed.command = ParseCommand(parsed.encoding, bytes)
  BY <1>1
<1>3. sent.command \in AnyCommand /\ sent.encoding \in Encodings /\ sent.command \in CommandSet
  BY <1>1, SentBuilt
<1>4. PartSplit(sent, bytes, parsed.whole)
  BY <1>2, <1>3, PartSplits
<1>5. PICK z \in Seq(Byte) : /\ bytes \in Seq(Byte)
                             /\ bytes \o z = BuildCommand(sent.encoding, sent.command).out
  BY <1>4, Zenon DEF PartSplit
<1>6. ParseCommand(parsed.encoding, bytes) = Refused
  BY <1>1, <1>3, <1>5, OtherRefused
<1> QED BY <1>2, <1>6

\* ParseCommand refuses every command of the other encoding, whole or cut: a
\* command begins with its name, and what marks a string in one encoding marks
\* none in the other.
THEOREM OtherEncodingIsRefused == Spec => []OtherEncodingRefused
<1>1. CommandsInv => OtherEncodingRefused
  BY OtherRead
<1> QED
  BY <1>1, CommandsInvariant, PTL

-----------------------------------------------------------------------------
(* What the application understands of its arguments.                      *)

\* What a value becomes, from what the values in it become.
LEMMA BecomesSteps ==
    ASSUME NEW v \in Value[Nesting]
    PROVE  /\ Becomes(0, v) = ByType0(Inside(Becomes0, Nesting), v)
           /\ Becomes(3, v) = ToGo3(ByType3(Inside(Becomes3, Nesting), v))
<1>1. Nesting \in Nat
  BY NestingAssumption
<1>2. Becomes0[Nesting][v] = ByType0(Inside(Becomes0, Nesting), v)
  <2>1. Becomes0[Nesting] = BecomeStep0(Nesting, Inside(Becomes0, Nesting))
    BY <1>1, Becomes0Is, Zenon
  <2> DEFINE bec == Inside(Becomes0, Nesting)
  <2> HIDE DEF bec
  <2> QED
    BY <1>1, <2>1, Zenon DEF BecomeStep0, bec
<1>3. Becomes3[Nesting][v] = ByType3(Inside(Becomes3, Nesting), v)
  <2>1. Becomes3[Nesting] = BecomeStep3(Nesting, Inside(Becomes3, Nesting))
    BY <1>1, Becomes3Is, Zenon
  <2> DEFINE bec == Inside(Becomes3, Nesting)
  <2> HIDE DEF bec
  <2> QED
    BY <1>1, <2>1, Zenon DEF BecomeStep3, bec
<1>4. ~(0 = 3)
  OBVIOUS
<1> QED
  BY <1>2, <1>3, <1>4, Zenon DEF Becomes

\* The Go value of what AMF3Decoder gives, by its type.
LEMMA ToGoByType3 ==
    ASSUME NEW w
    PROVE  /\ w[1] \in {"AMF3Undefined", "AMF3Null"} => ToGo3(w) = <<"nil">>
           /\ w[1] = "AMF3Boolean" => ToGo3(w) = <<"bool", w[2]>>
           /\ w[1] = "AMF3Integer" => ToGo3(w) = <<"int", w[2]>>
           /\ w[1] = "AMF3Double" => ToGo3(w) = <<"float64", w[2]>>
           /\ w[1] = "AMF3String" => ToGo3(w) = <<"string", w[2]>>
           /\ w[1] = "AMF3Date" => ToGo3(w) = <<"time", w[2]>>
           /\ w[1] = "AMF3Array" => ToGo3(w) = ArrayToGo(w[2].dense, w[2].associative)
           /\ w[1] = "AMF3Object" => ToGo3(w) = <<"map", w[2]>>
<1>1. w[1] \in {"AMF3Undefined", "AMF3Null"} => ToGo3(w) = <<"nil">>
  BY Zenon DEF ToGo3
<1>2. w[1] = "AMF3Boolean" => ToGo3(w) = <<"bool", w[2]>>
  BY Zenon DEF ToGo3
<1>3. w[1] = "AMF3Integer" => ToGo3(w) = <<"int", w[2]>>
  BY Zenon DEF ToGo3
<1>4. w[1] = "AMF3Double" => ToGo3(w) = <<"float64", w[2]>>
  BY Zenon DEF ToGo3
<1>5. w[1] = "AMF3String" => ToGo3(w) = <<"string", w[2]>>
  BY Zenon DEF ToGo3
<1>6. w[1] = "AMF3Date" => ToGo3(w) = <<"time", w[2]>>
  BY Zenon DEF ToGo3
<1>7. w[1] = "AMF3Array" => ToGo3(w) = ArrayToGo(w[2].dense, w[2].associative)
  BY Zenon DEF ToGo3
<1>8. w[1] = "AMF3Object" => ToGo3(w) = <<"map", w[2]>>
  BY Zenon DEF ToGo3
<1> QED
  BY <1>1, <1>2, <1>3, <1>4, <1>5, <1>6, <1>7, <1>8, Zenon

\* What is said to arrive of a value, by its type.
LEMMA ArrivesByType ==
    ASSUME NEW v
    PROVE  /\ v[1] \in {"string", "AMF0String", "AMF0LongString", "AMF3String"} =>
                ArrivesAs(v) = <<"string", v[2]>>
           /\ v[1] \in {"bool", "AMF0Boolean", "AMF3Boolean"} => ArrivesAs(v) = <<"bool", v[2]>>
           /\ v[1] \in {"float64", "AMF0Number", "AMF3Double"} =>
                ArrivesAs(v) = <<"float64", v[2]>>
           /\ v[1] = "int" /\ (sent.encoding = 0 \/ v[2] \notin MinInt .. MaxInt) =>
                ArrivesAs(v) = <<"float64", Float64[v[2]]>>
           /\ v[1] = "int" /\ ~(sent.encoding = 0 \/ v[2] \notin MinInt .. MaxInt) =>
                ArrivesAs(v) = <<"other">>
           /\ v[1] \notin {"string", "AMF0String", "AMF0LongString", "AMF3String", "bool",
                           "AMF0Boolean", "AMF3Boolean", "float64", "AMF0Number", "AMF3Double",
                           "int"} =>
                ArrivesAs(v) = <<"other">>
<1>1. v[1] \in {"string", "AMF0String", "AMF0LongString", "AMF3String"} =>
        ArrivesAs(v) = <<"string", v[2]>>
  BY Zenon DEF ArrivesAs
<1>2. v[1] \in {"bool", "AMF0Boolean", "AMF3Boolean"} => ArrivesAs(v) = <<"bool", v[2]>>
  BY Zenon DEF ArrivesAs
<1>3. v[1] \in {"float64", "AMF0Number", "AMF3Double"} => ArrivesAs(v) = <<"float64", v[2]>>
  BY Zenon DEF ArrivesAs
<1>4. v[1] = "int" /\ (sent.encoding = 0 \/ v[2] \notin MinInt .. MaxInt) =>
        ArrivesAs(v) = <<"float64", Float64[v[2]]>>
  BY Zenon DEF ArrivesAs
<1>5. v[1] = "int" /\ ~(sent.encoding = 0 \/ v[2] \notin MinInt .. MaxInt) =>
        ArrivesAs(v) = <<"other">>
  BY Zenon DEF ArrivesAs
<1>6. v[1] \notin {"string", "AMF0String", "AMF0LongString", "AMF3String", "bool",
                   "AMF0Boolean", "AMF3Boolean", "float64", "AMF0Number", "AMF3Double",
                   "int"} =>
        ArrivesAs(v) = <<"other">>
  BY Zenon DEF ArrivesAs
<1> QED
  BY <1>1, <1>2, <1>3, <1>4, <1>5, <1>6, Zenon

\* x is a Go string, bool or float64 exactly if y is, and then it is that one.
Agrees(x, y) ==
  \A t \in {"string", "bool", "float64"} : (x[1] = t <=> y[1] = t) /\ (x[1] = t => x = y)

\* They are the same, or both are something else.
LEMMA AgreeAs ==
    ASSUME NEW x, NEW y
    PROVE  /\ x = y => Agrees(x, y)
           /\ x[1] \notin {"string", "bool", "float64"} /\ y = <<"other">> => Agrees(x, y)
<1>1. ASSUME y = <<"other">> PROVE y[1] = "other"
  BY <1>1
<1>2. y[1] = "other" => y[1] \notin {"string", "bool", "float64"}
  OBVIOUS
<1> QED
  BY <1>1, <1>2, Zenon DEF Agrees

\* The type of a value is the first of its one or two parts.
LEMMA ValueParts ==
    ASSUME NEW n \in Nat, NEW v \in Value[n], v[1] \in {"string", "bool", "float64"}
    PROVE  v = <<v[1], v[2]>>
<1>1. v \in Scalar \cup Container(Within(n))
  BY WithinIs
<1>2. v \notin Container(Within(n))
  BY DEF Container
<1>3. v \in Scalar
  BY <1>1, <1>2
<1> QED
  BY <1>3 DEF Scalar

\* An argument in AMF0 is the Go value that it is said to arrive as.
LEMMA ArgumentArrives0 ==
    ASSUME sent.encoding = 0, NEW v \in Value[Nesting], v \in Fit0
    PROVE  Agrees(Becomes(0, v), ArrivesAs(v))
<1> DEFINE bec == Inside(Becomes0, Nesting)
           x == ByType0(bec, v)
           y == ArrivesAs(v)
<1> SUFFICES Agrees(x, y)
  <2>1. Becomes(0, v) = x
    BY BecomesSteps
  <2> QED BY <2>1, Zenon
<1>2. v[1] \in Tags0
  BY DEF Fit0, Encodable0
<1> HIDE DEF bec, x, y
<1>3. CASE v[1] \in {"string", "bool", "float64"}
  <2>1. v = <<v[1], v[2]>>
    BY <1>3, ValueParts, NestingAssumption
  <2>2. x = v
    BY <1>3, BecomesByType0 DEF x
  <2>3. y = <<v[1], v[2]>>
    <3>1. CASE v[1] = "string"
      BY <3>1, ArrivesByType DEF y
    <3>2. CASE v[1] = "bool"
      BY <3>2, ArrivesByType DEF y
    <3>3. CASE v[1] = "float64"
      BY <3>3, ArrivesByType DEF y
    <3> QED BY <1>3, <3>1, <3>2, <3>3
  <2>4. x = y
    BY <2>1, <2>2, <2>3
  <2> QED BY <2>4, AgreeAs
<1>4. CASE v[1] = "int"
  <2>1. x = <<"float64", Float64[v[2]]>>
    BY <1>4, BecomesByType0 DEF x
  <2>2. y = <<"float64", Float64[v[2]]>>
    BY <1>4, ArrivesByType, Zenon DEF y
  <2>3. x = y
    BY <2>1, <2>2
  <2> QED BY <2>3, AgreeAs
<1>5. CASE v[1] \in {"AMF0Number", "AMF0Boolean", "AMF0String", "AMF0LongString"}
  <2>1. \E t \in {"string", "bool", "float64"} : x = <<t, v[2]>> /\ y = <<t, v[2]>>
    <3>1. CASE v[1] = "AMF0Number"
      <4>1. x = <<"float64", v[2]>>
        BY <3>1, BecomesByType0 DEF x
      <4>2. y = <<"float64", v[2]>>
        BY <3>1, ArrivesByType DEF y
      <4> QED BY <4>1, <4>2
    <3>2. CASE v[1] = "AMF0Boolean"
      <4>1. x = <<"bool", v[2]>>
        BY <3>2, BecomesByType0 DEF x
      <4>2. y = <<"bool", v[2]>>
        BY <3>2, ArrivesByType DEF y
      <4> QED BY <4>1, <4>2
    <3>3. CASE v[1] \in {"AMF0String", "AMF0LongString"}
      <4>1. x = <<"string", v[2]>>
        BY <3>3, BecomesByType0 DEF x
      <4>2. y = <<"string", v[2]>>
        BY <3>3, ArrivesByType DEF y
      <4> QED BY <4>1, <4>2
    <3> QED BY <1>5, <3>1, <3>2, <3>3
  <2>2. x = y
    BY <2>1
  <2> QED BY <2>2, AgreeAs
<1>6. CASE v[1] \in {"nil", "slice", "map", "AMF0Null", "AMF0Undefined", "AMF0Object",
                     "AMF0StrictArray", "AMF0EcmaArray", "AMF0TypedObject", "AMF0Date"}
  <2>1. y = <<"other">>
    BY <1>6, ArrivesByType DEF y
  <2>2. x[1] \in {"nil", "slice", "map", "time"}
    <3>1. CASE v[1] = "nil"
      BY <3>1, BecomesByType0 DEF x
    <3>2. CASE v[1] \in {"AMF0Null", "AMF0Undefined"}
      <4>1. x = <<"nil">>
        BY <3>2, BecomesByType0 DEF x
      <4> QED BY <4>1
    <3>3. CASE v[1] \in {"slice", "AMF0StrictArray"}
      <4>1. x = <<"slice", EachBecomes(bec, v[2])>>
        BY <3>3, BecomesByType0 DEF x
      <4> QED BY <4>1
    <3>4. CASE v[1] \in {"map", "AMF0Object"}
      <4>1. x = <<"map", PairsBecome(bec, v[2])>>
        BY <3>4, BecomesByType0 DEF x
      <4> QED BY <4>1
    <3>5. CASE v[1] = "AMF0EcmaArray"
      <4>1. x = <<"map", PairsBecome(bec, v[2].properties)>>
        BY <3>5, BecomesByType0 DEF x
      <4> QED BY <4>1
    <3>6. CASE v[1] = "AMF0TypedObject"
      <4>1. x = <<"map", WithClass(v[2].className, PairsBecome(bec, v[2].properties))>>
        BY <3>6, BecomesByType0 DEF x
      <4> QED BY <4>1
    <3>7. CASE v[1] = "AMF0Date"
      <4>1. x = <<"time", TimeFrom0(v[2].milliseconds)>>
        BY <3>7, BecomesByType0 DEF x
      <4> QED BY <4>1
    <3> QED
      BY <1>6, <3>1, <3>2, <3>3, <3>4, <3>5, <3>6, <3>7
  <2>3. x[1] \notin {"string", "bool", "float64"}
    BY <2>2
  <2> QED BY <2>1, <2>3, AgreeAs
<1> QED
  BY <1>2, <1>3, <1>4, <1>5, <1>6 DEF Tags0, GoTags

\* An argument in AMF3 is the Go value that it is said to arrive as, if it is no
\* typed date or array.
LEMMA ArgumentArrives3 ==
    ASSUME sent.encoding = 3, NEW v \in Value[Nesting], v \in Fit3,
           v[1] \notin {"AMF3Date", "AMF3Array"}
    PROVE  Agrees(Becomes(3, v), ArrivesAs(v))
<1> DEFINE bec == Inside(Becomes3, Nesting)
           w == ByType3(bec, v)
           x == ToGo3(w)
           y == ArrivesAs(v)
<1> SUFFICES Agrees(x, y)
  <2>1. Becomes(3, v) = x
    BY BecomesSteps
  <2> QED BY <2>1, Zenon
<1>2. v[1] \in Tags3
  BY DEF Fit3, Encodable3
<1> HIDE DEF bec, w, x, y
<1>a. v[1] = "AMF3Boolean" => w = v
  BY BecomesByType3, Zenon DEF w
<1>b. v[1] = "AMF3Double" => w = v
  BY BecomesByType3, Zenon DEF w
<1>c. v[1] = "AMF3String" => w = v
  BY BecomesByType3, Zenon DEF w
<1>3. CASE v[1] \in {"bool", "AMF3Boolean"}
  <2>1. w[1] = "AMF3Boolean" /\ w[2] = v[2]
    <3>1. CASE v[1] = "bool"
      <4>1. w = <<"AMF3Boolean", v[2]>>
        BY <3>1, BecomesByType3, Zenon DEF w
      <4> QED BY <4>1
    <3> QED BY <1>3, <1>a, <3>1
  <2>2. x = <<"bool", v[2]>>
    BY <2>1, ToGoByType3 DEF x
  <2>3. y = <<"bool", v[2]>>
    BY <1>3, ArrivesByType DEF y
  <2> QED BY <2>2, <2>3, AgreeAs
<1>4. CASE v[1] \in {"float64", "AMF3Double"}
  <2>1. w[1] = "AMF3Double" /\ w[2] = v[2]
    <3>1. CASE v[1] = "float64"
      <4>1. w = <<"AMF3Double", v[2]>>
        BY <3>1, BecomesByType3, Zenon DEF w
      <4> QED BY <4>1
    <3> QED BY <1>4, <1>b, <3>1
  <2>2. x = <<"float64", v[2]>>
    BY <2>1, ToGoByType3 DEF x
  <2>3. y = <<"float64", v[2]>>
    BY <1>4, ArrivesByType DEF y
  <2> QED BY <2>2, <2>3, AgreeAs
<1>5. CASE v[1] \in {"string", "AMF3String"}
  <2>1. w[1] = "AMF3String" /\ w[2] = v[2]
    <3>1. CASE v[1] = "string"
      <4>1. w = <<"AMF3String", v[2]>>
        BY <3>1, BecomesByType3, Zenon DEF w
      <4> QED BY <4>1
    <3> QED BY <1>5, <1>c, <3>1
  <2>2. x = <<"string", v[2]>>
    BY <2>1, ToGoByType3 DEF x
  <2>3. y = <<"string", v[2]>>
    BY <1>5, ArrivesByType DEF y
  <2> QED BY <2>2, <2>3, AgreeAs
<1>6. CASE v[1] = "int"
  <2>1. w = Int3(v[2])
    BY <1>6, BecomesByType3, Zenon DEF w
  <2>2. CASE v[2] \in MinInt .. MaxInt
    <3>1. w = <<"AMF3Integer", v[2]>>
      BY <2>1, <2>2, Zenon DEF Int3
    <3>2. w[1] = "AMF3Integer"
      BY <3>1
    <3>3. x = <<"int", w[2]>>
      BY <3>2, ToGoByType3, Zenon DEF x
    <3>4. x[1] \notin {"string", "bool", "float64"}
      BY <3>3
    <3>5. ~(3 = 0)
      OBVIOUS
    <3>6. y = <<"other">>
      BY <1>6, <2>2, <3>5, ArrivesByType, Zenon DEF y
    <3> QED BY <3>4, <3>6, AgreeAs
  <2>3. CASE v[2] \notin MinInt .. MaxInt
    <3>1. w = <<"AMF3Double", Float64[v[2]]>>
      BY <2>1, <2>3, Zenon DEF Int3
    <3>2. w[1] = "AMF3Double" /\ w[2] = Float64[v[2]]
      BY <3>1
    <3>3. x = <<"float64", Float64[v[2]]>>
      BY <3>2, ToGoByType3 DEF x
    <3>4. y = <<"float64", Float64[v[2]]>>
      BY <1>6, <2>3, ArrivesByType, Zenon DEF y
    <3> QED BY <3>3, <3>4, AgreeAs
  <2> QED BY <2>2, <2>3
<1>7. CASE v[1] \in {"nil", "slice", "map", "time", "AMF3Integer", "AMF3Null", "AMF3Undefined",
                     "AMF3Object"}
  <2>1. y = <<"other">>
    BY <1>7, ArrivesByType DEF y
  <2>2. x[1] \in {"nil", "int", "slice", "map", "time"}
    <3>1. CASE v[1] = "nil"
      <4>1. w = <<"AMF3Null">>
        BY <3>1, BecomesByType3, Zenon DEF w
      <4>2. w[1] = "AMF3Null"
        BY <4>1
      <4>3. x = <<"nil">>
        BY <4>2, ToGoByType3, Zenon DEF x
      <4> QED BY <4>3
    <3>2. CASE v[1] \in {"AMF3Null", "AMF3Undefined"}
      <4>1. w = v
        BY <3>2, BecomesByType3 DEF w
      <4>3. x = <<"nil">>
        BY <3>2, <4>1, ToGoByType3, Zenon DEF x
      <4> QED BY <4>3
    <3>3. CASE v[1] = "AMF3Integer"
      <4>1. w = v
        BY <3>3, BecomesByType3, Zenon DEF w
      <4>2. x = <<"int", w[2]>>
        BY <3>3, <4>1, ToGoByType3, Zenon DEF x
      <4> QED BY <4>2
    <3>4. CASE v[1] = "time"
      <4>1. w = DateRead(v[2])
        BY <3>4, BecomesByType3, Zenon DEF w
      <4>2. w[1] = "AMF3Date"
        BY <4>1 DEF DateRead
      <4>3. x = <<"time", w[2]>>
        BY <4>2, ToGoByType3, Zenon DEF x
      <4> QED BY <4>3
    <3>5. CASE v[1] \in {"map", "AMF3Object"}
      <4>1. w = <<"AMF3Object", PairsBecome(bec, v[2]), <<>>>>
        BY <3>5, BecomesByType3, Zenon DEF w
      <4>2. w[1] = "AMF3Object"
        BY <4>1
      <4>3. x = <<"map", w[2]>>
        BY <4>2, ToGoByType3, Zenon DEF x
      <4> QED BY <4>3
    <3>6. CASE v[1] = "slice"
      <4> DEFINE dense == EachBecomes(bec, v[2])
      <4> HIDE DEF dense
      <4>1. w = <<"AMF3Array", [dense |-> dense, associative |-> NoProperties]>>
        BY <3>6, BecomesByType3, Zenon DEF w, dense
      <4>2. w[1] = "AMF3Array" /\ w[2].dense = dense /\ w[2].associative = NoProperties
        BY <4>1
      <4>3. x = ArrayToGo(dense, NoProperties)
        BY <4>2, ToGoByType3 DEF x
      <4>4. x = <<"slice", dense>>
        BY <4>3, Zenon DEF ArrayToGo
      <4> QED BY <4>4
    <3> QED
      BY <1>7, <3>1, <3>2, <3>3, <3>4, <3>5, <3>6
  <2>3. x[1] \notin {"string", "bool", "float64"}
    BY <2>2
  <2> QED BY <2>1, <2>3, AgreeAs
<1> QED
  BY <1>2, <1>3, <1>4, <1>5, <1>6, <1>7 DEF Tags3, GoTags

\* What holds of everything in a command holds of its object and its arguments.
LEMMA InCommand ==
    ASSUME NEW c \in CommandSet, NEW T, T \in {Fit0, Fit3, Named, Plain3},
           AllIn(VisitCommand(c), T)
    PROVE  /\ AllIn(Visit[Nesting][c.commandObj], T) /\ c.commandObj \in T
           /\ \A i \in 1 .. Len(c.args) : c.args[i] \in T
<1> DEFINE values == Values(c)
           k == Len(c.args)
<1>1. AllIn(Visits(c), T)
  BY VisitsIn
<1>2. \A i \in DOMAIN values : AllIn(Visit[Nesting][values[i]], T)
  BY <1>1, VisitsSteps
<1>3. /\ values \in Seq(Value[Nesting]) /\ k \in Nat /\ Len(values) = k + 3
      /\ values[3] = c.commandObj /\ \A i \in 1 .. k : values[i + 3] = c.args[i]
  BY ValuesHave, Zenon DEF ValuesAre3
<1> HIDE DEF values, k
<1>4. DOMAIN values = 1 .. k + 3 /\ \A i \in 1 .. k + 3 : values[i] \in Value[Nesting]
  BY <1>3
<1>5. \A i \in DOMAIN values : values[i] \in T
  <2> SUFFICES ASSUME NEW i \in DOMAIN values PROVE values[i] \in T
    OBVIOUS
  <2> DEFINE v == values[i]
  <2>1. v \in Value[Nesting] /\ Nesting \in Nat
    BY <1>4, NestingAssumption
  <2>2. AllIn(Visit[Nesting][v], T)
    BY <1>2
  <2> HIDE DEF v
  <2>3. v \in T
    BY <2>1, <2>2, VisitHas
  <2> QED BY <2>3 DEF v
<1>6. 3 \in DOMAIN values /\ \A i \in 1 .. k : i + 3 \in DOMAIN values
  BY <1>3, <1>4
<1> QED
  BY <1>2, <1>3, <1>5, <1>6, Zenon DEF k

\* A plain command in AMF3 has no typed date and no typed array.
LEMMA PlainIn3 ==
    ASSUME NEW s, s.command \in CommandSet, s.encoding = 3, Plain(s)
    PROVE  AllIn(VisitCommand(s.command), Plain3)
<1> DEFINE visited == VisitCommand(s.command)
<1>1. visited \in Seq(AnyValue)
  BY VisitsAre
<1>2. NoEmptyKey(visited) /\ NoTypedContainers(visited) /\ NoWideInteger(visited)
  BY Zenon DEF Plain
<1>3. \A i \in DOMAIN visited : visited[i] \in AnyValue
  BY <1>1
<1> HIDE DEF visited
<1>4. ASSUME NEW i \in DOMAIN visited PROVE visited[i] \in Plain3
  <2> DEFINE v == visited[i]
  <2>1. v \in AnyValue
    BY <1>3
  <2>2. <<>> \notin Keys(v)
    BY <1>2 DEF NoEmptyKey
  <2>3. v[1] \notin {"AMF3Date", "AMF3Array"}
    BY <1>2 DEF NoTypedContainers
  <2>4. v[1] = "AMF3Integer" => v[2] \in MinInt .. MaxInt
    BY <1>2, Zenon DEF NoWideInteger
  <2> HIDE DEF v
  <2>5. v \in Plain3
    BY <2>1, <2>2, <2>3, <2>4, Zenon DEF Plain3
  <2> QED BY <2>5 DEF v
<1> QED
  BY <1>4, Zenon DEF AllIn, visited

\* A command is understood only if it was sent, could be written, and was read by
\* the encoding that wrote it.
LEMMA UnderstoodHas ==
    ASSUME CommandsInv, understood # None
    PROVE  /\ SameEncoding /\ sent.command \in CommandSet /\ sent.encoding \in Encodings
           /\ AllIn(VisitCommand(sent.command), Fit(sent.encoding))
           /\ parsed.command # Refused /\ understood.as \in {"connect", "publish", "play"}
           /\ understood.result = ResultAs(understood.as, parsed.command)
<1>1. /\ parsed # None /\ parsed.command # Refused
      /\ understood.as \in {"connect", "publish", "play"}
      /\ understood.result = ResultAs(understood.as, parsed.command)
  BY Zenon DEF CommandsInv, UnderstoodOf
<1>2. sent # None /\ sent.ok
  BY <1>1, Zenon DEF CommandsInv, ParsedOf
<1>3. sent.command \in CommandSet /\ sent.encoding \in Encodings /\ Buildable(sent)
  BY <1>2, SentBuilt
<1>4. SameEncoding
  BY <1>1, OtherRead, Zenon DEF OtherEncodingRefused, Read
<1>5. AllIn(VisitCommand(sent.command), Fit(sent.encoding))
  BY <1>3, BuildableIs
<1> QED
  BY <1>1, <1>3, <1>4, <1>5, Zenon

\* Every argument of a command that is understood is what it is said to arrive as.
LEMMA ArgumentsAgree ==
    ASSUME CommandsInv, understood # None, Plain(sent),
           NEW i \in 1 .. Len(sent.command.args)
    PROVE  Agrees(Becomes(sent.encoding, sent.command.args[i]), ArrivesAs(sent.command.args[i]))
<1> DEFINE c == sent.command
           v == c.args[i]
<1>1. c \in CommandSet /\ sent.encoding \in Encodings /\ AllIn(VisitCommand(c), Fit(sent.encoding))
  BY UnderstoodHas
<1>2. v \in Value[Nesting]
  <2> DEFINE args == c.args
  <2>1. args \in Seq(Value[Nesting])
    BY <1>1, CommandHas
  <2>2. i \in 1 .. Len(args)
    OBVIOUS
  <2> HIDE DEF args
  <2>3. args[i] \in Value[Nesting]
    BY <2>1, <2>2
  <2> QED BY <2>3, Zenon DEF args
<1>3. CASE sent.encoding = 0
  <2>1. Fit(sent.encoding) = Fit0
    BY <1>3 DEF Fit
  <2>2. v \in Fit0
    BY <1>1, <2>1, InCommand
  <2> HIDE DEF v
  <2>3. Agrees(Becomes(0, v), ArrivesAs(v))
    BY <1>2, <1>3, <2>2, ArgumentArrives0
  <2> QED BY <1>3, <2>3, Zenon DEF v
<1>4. CASE sent.encoding = 3
  <2>1. Fit(sent.encoding) = Fit3
    BY <1>4 DEF Fit
  <2>2. v \in Fit3
    BY <1>1, <2>1, InCommand
  <2>3. AllIn(VisitCommand(c), Plain3)
    BY <1>1, <1>4, PlainIn3
  <2>4. v \in Plain3
    BY <1>1, <2>3, InCommand
  <2> HIDE DEF v
  <2>5. v[1] \notin {"AMF3Date", "AMF3Array"}
    BY <2>4 DEF Plain3
  <2>6. Agrees(Becomes(3, v), ArrivesAs(v))
    BY <1>2, <1>4, <2>2, <2>5, ArgumentArrives3
  <2> QED BY <1>4, <2>6, Zenon DEF v
<1> QED
  BY <1>1, <1>3, <1>4 DEF Encodings

\* What arrives as a string has the bytes that were sent.
LEMMA ArrivesString ==
    ASSUME NEW v, ArrivesAs(v)[1] = "string"
    PROVE  ArrivesAs(v)[2] = v[2]
<1> DEFINE y == ArrivesAs(v)
<1>1. CASE v[1] \in {"string", "AMF0String", "AMF0LongString", "AMF3String"}
  <2>1. y = <<"string", v[2]>>
    BY <1>1, ArrivesByType
  <2> QED BY <2>1
<1>2. CASE v[1] \notin {"string", "AMF0String", "AMF0LongString", "AMF3String"}
  <2> SUFFICES y[1] # "string"
    OBVIOUS
  <2> HIDE DEF y
  <2>1. CASE v[1] \in {"bool", "AMF0Boolean", "AMF3Boolean"}
    <3>1. y = <<"bool", v[2]>>
      BY <2>1, ArrivesByType DEF y
    <3> QED BY <3>1
  <2>2. CASE v[1] \in {"float64", "AMF0Number", "AMF3Double"}
    <3>1. y = <<"float64", v[2]>>
      BY <2>2, ArrivesByType DEF y
    <3> QED BY <3>1
  <2>3. CASE v[1] = "int"
    <3>1. y = <<"float64", Float64[v[2]]>> \/ y = <<"other">>
      BY <2>3, ArrivesByType, Zenon DEF y
    <3> QED BY <3>1
  <2>4. CASE v[1] \notin {"bool", "AMF0Boolean", "AMF3Boolean", "float64", "AMF0Number",
                          "AMF3Double", "int"}
    <3>1. y = <<"other">>
      BY <1>2, <2>4, ArrivesByType DEF y
    <3> QED BY <3>1
  <2> QED BY <2>1, <2>2, <2>3, <2>4
<1> QED
  BY <1>1, <1>2

\* The arguments A that were read, beside those that were sent.
Beside(A, args, n) ==
  /\ n \in Nat /\ Len(A) = n /\ DOMAIN args = 1 .. n
  /\ \A i \in 1 .. n : Agrees(A[i], ArrivesAs(args[i]))

\* What is a string among them.
LEMMA BesideString ==
    ASSUME NEW A, NEW args, NEW n, Beside(A, args, n), NEW i \in 1 .. n
    PROVE  /\ A[i][1] = "string" <=> ArrivesAs(args[i])[1] = "string"
           /\ A[i][1] = "string" => A[i][2] = args[i][2]
<1> DEFINE x == A[i]
           v == args[i]
           y == ArrivesAs(v)
<1>1. Agrees(x, y)
  BY Zenon DEF Beside
<1>2. y[1] = "string" => y[2] = v[2]
  BY ArrivesString
<1> HIDE DEF x, y, v
<1>3. (x[1] = "string" <=> y[1] = "string") /\ (x[1] = "string" => x = y)
  BY <1>1 DEF Agrees
<1>4. (x[1] = "string" <=> y[1] = "string") /\ (x[1] = "string" => x[2] = v[2])
  BY <1>2, <1>3
<1> QED
  BY <1>4, Zenon DEF x, y, v

\* A command without one of its strings.
StringMissing(args, n) ==
  \E i \in 1 .. n : i \notin DOMAIN args \/ ArrivesAs(args[i])[1] # "string"

\* What r ought to be for a publish command: refused without its two strings,
\* and otherwise these.
PublishAs(r, args) ==
  /\ r = Refused <=> StringMissing(args, 2)
  /\ r # Refused => r.streamName = args[1][2] /\ r.type = args[2][2]

\* ParsePublishCommand understands its arguments as they were sent.
LEMMA PublishIs ==
    ASSUME NEW A, NEW args, NEW n, Beside(A, args, n)
    PROVE  PublishAs(ParsePublishCommand(A), args)
<1> DEFINE r == ParsePublishCommand(A)
           first == ArrivesAs(args[1])
           second == ArrivesAs(args[2])
           given == [streamName |-> A[1][2], type |-> A[2][2]]
<1>1. n \in Nat /\ Len(A) = n /\ DOMAIN args = 1 .. n
  BY Zenon DEF Beside
<1>2. StringMissing(args, 2) <=> n < 2 \/ first[1] # "string" \/ second[1] # "string"
  <2>1. StringMissing(args, 2) <=>
          \/ 1 \notin 1 .. n \/ first[1] # "string"
          \/ 2 \notin 1 .. n \/ second[1] # "string"
    <3>1. \A i : i \in 1 .. 2 <=> i = 1 \/ i = 2
      OBVIOUS
    <3> QED BY <1>1, <3>1, Zenon DEF StringMissing
  <2>2. (1 \in 1 .. n <=> n >= 1) /\ (2 \in 1 .. n <=> n >= 2)
    BY <1>1
  <2> HIDE DEF first, second
  <2> QED BY <1>1, <2>1, <2>2
<1>3. given # Refused
  BY DEF Refused
<1>4. n < 2 => r = Refused
  BY <1>1, Zenon DEF ParsePublishCommand
<1>5. ASSUME n >= 2
      PROVE  /\ A[1][1] = "string" <=> first[1] = "string"
             /\ A[2][1] = "string" <=> second[1] = "string"
             /\ A[1][1] = "string" => A[1][2] = args[1][2]
             /\ A[2][1] = "string" => A[2][2] = args[2][2]
  <2>1. 1 \in 1 .. n /\ 2 \in 1 .. n
    BY <1>1, <1>5
  <2>2. /\ A[1][1] = "string" <=> ArrivesAs(args[1])[1] = "string"
        /\ A[1][1] = "string" => A[1][2] = args[1][2]
    BY <2>1, BesideString
  <2>3. /\ A[2][1] = "string" <=> ArrivesAs(args[2])[1] = "string"
        /\ A[2][1] = "string" => A[2][2] = args[2][2]
    BY <2>1, BesideString
  <2> QED BY <2>2, <2>3, Zenon
<1>6. ASSUME n >= 2
      PROVE  r = IF A[1][1] # "string" \/ A[2][1] # "string" THEN Refused ELSE given
  <2>1. ~(Len(A) < 2)
    BY <1>1, <1>6
  <2> QED BY <2>1, Zenon DEF ParsePublishCommand
<1>7. given.streamName = A[1][2] /\ given.type = A[2][2]
  OBVIOUS
<1>8. n < 2 \/ n >= 2
  BY <1>1
<1> HIDE DEF r, first, second, given
<1> SUFFICES PublishAs(r, args)
  BY DEF r
<1>9. CASE n < 2
  BY <1>2, <1>4, <1>9, Zenon DEF PublishAs
<1>10. CASE n >= 2
  <2>1. CASE A[1][1] # "string" \/ A[2][1] # "string"
    <3>1. r = Refused
      BY <1>6, <1>10, <2>1, Zenon
    <3> QED BY <1>2, <1>5, <1>10, <2>1, <3>1, Zenon DEF PublishAs
  <2>2. CASE A[1][1] = "string" /\ A[2][1] = "string"
    <3>1. r = given
      BY <1>6, <1>10, <2>2, Zenon
    <3>2. ~(n < 2)
      BY <1>1, <1>10
    <3>3. r # Refused
      BY <1>3, <3>1, Zenon
    <3>4. ~StringMissing(args, 2)
      BY <1>2, <1>5, <1>10, <2>2, <3>2, Zenon
    <3>5. r.streamName = args[1][2] /\ r.type = args[2][2]
      BY <1>5, <1>7, <1>10, <2>2, <3>1, Zenon
    <3> QED BY <3>3, <3>4, <3>5, Zenon DEF PublishAs
  <2> QED BY <2>1, <2>2, Zenon
<1> QED
  BY <1>8, <1>9, <1>10

\* What is asked for as argument i of args.
AskedOf(args, i, default) ==
  IF i \in DOMAIN args /\ ArrivesAs(args[i])[1] = default[1] THEN ArrivesAs(args[i])
  ELSE default

\* An optional argument is understood as it was asked for.
LEMMA OptionalIs ==
    ASSUME NEW A, NEW args, NEW n, Beside(A, args, n), NEW i \in Nat, i >= 1,
           NEW default, default[1] \in {"string", "bool", "float64"}
    PROVE  Optional(A, i, default) = AskedOf(args, i, default)
<1> DEFINE x == A[i]
           y == ArrivesAs(args[i])
<1>1. n \in Nat /\ Len(A) = n /\ DOMAIN args = 1 .. n
  BY Zenon DEF Beside
<1>2. i \in DOMAIN args <=> Len(A) >= i
  <2>1. i \in 1 .. n <=> n >= i
    BY <1>1
  <2> QED BY <1>1, <2>1, Zenon
<1>3. Optional(A, i, default) = IF Len(A) >= i /\ x[1] = default[1] THEN x ELSE default
  BY Zenon DEF Optional
<1>4. AskedOf(args, i, default)
        = IF i \in DOMAIN args /\ y[1] = default[1] THEN y ELSE default
  BY Zenon DEF AskedOf
<1>5. i \in DOMAIN args => Agrees(x, y)
  BY <1>1, Zenon DEF Beside
<1> HIDE DEF x, y
<1>6. i \in DOMAIN args => (x[1] = default[1] <=> y[1] = default[1])
                           /\ (x[1] = default[1] => x = y)
  BY <1>5, Zenon DEF Agrees
<1>7. CASE ~(i \in DOMAIN args)
  BY <1>2, <1>3, <1>4, <1>7, Zenon
<1>8. CASE i \in DOMAIN args
  <2>1. CASE x[1] = default[1]
    <3>1. Optional(A, i, default) = x
      BY <1>2, <1>3, <1>8, <2>1, Zenon
    <3>2. AskedOf(args, i, default) = y
      BY <1>4, <1>6, <1>8, <2>1, Zenon
    <3> QED BY <1>6, <1>8, <2>1, <3>1, <3>2, Zenon
  <2>2. CASE x[1] # default[1]
    <3>1. Optional(A, i, default) = default
      BY <1>3, <2>2, Zenon
    <3>2. AskedOf(args, i, default) = default
      BY <1>4, <1>6, <1>8, <2>2, Zenon
    <3> QED BY <3>1, <3>2, Zenon
  <2> QED BY <2>1, <2>2, Zenon
<1> QED
  BY <1>7, <1>8, Zenon

\* What r ought to be for a play command: refused without its string, and
\* otherwise as it was asked.
PlayAs(r, args) ==
  /\ r = Refused <=> StringMissing(args, 1)
  /\ r # Refused =>
       /\ r.streamName = args[1][2]
       /\ r.start = AskedOf(args, 2, <<"float64", Float64[-2]>>)
       /\ r.duration = AskedOf(args, 3, <<"float64", Float64[-1]>>)
       /\ r.reset = AskedOf(args, 4, <<"bool", TRUE>>)

\* ParsePlayCommand understands its arguments as they were sent.
LEMMA PlayIs ==
    ASSUME NEW A, NEW args, NEW n, Beside(A, args, n)
    PROVE  PlayAs(ParsePlayCommand(A), args)
<1> DEFINE r == ParsePlayCommand(A)
           first == ArrivesAs(args[1])
           start == Optional(A, 2, <<"float64", Float64[-2]>>)
           duration == Optional(A, 3, <<"float64", Float64[-1]>>)
           reset == Optional(A, 4, <<"bool", TRUE>>)
           given == [streamName |-> A[1][2], start |-> start, duration |-> duration,
                     reset |-> reset]
<1>1. n \in Nat /\ Len(A) = n /\ DOMAIN args = 1 .. n
  BY Zenon DEF Beside
<1>2. StringMissing(args, 1) <=> n < 1 \/ first[1] # "string"
  <2>1. StringMissing(args, 1) <=> 1 \notin 1 .. n \/ first[1] # "string"
    <3>1. \A i : i \in 1 .. 1 <=> i = 1
      OBVIOUS
    <3> QED BY <1>1, <3>1, Zenon DEF StringMissing
  <2>2. 1 \in 1 .. n <=> n >= 1
    BY <1>1
  <2> HIDE DEF first
  <2> QED BY <1>1, <2>1, <2>2
<1>3. n < 1 => r = Refused
  BY <1>1, Zenon DEF ParsePlayCommand
<1>4. ASSUME n >= 1
      PROVE  r = IF A[1][1] # "string" THEN Refused ELSE given
  <2>1. ~(Len(A) < 1)
    BY <1>1, <1>4
  <2> QED BY <2>1, Zenon DEF ParsePlayCommand
<1>5. ASSUME n >= 1
      PROVE  /\ A[1][1] = "string" <=> first[1] = "string"
             /\ A[1][1] = "string" => A[1][2] = args[1][2]
  <2>1. 1 \in 1 .. n
    BY <1>1, <1>5
  <2>2. /\ A[1][1] = "string" <=> ArrivesAs(args[1])[1] = "string"
        /\ A[1][1] = "string" => A[1][2] = args[1][2]
    BY <2>1, BesideString
  <2> QED BY <2>2, Zenon
<1>6. start = AskedOf(args, 2, <<"float64", Float64[-2]>>)
  <2> DEFINE default == <<"float64", Float64[-2]>>
  <2>1. default[1] = "float64"
    OBVIOUS
  <2> HIDE DEF default
  <2>2. Optional(A, 2, default) = AskedOf(args, 2, default)
    BY <2>1, OptionalIs
  <2> QED BY <2>2 DEF default
<1>7. duration = AskedOf(args, 3, <<"float64", Float64[-1]>>)
  <2> DEFINE default == <<"float64", Float64[-1]>>
  <2>1. default[1] = "float64"
    OBVIOUS
  <2> HIDE DEF default
  <2>2. Optional(A, 3, default) = AskedOf(args, 3, default)
    BY <2>1, OptionalIs
  <2> QED BY <2>2 DEF default
<1>8. reset = AskedOf(args, 4, <<"bool", TRUE>>)
  <2> DEFINE default == <<"bool", TRUE>>
  <2>1. default[1] = "bool"
    OBVIOUS
  <2> HIDE DEF default
  <2>2. Optional(A, 4, default) = AskedOf(args, 4, default)
    BY <2>1, OptionalIs
  <2> QED BY <2>2 DEF default
<1>9. n < 1 \/ n >= 1
  BY <1>1
<1> HIDE DEF start, duration, reset
<1>10. /\ given # Refused /\ given.streamName = A[1][2] /\ given.start = start
       /\ given.duration = duration /\ given.reset = reset
  BY DEF Refused
<1> HIDE DEF r, first, given
<1> SUFFICES PlayAs(r, args)
  BY DEF r
<1>11. CASE n < 1
  BY <1>2, <1>3, <1>11, Zenon DEF PlayAs
<1>12. CASE n >= 1
  <2>1. CASE A[1][1] # "string"
    <3>1. r = Refused
      BY <1>4, <1>12, <2>1, Zenon
    <3> QED BY <1>2, <1>5, <1>12, <2>1, <3>1, Zenon DEF PlayAs
  <2>2. CASE A[1][1] = "string"
    <3>1. r = given
      BY <1>4, <1>12, <2>2, Zenon
    <3>2. ~(n < 1)
      BY <1>1, <1>12
    <3>3. r # Refused
      BY <1>10, <3>1, Zenon
    <3>4. ~StringMissing(args, 1)
      BY <1>2, <1>5, <1>12, <2>2, <3>2, Zenon
    <3>5. /\ r.streamName = args[1][2] /\ r.start = start /\ r.duration = duration
          /\ r.reset = reset
      BY <1>5, <1>10, <1>12, <2>2, <3>1, Zenon
    <3> QED BY <1>6, <1>7, <1>8, <3>3, <3>4, <3>5, Zenon DEF PlayAs
  <2> QED BY <2>1, <2>2, Zenon
<1> QED
  BY <1>9, <1>11, <1>12

\* ParsePublishCommand and ParsePlayCommand give what the builder was given, in
\* whichever of its types and in either encoding a value came, if none came as an
\* AMF3 integer; they refuse a command without its strings, and put the default
\* where an argument is missing or is no number.
THEOREM ArgumentsAreUnderstood == Spec => []ArgumentsUnderstood
<1>1. CommandsInv => ArgumentsUnderstood
  <2> SUFFICES ASSUME CommandsInv, understood # None, understood.as # "connect",
                      parsed.whole, Plain(sent)
               PROVE  ArgumentsUnderstood
    BY Zenon DEF ArgumentsUnderstood
  <2> DEFINE args == sent.command.args
             n == Len(args)
             A == parsed.command.args
             r == understood.result
  <2>1. /\ SameEncoding /\ sent.command \in CommandSet
        /\ understood.as \in {"connect", "publish", "play"}
        /\ r = ResultAs(understood.as, parsed.command)
    BY UnderstoodHas
  <2>2. parsed.command = Meaning(sent)
    BY <2>1, WholeRead
  <2>3. Beside(A, args, n)
    <3>1. args \in Seq(Value[Nesting])
      BY <2>1, CommandHas
    <3>2. Len(A) = n /\ \A i \in 1 .. n : A[i] = Becomes(sent.encoding, args[i])
      BY <2>1, <2>2, MeaningHas
    <3>3. \A i \in 1 .. n : Agrees(Becomes(sent.encoding, args[i]), ArrivesAs(args[i]))
      BY ArgumentsAgree
    <3> HIDE DEF A, args
    <3>4. n \in Nat /\ DOMAIN args = 1 .. n
      BY <3>1
    <3>5. \A i \in 1 .. n : Agrees(A[i], ArrivesAs(args[i]))
      BY <3>2, <3>3, Zenon
    <3> QED BY <3>2, <3>4, <3>5, Zenon DEF Beside
  <2>4. CASE understood.as = "publish"
    <3>1. r = ParsePublishCommand(A)
      BY <2>1, <2>4, Zenon DEF ResultAs
    <3>2. PublishAs(r, args)
      BY <2>3, <3>1, PublishIs
    <3>3. "publish" # "play"
      OBVIOUS
    <3> QED
      BY <2>4, <3>2, <3>3, Zenon DEF ArgumentsUnderstood, PublishAs, StringMissing
  <2>5. CASE understood.as = "play"
    <3>1. "publish" # "play" /\ "connect" # "play"
      OBVIOUS
    <3>2. r = ParsePlayCommand(A)
      BY <2>1, <2>5, <3>1, Zenon DEF ResultAs
    <3>3. PlayAs(r, args)
      BY <2>3, <3>2, PlayIs
    <3> QED
      BY <2>5, <3>1, <3>3, Zenon DEF ArgumentsUnderstood, PlayAs, StringMissing, AskedOf, Asked
  <2> QED BY <2>1, <2>4, <2>5
<1> QED
  BY <1>1, CommandsInvariant, PTL

-----------------------------------------------------------------------------
(* What it understands of a connect command, and who follows it.           *)

\* The object of a command that has been read is the one that was sent.
LEMMA ObjectRead ==
    ASSUME CommandsInv, understood # None, Plain(sent)
    PROVE  parsed.command.commandObj = Becomes(sent.encoding, sent.command.commandObj)
<1>1. SameEncoding /\ sent.command \in CommandSet /\ parsed.command # Refused
  BY UnderstoodHas
<1>2. Arrives(sent, parsed.command, parsed.whole)
  BY <1>1, ReadArrives
<1>3. PICK m \in 0 .. Len(Meaning(sent).args) : InPart(sent, parsed.command, m)
  BY <1>1, <1>2, Zenon DEF Arrives
<1>4. parsed.command.commandObj = Meaning(sent).commandObj
  BY <1>1, <1>3, PartHas, Zenon
<1>5. Meaning(sent).commandObj = Becomes(sent.encoding, sent.command.commandObj)
  BY DEF Meaning, Command
<1> QED
  BY <1>4, <1>5, Zenon

\* A connect command in AMF0 is understood as it was sent.
LEMMA ConnectHolds ==
    ASSUME CommandsInv
    PROVE  ConnectUnderstood
<1> SUFFICES ASSUME understood # None, understood.as = "connect", understood.result # Refused,
                    sent.encoding = 0, Plain(sent)
             PROVE  ConnectUnderstood
  BY Zenon DEF ConnectUnderstood
<1> DEFINE co == sent.command.commandObj
           obj == parsed.command.commandObj
           known == {Text[f] : f \in ConnectFields}
           fields == [f \in ConnectFields |-> Field(obj[2], f)]
           additional == [k \in DOMAIN obj[2] \ known |-> obj[2][k]]
           r == understood.result
<1>1. r = ResultAs(understood.as, parsed.command)
  BY UnderstoodHas
<1>2. obj = Becomes(0, co)
  BY ObjectRead
<1>3. r = ParseConnectCommand(obj)
  BY <1>1, Zenon DEF ResultAs
<1> DEFINE given == [fields |-> fields, additional |-> additional]
<1>4. obj[1] = "map" /\ r = given
  BY <1>3, Zenon DEF ParseConnectCommand
<1>5. given.fields = fields /\ given.additional = additional
  <2> HIDE DEF fields, additional
  <2> QED OBVIOUS
<1>6. r.fields = fields /\ r.additional = additional
  BY <1>4, <1>5
<1>7. Meaning(sent).commandObj = obj
  BY <1>2 DEF Meaning, Command
<1>8. ASSUME NEW f \in ConnectFields
      PROVE  r.fields[f] = Said(f)
  <2>1. r.fields[f] = Field(obj[2], f)
    <3> HIDE DEF obj, r
    <3> QED BY <1>6
  <2>2. obj = Becomes0[Nesting][co]
    <3>1. ~(0 = 3)
      OBVIOUS
    <3> QED BY <1>2, <3>1, Zenon DEF Becomes
  <2>3. Said(f) = Field(obj[2], f)
    BY <2>2, Zenon DEF Said, Field
  <2> HIDE DEF r, obj
  <2> QED BY <2>1, <2>3, Zenon
<1> QED
  BY <1>6, <1>7, <1>8, Zenon DEF ConnectUnderstood

\* An end that follows it speaks what it asks for.
LEMMA FollowHolds ==
    ASSUME CommandsInv
    PROVE  FollowsConnect
<1> SUFFICES ASSUME followers # {}, sent.encoding = 0, Plain(sent)
             PROVE  Follow(Agreed(understood.result))
  BY Zenon DEF FollowsConnect
<1> DEFINE r == understood.result
           asked == <<"float64", Float64[3]>>
<1>1. /\ understood # None /\ understood.as = "connect"
      /\ "builder" \in followers => builderEncoding = EncodingFromConnect(r, 0)
      /\ "parser" \in followers => parserEncoding = EncodingFromConnect(r, 0)
  BY Zenon DEF CommandsInv, FollowersOf
<1>2. "objectEncoding" \in ConnectFields
  BY DEF ConnectFields, NumberFields
<1>3. r # Refused => r.fields["objectEncoding"] = Said("objectEncoding")
  <2>1. ConnectUnderstood
    BY ConnectHolds
  <2> QED BY <1>1, <1>2, <2>1, Zenon DEF ConnectUnderstood
<1> HIDE DEF r
<1>4. EncodingFromConnect(r, 0)
        = IF r # Refused /\ r.fields["objectEncoding"] = asked THEN 3 ELSE 0
  BY Zenon DEF EncodingFromConnect
<1>5. Agreed(r) = IF r # Refused /\ Said("objectEncoding") = asked THEN 3 ELSE 0
  BY Zenon DEF Agreed, AskedFor3
<1> HIDE DEF asked
<1>6. EncodingFromConnect(r, 0) = Agreed(r)
  BY <1>3, <1>4, <1>5, Zenon
<1> QED
  BY <1>1, <1>6, Zenon DEF Follow, r

\* ParseConnectCommand finds each field of a connect command in AMF0 as it was
\* sent and keeps the rest, and SetEncodingFromConnect makes both ends speak what
\* the command asks for, whatever they spoke before.
THEOREM ConnectIsObeyed == Spec => []ConnectObeyed
<1>1. CommandsInv => ConnectObeyed
  BY ConnectHolds, FollowHolds, Zenon DEF ConnectObeyed
<1> QED
  BY <1>1, CommandsInvariant, PTL

-----------------------------------------------------------------------------
(* What is never read, whatever the bytes, and so never arrives.           *)
(*                                                                         *)
(* Everything a decoder gives was read by it or by a call inside it, so    *)
(* that no key in it is empty and no integer has more than 29 bits.  What  *)
(* a sent value becomes is not among that if it has such a key or integer. *)

\* What is read with decoder d, if it is read at all, leaves a decoder and gives
\* a value of S.
Yields(D, r, S) == r.d.ok => r.d \in D /\ r.val \in S

\* What failed yields nothing.
LEMMA FailedYields ==
    ASSUME NEW D \in {Decoder0, Decoder3}, NEW d \in D, NEW S
    PROVE  Yields(D, Failed(d), S)
<1>1. Failed(d).d.ok = FALSE
  BY FailedSteady
<1> QED
  BY <1>1, Zenon DEF Yields

\* What is there yields itself.
LEMMA OkYields ==
    ASSUME NEW D, NEW d \in D, NEW S, NEW v \in S
    PROVE  Yields(D, Ok(d, v), S)
BY OkHas DEF Yields

\* One thing read after the other.
LEMMA ThenYields ==
    ASSUME NEW D, NEW r, NEW A, Yields(D, r, A), NEW R, NEW q, R = (IF r.d.ok THEN q ELSE r),
           NEW S, r.d.ok => (r.d \in D /\ r.val \in A => Yields(D, q, S))
    PROVE  Yields(D, R, S)
<1>1. CASE r.d.ok
  BY <1>1, Zenon DEF Yields
<1>2. CASE ~r.d.ok
  BY <1>2, Zenon DEF Yields
<1> QED
  BY <1>1, <1>2

\* n bytes are a sequence of bytes.
LEMMA TakeYields ==
    ASSUME NEW D \in {Decoder0, Decoder3}, NEW d \in D, NEW n
    PROVE  Yields(D, Take(d, n), Seq(Byte))
<1>1. <<>> \in Seq(Byte)
  OBVIOUS
<1> DEFINE y == <<>>
<1>2. y \in Seq(Byte)
  BY <1>1
<1> HIDE DEF y
<1>3. Steady(D, Take(d, n), Take(Longer(d, y), n), y) /\ (Take(d, n).d.ok => Take(d, n).val \in Seq(Byte))
  BY <1>2, TakeSteady
<1> QED
  BY <1>3, Zenon DEF Steady, Yields

\* So is a string.
LEMMA ReadUTF8Yields ==
    ASSUME NEW d \in Decoder0, NEW n
    PROVE  Yields(Decoder0, ReadUTF8(d, n), Seq(Byte))
<1> DEFINE r == ReadUInt(d, n)
           q == Take(r.d, r.val)
           Found == {r.val}
<1>1. Yields(Decoder0, r, Found)
  <2> DEFINE y == <<>>
  <2>1. y \in Seq(Byte)
    OBVIOUS
  <2> HIDE DEF y
  <2>2. Steady(Decoder0, r, ReadUInt(Longer(d, y), n), y)
    BY <2>1, ReadUIntSteady
  <2> HIDE DEF r
  <2> QED BY <2>2, Zenon DEF Steady, Yields
<1>2. ReadUTF8(d, n) = (IF r.d.ok THEN q ELSE r)
  BY Zenon DEF ReadUTF8, Bind
<1>3. r.d \in Decoder0 => Yields(Decoder0, q, Seq(Byte))
  <2> HIDE DEF r
  <2> QED BY TakeYields
<1> HIDE DEF r, q, Found
<1> QED
  BY <1>1, <1>2, <1>3, ThenYields

-----------------------------------------------------------------------------
(* What AMF0 reads, whatever the bytes: no key is empty.                   *)

\* All that decodeValue reads of any bytes, with the class of an object.
Decoded0 ==
  {Decoding0[p[1]].value[p[2]].val :
     p \in {q \in Nat \X Decoder0 : Decoding0[q[1]].value[q[2]].d.ok}}
    \cup {"string"} \X Seq(Byte)

\* Pairs of which no key is empty, and their map.
PairsFrom(S) == Seq((Seq(Byte) \ {<<>>}) \X S)
Clean(f, S) == \A k \in DOMAIN f : k # <<>> /\ f[k] \in S

\* What decodeValue makes of what is read inside.
Form0(x) ==
  /\ x[1] \in {"float64", "bool", "string", "nil", "time", "slice", "map"}
  /\ x[1] = "slice" => x[2] \in Seq(Decoded0)
  /\ x[1] = "map" => Clean(x[2], Decoded0)

InnerYields0(inner) ==
  \A d \in Decoder0 :
    /\ Yields(Decoder0, inner.value[d], Decoded0)
    /\ Yields(Decoder0, inner.pairs[d], PairsFrom(Decoded0))
    /\ \A k \in Nat : Yields(Decoder0, inner.elements[k][d], Seq(Decoded0))

\* One in front.
LEMMA OneInFront ==
    ASSUME NEW S, NEW x \in S, NEW s \in Seq(S)
    PROVE  <<x>> \o s \in Seq(S)
OBVIOUS

\* Nothing in it.
LEMMA NoneFrom == \A S : <<>> \in PairsFrom(S) /\ <<>> \in Seq(S)
BY DEF PairsFrom

\* The map of such pairs has no empty key.
LEMMA MapClean ==
    ASSUME NEW S, NEW s \in PairsFrom(S)
    PROVE  Clean(MapOf(s), S)
<1> SUFFICES ASSUME NEW k \in DOMAIN MapOf(s) PROVE k # <<>> /\ MapOf(s)[k] \in S
  BY DEF Clean
<1>1. /\ Len(s) \in Nat /\ DOMAIN s = 1 .. Len(s)
      /\ \A i \in 1 .. Len(s) : s[i] \in (Seq(Byte) \ {<<>>}) \X S
  BY DEF PairsFrom
<1>2. PICK i \in 1 .. Len(s) : s[i][1] = k
  BY <1>1 DEF MapOf
<1>3. PICK l \in 1 .. Len(s) : s[l][1] = k /\ MapOf(s)[k] = s[l][2]
  <2> DEFINE n == Len(s)
  <2>1. n \in Nat /\ DOMAIN s = 1 .. n /\ i \in 1 .. n
    BY <1>1
  <2> HIDE DEF n
  <2>2. \E l \in 1 .. n : s[l][1] = k /\ MapOf(s)[k] = s[l][2]
    BY <1>2, <2>1, ValueOfKey
  <2> QED BY <2>2 DEF n
<1>4. s[l] \in (Seq(Byte) \ {<<>>}) \X S
  BY <1>1
<1>5. s[l][1] # <<>> /\ s[l][2] \in S
  BY <1>4
<1> QED
  BY <1>3, <1>5, Zenon

\* Another key that is not empty, and its value.
LEMMA ClassClean ==
    ASSUME NEW S, NEW s \in PairsFrom(S), NEW c \in S
    PROVE  Clean(MapOf(<<<<ClassNameKey, c>>>> \o s), S)
<1> DEFINE p == <<ClassNameKey, c>>
           T == (Seq(Byte) \ {<<>>}) \X S
<1>1. ClassNameKey \in Seq(Byte) \ {<<>>}
  BY ClassNameAssumption DEF GoString, List
<1>2. p \in T
  BY <1>1
<1> HIDE DEF p, T
<1>3. <<p>> \o s \in Seq(T)
  BY <1>2, OneInFront DEF PairsFrom, T
<1> QED
  BY <1>3, MapClean DEF p, T, PairsFrom

\* Keys and values.
LEMMA DecodePairs0Yields ==
    ASSUME NEW d \in Decoder0, NEW inner, InnerYields0(inner)
    PROVE  Yields(Decoder0, DecodePairs0(inner, d), PairsFrom(Decoded0))
<1> DEFINE P == PairsFrom(Decoded0)
           r == ReadUTF8(d, 2)
           a == inner.value[r.d]
           b == inner.pairs[a.d]
           v == Ok(b.d, <<<<r.val, a.val>>>> \o b.val)
           ab == IF b.d.ok THEN v ELSE b
           qa == IF a.d.ok THEN ab ELSE a
           q == IF r.val = <<>> THEN ReadObjectEnd(r.d) ELSE qa
<1>1. Yields(Decoder0, r, Seq(Byte))
  BY ReadUTF8Yields
<1>2. DecodePairs0(inner, d) = (IF r.d.ok THEN q ELSE r)
  BY ZenonT(60) DEF DecodePairs0, Bind
<1>3. ASSUME r.d \in Decoder0, r.val \in Seq(Byte) PROVE Yields(Decoder0, q, P)
  <2> HIDE DEF r
  <2>1. CASE r.val = <<>>
    <3> DEFINE t == Take(r.d, 1)
               end == <<ObjectEnd0>>
               e == IF t.val = end THEN Ok(t.d, <<>>) ELSE Failed(t.d)
    <3>1. ReadObjectEnd(r.d) = (IF t.d.ok THEN e ELSE t)
      BY Zenon DEF ReadObjectEnd, Bind
    <3>2. Yields(Decoder0, t, Seq(Byte))
      BY <1>3, TakeYields
    <3>3. t.d \in Decoder0 => Yields(Decoder0, e, P)
      <4> HIDE DEF t, end, P
      <4>1. <<>> \in P
        BY NoneFrom, Zenon DEF P
      <4>2. ASSUME t.d \in Decoder0, t.val = end PROVE Yields(Decoder0, e, P)
        <5>1. e = Ok(t.d, <<>>)
          BY <4>2
        <5> QED BY <4>1, <4>2, <5>1, OkYields, Zenon
      <4>3. ASSUME t.d \in Decoder0, t.val # end PROVE Yields(Decoder0, e, P)
        <5>1. e = Failed(t.d)
          BY <4>3
        <5> HIDE DEF e
        <5> QED BY <4>3, <5>1, FailedYields
      <4> QED BY <4>2, <4>3, Zenon
    <3>4. q = ReadObjectEnd(r.d)
      BY <2>1, Zenon
    <3> HIDE DEF t, e, P, q
    <3>5. Yields(Decoder0, ReadObjectEnd(r.d), P)
      BY <3>1, <3>2, <3>3, ThenYields
    <3> QED BY <3>4, <3>5, Zenon
  <2>2. CASE r.val # <<>>
    <3>1. Yields(Decoder0, a, Decoded0)
      BY <1>3, Zenon DEF InnerYields0
    <3>2. ASSUME a.d \in Decoder0, a.val \in Decoded0 PROVE Yields(Decoder0, ab, P)
      <4> HIDE DEF a
      <4>1. Yields(Decoder0, b, P)
        BY <3>2, Zenon DEF InnerYields0
      <4>2. ASSUME b.d \in Decoder0, b.val \in P PROVE Yields(Decoder0, v, P)
        <5> DEFINE T == (Seq(Byte) \ {<<>>}) \X Decoded0
                   p == <<r.val, a.val>>
        <5> HIDE DEF b
        <5>1. p \in T
          BY <1>3, <2>2, <3>2
        <5> HIDE DEF p, T
        <5>2. <<p>> \o b.val \in Seq(T)
          BY <4>2, <5>1, OneInFront DEF PairsFrom, T
        <5>3. <<p>> \o b.val \in P
          BY <5>2 DEF PairsFrom, T
        <5> HIDE DEF P
        <5>4. Yields(Decoder0, Ok(b.d, <<p>> \o b.val), P)
          BY <4>2, <5>3, OkYields
        <5> QED BY <5>4 DEF p
      <4> HIDE DEF b, v, P
      <4> QED
        BY <4>1, <4>2, ThenYields
    <3> HIDE DEF a, ab, P
    <3>3. Yields(Decoder0, qa, P)
      BY <3>1, <3>2, ThenYields
    <3>4. q = qa
      BY <2>2, Zenon
    <3> HIDE DEF q, qa
    <3> QED BY <3>3, <3>4, Zenon
  <2> QED
    BY <2>1, <2>2, Zenon
<1> HIDE DEF r, q, P
<1>4. Yields(Decoder0, DecodePairs0(inner, d), P)
  BY <1>1, <1>2, <1>3, ThenYields
<1> QED
  BY <1>4 DEF P

\* Elements.
LEMMA DecodeElementsYields ==
    ASSUME NEW d \in Decoder0, NEW inner, InnerYields0(inner), NEW k \in Nat
    PROVE  Yields(Decoder0, DecodeElements(inner, d, k), Seq(Decoded0))
<1> DEFINE P == Seq(Decoded0)
<1>1. CASE k = 0
  <2>1. DecodeElements(inner, d, k) = Ok(d, <<>>)
    BY <1>1, Zenon DEF DecodeElements
  <2>2. <<>> \in P
    OBVIOUS
  <2> QED
    BY <2>1, <2>2, OkYields, Zenon
<1>2. CASE k # 0
  <2> DEFINE j == k - 1
             a == inner.value[d]
             b == inner.elements[j][a.d]
             v == Ok(b.d, <<a.val>> \o b.val)
             ab == IF b.d.ok THEN v ELSE b
  <2>0. j \in Nat
    BY <1>2
  <2>1. DecodeElements(inner, d, k) = (IF a.d.ok THEN ab ELSE a)
    BY <1>2, Zenon DEF DecodeElements, Bind
  <2> HIDE DEF j
  <2>2. Yields(Decoder0, a, Decoded0)
    BY Zenon DEF InnerYields0
  <2>3. ASSUME a.d \in Decoder0, a.val \in Decoded0 PROVE Yields(Decoder0, ab, P)
    <3> HIDE DEF a
    <3>1. Yields(Decoder0, b, P)
      BY <2>0, <2>3, Zenon DEF InnerYields0
    <3>2. ASSUME b.d \in Decoder0, b.val \in P PROVE Yields(Decoder0, v, P)
      <4> HIDE DEF b
      <4>1. <<a.val>> \o b.val \in P
        BY <2>3, <3>2, OneInFront
      <4> HIDE DEF P
      <4> QED
        BY <3>2, <4>1, OkYields
    <3> HIDE DEF b, v, P
    <3> QED
      BY <3>1, <3>2, ThenYields
  <2> HIDE DEF a, ab, P
  <2>4. Yields(Decoder0, DecodeElements(inner, d, k), P)
    BY <2>1, <2>2, <2>3, ThenYields
  <2> QED BY <2>4 DEF P
<1> QED
  BY <1>1, <1>2

\* Whatever the decoder, and however deep its calls.
LEMMA Decoding0Yields == \A n \in Nat : InnerYields0(Decoding0[n])
<1> DEFINE T == {n \in Nat : InnerYields0(Decoding0[n])}
           y == <<>>
<1>1. y \in Seq(Byte)
  OBVIOUS
<1> HIDE DEF y
<1>2. ASSUME NEW n \in Nat, NEW d \in Decoder0
      PROVE  Yields(Decoder0, Decoding0[n].value[d], Decoded0)
  <2> DEFINE r == Decoding0[n].value[d]
  <2>1. Steady(Decoder0, r, Decoding0[n].value[Longer(d, y)], y)
    <3>1. n <= n
      OBVIOUS
    <3>2. InnerSteady0(Decoding0[n], Decoding0[n], y)
      BY <1>1, <3>1, Decoding0Steady
    <3> QED BY <3>2, Zenon DEF InnerSteady0
  <2>2. r.d.ok => r.val \in Decoded0
    <3> SUFFICES ASSUME r.d.ok PROVE r.val \in Decoded0
      OBVIOUS
    <3> DEFINE p == <<n, d>>
    <3>1. p[1] = n /\ p[2] = d /\ p \in Nat \X Decoder0
      OBVIOUS
    <3> HIDE DEF p
    <3>2. p \in {q \in Nat \X Decoder0 : Decoding0[q[1]].value[q[2]].d.ok}
      BY <3>1
    <3> QED BY <3>1, <3>2, Zenon DEF Decoded0
  <2> HIDE DEF r
  <2>3. Yields(Decoder0, r, Decoded0)
    BY <2>1, <2>2, Zenon DEF Steady, Yields
  <2> QED BY <2>3 DEF r
<1>3. 0 \in T
  <2> SUFFICES ASSUME NEW d \in Decoder0
               PROVE  /\ Yields(Decoder0, Decoding0[0].value[d], Decoded0)
                      /\ Yields(Decoder0, Decoding0[0].pairs[d], PairsFrom(Decoded0))
                      /\ \A k \in Nat : Yields(Decoder0, Decoding0[0].elements[k][d], Seq(Decoded0))
    BY DEF InnerYields0
  <2>1. /\ Decoding0[0].value[d] = Failed(d) /\ Decoding0[0].pairs[d] = Failed(d)
        /\ \A k \in Nat : Decoding0[0].elements[k][d] = Failed(d)
    BY Decoding0Round
  <2>2. \A S : Yields(Decoder0, Failed(d), S)
    BY FailedYields
  <2> QED BY <2>1, <2>2, Zenon
<1>4. ASSUME NEW n \in Nat, n \in T PROVE n + 1 \in T
  <2> DEFINE inner == Decoding0[n]
             j == n + 1
  <2>1. j \in Nat /\ j # 0 /\ j - 1 = n
    OBVIOUS
  <2>2. InnerYields0(inner)
    BY <1>4
  <2> SUFFICES ASSUME NEW d \in Decoder0
               PROVE  /\ Yields(Decoder0, Decoding0[j].value[d], Decoded0)
                      /\ Yields(Decoder0, Decoding0[j].pairs[d], PairsFrom(Decoded0))
                      /\ \A k \in Nat : Yields(Decoder0, Decoding0[j].elements[k][d], Seq(Decoded0))
    BY DEF InnerYields0
  <2> HIDE DEF T, j
  <2>3. /\ Decoding0[j].pairs[d] = DecodePairs0(inner, d)
        /\ \A k \in Nat : Decoding0[j].elements[k][d] = DecodeElements(inner, d, k)
    BY <2>1, Decoding0Round
  <2> HIDE DEF inner
  <2>4. /\ Yields(Decoder0, DecodePairs0(inner, d), PairsFrom(Decoded0))
        /\ \A k \in Nat : Yields(Decoder0, DecodeElements(inner, d, k), Seq(Decoded0))
    BY <2>2, DecodePairs0Yields, DecodeElementsYields
  <2> QED
    BY <1>2, <2>1, <2>3, <2>4, Zenon
<1>5. Nat \subseteq T
  <2> HIDE DEF T
  <2> QED BY <1>3, <1>4, SetInduction
<1> QED
  BY <1>5

\* What is read, if something is made of it.
LEMMA OkBound ==
    ASSUME NEW r, NEW v, NEW R, R = (IF r.d.ok THEN Ok(r.d, v) ELSE r), R.d.ok
    PROVE  r.d.ok /\ R.val = v
<1>1. r.d.ok
  OBVIOUS
<1>2. R = Ok(r.d, v)
  BY <1>1
<1> QED
  BY <1>1, <1>2, OkHas

\* The same with its type.
LEMMA TaggedBound ==
    ASSUME NEW r, NEW tag, NEW R, R = Tagged(tag, r), R.d.ok
    PROVE  r.d.ok /\ R.val = <<tag, r.val>>
<1> DEFINE v == <<tag, r.val>>
<1>1. R = (IF r.d.ok THEN Ok(r.d, v) ELSE r)
  BY Zenon DEF Tagged, Bind
<1> HIDE DEF v
<1>2. r.d.ok /\ R.val = v
  BY <1>1, OkBound
<1> QED
  BY <1>2 DEF v

\* What is of one of Go's plain types.
LEMMA PlainForm0 ==
    ASSUME NEW x, x[1] \in {"float64", "bool", "string", "nil", "time"}
    PROVE  Form0(x)
BY DEF Form0

\* A map.
LEMMA DecodeMapForm ==
    ASSUME NEW d \in Decoder0, NEW inner, InnerYields0(inner), NEW R, R.d.ok,
           \/ R = DecodeMap(inner, d, <<>>)
           \/ \E c \in Decoded0 : R = DecodeMap(inner, d, <<<<ClassNameKey, c>>>>)
    PROVE  Form0(R.val)
<1> DEFINE r == inner.pairs[d]
<1>1. r.d.ok => r.val \in PairsFrom(Decoded0)
  BY Zenon DEF InnerYields0, Yields
<1>2. ASSUME NEW first, R = DecodeMap(inner, d, first)
      PROVE  r.d.ok /\ R.val = <<"map", MapOf(first \o r.val)>>
  <2> DEFINE v == <<"map", MapOf(first \o r.val)>>
  <2>1. R = (IF r.d.ok THEN Ok(r.d, v) ELSE r)
    BY <1>2, Zenon DEF DecodeMap, Bind
  <2> HIDE DEF v, r
  <2>2. r.d.ok /\ R.val = v
    <3>1. r.d.ok
      BY <2>1, Zenon
    <3>2. R = Ok(r.d, v)
      BY <2>1, <3>1, Zenon
    <3> QED BY <3>1, <3>2, OkHas
  <2> QED BY <2>2 DEF v
<1> HIDE DEF r
<1>3. ASSUME NEW f, Clean(f, Decoded0), R.val = <<"map", f>> PROVE Form0(R.val)
  BY <1>3 DEF Form0
<1>4. CASE R = DecodeMap(inner, d, <<>>)
  <2>1. r.d.ok /\ R.val = <<"map", MapOf(<<>> \o r.val)>>
    BY <1>2, <1>4
  <2>2. r.val \in PairsFrom(Decoded0)
    BY <1>1, <2>1
  <2>3. <<>> \o r.val = r.val
    BY <2>2 DEF PairsFrom
  <2>4. Clean(MapOf(r.val), Decoded0)
    BY <2>2, MapClean
  <2> QED
    BY <1>3, <2>1, <2>3, <2>4
<1>5. ASSUME NEW c \in Decoded0, R = DecodeMap(inner, d, <<<<ClassNameKey, c>>>>)
      PROVE  Form0(R.val)
  <2>1. r.d.ok /\ R.val = <<"map", MapOf(<<<<ClassNameKey, c>>>> \o r.val)>>
    BY <1>2, <1>5
  <2>2. r.val \in PairsFrom(Decoded0)
    BY <1>1, <2>1
  <2>3. Clean(MapOf(<<<<ClassNameKey, c>>>> \o r.val), Decoded0)
    BY <2>2, ClassClean
  <2> QED
    BY <1>3, <2>1, <2>3
<1> QED
  BY <1>4, <1>5

\* An array.
LEMMA DecodeStrictArrayForm ==
    ASSUME NEW d \in Decoder0, NEW inner, InnerYields0(inner),
           DecodeStrictArray(inner, d).d.ok
    PROVE  Form0(DecodeStrictArray(inner, d).val)
<1> DEFINE R == DecodeStrictArray(inner, d)
           r == ReadUInt(d, 4)
           a == inner.elements[r.val][r.d]
           q == IF r.val < 0 THEN Failed(r.d) ELSE Tagged("slice", a)
           y == <<>>
<1>0. y \in Seq(Byte)
  OBVIOUS
<1> HIDE DEF y
<1>1. R = (IF r.d.ok THEN q ELSE r)
  BY Zenon DEF DecodeStrictArray, Bind
<1>2. r.d.ok => r.val \in Int
  BY CountIs
<1>3. Steady(Decoder0, r, ReadUInt(Longer(d, y), 4), y)
  BY <1>0, ReadUIntSteady
<1>4. R.d.ok
  OBVIOUS
<1> HIDE DEF R, r
<1>5. r.d.ok /\ R = q
  <2> HIDE DEF q
  <2> QED BY <1>1, <1>4
<1>6. r.d \in Decoder0
  BY <1>3, <1>5, Zenon DEF Steady
<1>7. ~(r.val < 0)
  <2> SUFFICES ASSUME r.val < 0 PROVE FALSE
    OBVIOUS
  <2>1. R = Failed(r.d)
    BY <1>5, Zenon
  <2>2. Failed(r.d).d.ok = FALSE
    BY <1>6, FailedSteady
  <2> QED BY <1>4, <2>1, <2>2
<1>8. r.val \in Nat /\ R = Tagged("slice", a)
  BY <1>2, <1>5, <1>7
<1>9. Yields(Decoder0, a, Seq(Decoded0))
  BY <1>6, <1>8, Zenon DEF InnerYields0
<1> HIDE DEF a, q
<1>10. a.d.ok /\ R.val = <<"slice", a.val>>
  BY <1>4, <1>8, TaggedBound
<1>11. a.val \in Seq(Decoded0)
  BY <1>9, <1>10, Zenon DEF Yields
<1> QED
  BY <1>10, <1>11 DEF Form0, R

\* By the marker.
LEMMA DecodeMarked0Form ==
    ASSUME NEW d \in Decoder0, NEW inner, InnerYields0(inner), NEW marker,
           DecodeMarked0(inner, d, marker).d.ok
    PROVE  Form0(DecodeMarked0(inner, d, marker).val)
<1> DEFINE R == DecodeMarked0(inner, d, marker)
<1>0. R.d.ok
  OBVIOUS
<1>1. ASSUME NEW r, NEW tag \in {"float64", "bool", "string", "nil", "time"}, R = Tagged(tag, r)
      PROVE  Form0(R.val)
  <2> HIDE DEF R
  <2>1. R.val = <<tag, r.val>>
    BY <1>0, <1>1, TaggedBound
  <2> QED BY <2>1, PlainForm0
<1>2. ASSUME NEW r, NEW tag \in {"float64", "bool", "string", "nil", "time"}, NEW x,
             R = (IF r.d.ok THEN Ok(r.d, <<tag, x>>) ELSE r)
      PROVE  Form0(R.val)
  <2> DEFINE v == <<tag, x>>
  <2>1. v[1] \in {"float64", "bool", "string", "nil", "time"}
    OBVIOUS
  <2> HIDE DEF R, v
  <2>2. R.val = v
    BY <1>0, <1>2, OkBound DEF v
  <2> QED BY <2>1, <2>2, PlainForm0
<1>3. CASE marker = Number0
  <2>1. R = Tagged("float64", Take(d, 8))
    BY <1>3, Markers0, Zenon DEF DecodeMarked0
  <2> HIDE DEF R
  <2>2. Form0(R.val)
    BY <1>1, <2>1
  <2> QED BY <2>2 DEF R
<1>4. CASE marker = Boolean0
  <2> DEFINE r == Take(d, 1)
             x == r.val # <<0>>
  <2>1. R = (IF r.d.ok THEN Ok(r.d, <<"bool", x>>) ELSE r)
    BY <1>4, Markers0, Zenon DEF DecodeMarked0, Bind
  <2> HIDE DEF R, r, x
  <2>2. Form0(R.val)
    BY <1>2, <2>1
  <2> QED BY <2>2 DEF R
<1>5. CASE marker = String0
  <2>1. R = Tagged("string", ReadUTF8(d, 2))
    BY <1>5, Markers0, Zenon DEF DecodeMarked0
  <2> HIDE DEF R
  <2>2. Form0(R.val)
    BY <1>1, <2>1
  <2> QED BY <2>2 DEF R
<1>6. CASE marker = Object0
  <2>1. R = DecodeMap(inner, d, <<>>)
    BY <1>6, Markers0, Zenon DEF DecodeMarked0
  <2> HIDE DEF R
  <2>2. Form0(R.val)
    BY <1>0, <2>1, DecodeMapForm
  <2> QED BY <2>2 DEF R
<1>7. CASE marker \in {Null0, Undefined0}
  <2> DEFINE nil == <<"nil">>
  <2>0. marker = Null0 \/ marker = Undefined0
    BY <1>7
  <2>1. R = Ok(d, nil)
    BY <2>0, Markers0, Zenon DEF DecodeMarked0
  <2>2. nil[1] = "nil"
    OBVIOUS
  <2> HIDE DEF R, nil
  <2>3. R.val = nil
    BY <2>1, OkHas
  <2>4. Form0(R.val)
    BY <2>2, <2>3, PlainForm0
  <2> QED BY <2>4 DEF R
<1>8. CASE marker = EcmaArray0
  <2> DEFINE r == ReadUInt(d, 4)
             q == DecodeMap(inner, r.d, <<>>)
             y == <<>>
  <2>0. y \in Seq(Byte)
    OBVIOUS
  <2> HIDE DEF y
  <2>1. R = DecodeEcmaArray(inner, d)
    BY <1>8, Markers0, Zenon DEF DecodeMarked0
  <2>2. DecodeEcmaArray(inner, d) = (IF r.d.ok THEN q ELSE r)
    BY Zenon DEF DecodeEcmaArray, Bind
  <2>3. Steady(Decoder0, r, ReadUInt(Longer(d, y), 4), y)
    BY <2>0, ReadUIntSteady
  <2> HIDE DEF R, r
  <2>4. r.d.ok /\ R = q
    <3> HIDE DEF q
    <3> QED BY <1>0, <2>1, <2>2
  <2>5. r.d \in Decoder0
    BY <2>3, <2>4, Zenon DEF Steady
  <2>6. Form0(R.val)
    BY <1>0, <2>4, <2>5, DecodeMapForm
  <2> QED BY <2>6 DEF R
<1>9. CASE marker = StrictArray0
  <2>1. R = DecodeStrictArray(inner, d)
    BY <1>9, Markers0, Zenon DEF DecodeMarked0
  <2> HIDE DEF R
  <2>2. Form0(R.val)
    BY <1>0, <2>1, DecodeStrictArrayForm
  <2> QED BY <2>2 DEF R
<1>10. CASE marker = Date0
  <2> DEFINE r == Take(d, 8)
             a == Take(r.d, 2)
             q == IF a.d.ok THEN Ok(a.d, <<"time", TimeFrom0(r.val)>>) ELSE a
  <2>1. R = DecodeDateValue0(d)
    BY <1>10, Markers0, Zenon DEF DecodeMarked0
  <2>2. DecodeDateValue0(d) = (IF r.d.ok THEN q ELSE r)
    BY Zenon DEF DecodeDateValue0, Bind
  <2> HIDE DEF R, r
  <2>3. R = q
    <3> HIDE DEF q
    <3> QED BY <1>0, <2>1, <2>2
  <2>4. Form0(R.val)
    <3> DEFINE x == TimeFrom0(r.val)
    <3>1. R = (IF a.d.ok THEN Ok(a.d, <<"time", x>>) ELSE a)
      BY <2>3
    <3> HIDE DEF x, a
    <3> QED BY <1>2, <3>1
  <2> QED BY <2>4 DEF R
<1>11. CASE marker = LongString0
  <2>1. R = Tagged("string", ReadUTF8(d, 4))
    BY <1>11, Markers0, Zenon DEF DecodeMarked0
  <2> HIDE DEF R
  <2>2. Form0(R.val)
    BY <1>1, <2>1
  <2> QED BY <2>2 DEF R
<1>12. CASE marker = TypedObject0
  <2> DEFINE r == ReadUTF8(d, 2)
             c == <<"string", r.val>>
             q == DecodeMap(inner, r.d, <<<<ClassNameKey, c>>>>)
  <2>1. R = DecodeTypedObject(inner, d)
    BY <1>12, Markers0, Zenon DEF DecodeMarked0
  <2>2. DecodeTypedObject(inner, d) = (IF r.d.ok THEN q ELSE r)
    BY Zenon DEF DecodeTypedObject, Bind
  <2>3. Yields(Decoder0, r, Seq(Byte))
    BY ReadUTF8Yields
  <2> HIDE DEF R, r
  <2>4. r.d.ok /\ R = q
    <3> HIDE DEF q
    <3> QED BY <1>0, <2>1, <2>2
  <2>5. r.d \in Decoder0 /\ r.val \in Seq(Byte)
    BY <2>3, <2>4, Zenon DEF Yields
  <2>6. c \in Decoded0
    BY <2>5 DEF Decoded0
  <2> HIDE DEF c
  <2>7. Form0(R.val)
    BY <1>0, <2>4, <2>5, <2>6, DecodeMapForm
  <2> QED BY <2>7 DEF R
<1>13. CASE marker \notin Marked0
  <2>1. R = Failed(d)
    BY <1>13, OtherMarker0
  <2>2. Failed(d).d.ok = FALSE
    BY FailedSteady
  <2> HIDE DEF R
  <2> QED BY <1>0, <2>1, <2>2
<1> HIDE DEF R
<1> QED
  BY <1>3, <1>4, <1>5, <1>6, <1>7, <1>8, <1>9, <1>10, <1>11, <1>12, <1>13, Zenon DEF Marked0, R

\* All that is read.
LEMMA Decoded0Form ==
    ASSUME NEW x \in Decoded0
    PROVE  Form0(x)
<1>1. CASE x \in {"string"} \X Seq(Byte)
  <2>1. x[1] = "string"
    BY <1>1
  <2> QED BY <2>1, PlainForm0
<1>2. ASSUME NEW n \in Nat, NEW d \in Decoder0, Decoding0[n].value[d].d.ok,
             x = Decoding0[n].value[d].val
      PROVE  Form0(x)
  <2> DEFINE R == Decoding0[n].value[d]
  <2>1. n # 0
    <3> SUFFICES ASSUME n = 0 PROVE FALSE
      OBVIOUS
    <3>1. R = Failed(d)
      BY Decoding0Round
    <3>2. Failed(d).d.ok = FALSE
      BY FailedSteady
    <3> QED BY <1>2, <3>1, <3>2
  <2> DEFINE inner == Decoding0[n - 1]
             r == Take(d, 1)
             q == DecodeMarked0(inner, r.d, r.val[1])
  <2>2. R = DecodeByMarker0(inner, d)
    BY <2>1, Decoding0Round
  <2>3. DecodeByMarker0(inner, d) = (IF r.d.ok THEN q ELSE r)
    BY Zenon DEF DecodeByMarker0, Bind
  <2>4. Yields(Decoder0, r, Seq(Byte))
    BY TakeYields
  <2>5. InnerYields0(inner)
    <3>1. n - 1 \in Nat
      BY <2>1
    <3> QED BY <3>1, Decoding0Yields
  <2>6. R.d.ok /\ x = R.val
    BY <1>2
  <2> HIDE DEF inner, r, R
  <2>7. r.d.ok /\ R = q
    <3> HIDE DEF q
    <3> QED BY <2>2, <2>3, <2>6
  <2>8. r.d \in Decoder0
    BY <2>4, <2>7, Zenon DEF Yields
  <2>9. Form0(q.val)
    BY <2>5, <2>6, <2>7, <2>8, DecodeMarked0Form
  <2> QED
    BY <2>6, <2>7, <2>9
<1>3. CASE x \notin {"string"} \X Seq(Byte)
  <2>1. PICK p \in {q \in Nat \X Decoder0 : Decoding0[q[1]].value[q[2]].d.ok} :
               x = Decoding0[p[1]].value[p[2]].val
    BY <1>3, Zenon DEF Decoded0
  <2>2. p[1] \in Nat /\ p[2] \in Decoder0 /\ Decoding0[p[1]].value[p[2]].d.ok
    BY <2>1
  <2> QED
    BY <1>2, <2>1, <2>2
<1> QED
  BY <1>1, <1>3

-----------------------------------------------------------------------------
(* What AMF3 reads, whatever the bytes: no key is empty, and no integer    *)
(* has more than 29 bits.                                                  *)

\* No number has more, however many bytes it has.
LEMMA ReadU29Range ==
    ASSUME NEW x \in Seq(Byte), U29Length(x) # 0
    PROVE  ReadU29(x) \in MinInt .. MaxInt
<1> DEFINE u == U29Length(x)
           y == <<>>
<1>0. y \in Seq(Byte)
  OBVIOUS
<1> HIDE DEF y
<1>1. u \in 1 .. Len(x) /\ u \in 1 .. 4
  BY <1>0, NumberSteady
<1>2. \A i \in 1 .. Len(x) : x[i] \in 0 .. 255
  BY ElementOfSeq DEF Byte
<1>3. Len(x) \in Nat
  BY LenProperties
<1> DEFINE b(i) == x[i] % 128
<1>4. ASSUME NEW i \in 1 .. 4, i <= u
      PROVE  x[i] \in Int /\ 0 <= x[i] /\ x[i] <= 255 /\ b(i) \in Int /\ 0 <= b(i) /\ b(i) <= 127
  <2>1. i \in 1 .. Len(x)
    BY <1>1, <1>3, <1>4
  <2> DEFINE c == x[i]
  <2>2. c \in 0 .. 255
    BY <1>2, <2>1
  <2> HIDE DEF c
  <2>3. c \in Int /\ 0 <= c /\ c <= 255 /\ c % 128 \in Int /\ 0 <= c % 128 /\ c % 128 <= 127
    BY <2>2, SMT
  <2> QED BY <2>3 DEF c
<1>5. u = 1 => x[1] < 128
  BY <1>1, <1>3 DEF U29Length, EndsAt
<1>6. /\ TwoTo28 \in Int /\ TwoTo29 \in Int /\ TwoTo29 = TwoTo28 + TwoTo28
      /\ 2200000 < TwoTo28 /\ 536870911 < TwoTo29
  BY SMT DEF TwoTo28, TwoTo29
<1>7. \A n \in Int : 0 <= n /\ n < TwoTo28 => n \in MinInt .. MaxInt
  BY <1>6, SMT DEF MinInt, MaxInt
<1>8. CASE u = 1
  <2>1. ReadU29(x) = x[1]
    BY <1>8 DEF ReadU29
  <2>2. x[1] \in Int /\ 0 <= x[1] /\ x[1] <= 255
    BY <1>4, <1>8
  <2> DEFINE n == x[1]
  <2>3. n \in Int /\ 0 <= n /\ n < TwoTo28
    BY <1>6, <2>2, SMT
  <2> QED BY <1>7, <2>1, <2>3, Zenon
<1>9. CASE u = 2
  <2> DEFINE n == b(1) * 128 + x[2]
  <2>1. ReadU29(x) = n
    BY <1>9 DEF ReadU29
  <2>2. b(1) \in Int /\ 0 <= b(1) /\ b(1) <= 127 /\ x[2] \in Int /\ 0 <= x[2] /\ x[2] <= 255
    BY <1>4, <1>9
  <2> HIDE DEF b
  <2>3. n \in Int /\ 0 <= n /\ n <= 2200000
    BY <2>2, SMT
  <2> HIDE DEF n
  <2>4. n < TwoTo28
    BY <1>6, <2>3, SMT
  <2> QED BY <1>7, <2>1, <2>3, <2>4, SMT
<1>10. CASE u = 3
  <2> DEFINE n == b(1) * 16384 + b(2) * 128 + x[3]
  <2>1. ReadU29(x) = n
    BY <1>10, SMT DEF ReadU29, TwoTo14
  <2>2. /\ b(1) \in Int /\ 0 <= b(1) /\ b(1) <= 127 /\ b(2) \in Int /\ 0 <= b(2) /\ b(2) <= 127
        /\ x[3] \in Int /\ 0 <= x[3] /\ x[3] <= 255
    BY <1>4, <1>10
  <2> HIDE DEF b
  <2>3. n \in Int /\ 0 <= n /\ n <= 2200000
    <3> DEFINE p == b(1) * 16384
               q == b(2) * 128
    <3>1. p \in Int /\ 0 <= p /\ p <= 2080768
      BY <2>2, SMT
    <3>2. q \in Int /\ 0 <= q /\ q <= 16256
      BY <2>2, SMT
    <3>3. n = p + q + x[3]
      OBVIOUS
    <3> HIDE DEF n, p, q
    <3> QED BY <2>2, <3>1, <3>2, <3>3, SMTT(40)
  <2> HIDE DEF n
  <2>4. n < TwoTo28
    BY <1>6, <2>3, SMT
  <2> QED BY <1>7, <2>1, <2>3, <2>4, SMT
<1>11. CASE u = 4
  <2> DEFINE n == b(1) * (TwoTo14 * 256) + b(2) * (128 * 256) + b(3) * 256 + x[4]
  <2>1. ReadU29(x) = SignExtend(n)
    BY <1>11 DEF ReadU29
  <2>2. /\ b(1) \in Int /\ 0 <= b(1) /\ b(1) <= 127 /\ b(2) \in Int /\ 0 <= b(2) /\ b(2) <= 127
        /\ b(3) \in Int /\ 0 <= b(3) /\ b(3) <= 127 /\ x[4] \in Int /\ 0 <= x[4] /\ x[4] <= 255
    BY <1>4, <1>11
  <2> HIDE DEF b
  <2>3. TwoTo14 * 256 = 4194304 /\ 128 * 256 = 32768
    BY SMT DEF TwoTo14
  <2>4. n \in Int /\ 0 <= n /\ n <= 536870911
    <3> DEFINE p == b(1) * 4194304
               q == b(2) * 32768
               r == b(3) * 256
    <3>1. p \in Int /\ 0 <= p /\ p <= 532676608
      BY <2>2, SMT
    <3>2. q \in Int /\ 0 <= q /\ q <= 4161536
      BY <2>2, SMT
    <3>3. r \in Int /\ 0 <= r /\ r <= 32512
      BY <2>2, SMT
    <3>4. n = p + q + r + x[4]
      BY <2>3, SMT
    <3> HIDE DEF n, p, q, r
    <3> QED BY <2>2, <3>1, <3>2, <3>3, <3>4, SMTT(40)
  <2> HIDE DEF n
  <2>5. n < TwoTo29
    BY <1>6, <2>4, SMT
  <2> DEFINE m == SignExtend(n)
  <2>6. m \in -TwoTo28 .. TwoTo28 - 1
    <3>1. /\ TwoTo28 \in Int /\ TwoTo29 \in Int /\ TwoTo29 = TwoTo28 + TwoTo28
          /\ n \in Int /\ 0 <= n /\ n < TwoTo29
      BY <1>6, <2>4, <2>5
    <3> HIDE <1>6, <2>4, <2>5
    <3> QED BY ONLY <3>1, SMT DEF SignExtend, m
  <2> QED BY <2>1, <2>6, Zenon DEF MinInt, MaxInt
<1> HIDE DEF u, b
<1> QED
  BY <1>1, <1>8, <1>9, <1>10, <1>11

\* What is read as a number.
LEMMA ReadNumberYields ==
    ASSUME NEW d \in Decoder3
    PROVE  Yields(Decoder3, ReadNumber(d), MinInt .. MaxInt)
<1> DEFINE y == <<>>
           r == ReadNumber(d)
           Range29 == MinInt .. MaxInt
<1>1. y \in Seq(Byte)
  OBVIOUS
<1> HIDE DEF y
<1>2. Steady(Decoder3, r, ReadNumber(Longer(d, y)), y)
  BY <1>1, ReadNumberSteady
<1>3. r.d.ok => r.val \in Range29
  <2> SUFFICES ASSUME r.d.ok PROVE r.val \in Range29
    OBVIOUS
  <2>1. U29Length(d.in) # 0
    <3> SUFFICES ASSUME U29Length(d.in) = 0 PROVE FALSE
      OBVIOUS
    <3>1. r = Failed(d)
      BY DEF ReadNumber
    <3>2. Failed(d).d.ok = FALSE
      BY FailedSteady
    <3> QED BY <3>1, <3>2
  <2>2. r = Ok([d EXCEPT !.in = SubSeq(@, U29Length(@) + 1, Len(@))], ReadU29(d.in))
    BY <2>1, Zenon DEF ReadNumber
  <2>3. r.val = ReadU29(d.in)
    BY <2>2, OkHas
  <2>4. d.in \in Seq(Byte)
    BY DEF Decoder3
  <2> QED BY <2>1, <2>3, <2>4, ReadU29Range
<1> HIDE DEF r, Range29
<1>4. Yields(Decoder3, r, Range29)
  BY <1>2, <1>3, Zenon DEF Steady, Yields
<1> QED
  BY <1>4 DEF r, Range29

\* What is read as a string.
LEMMA ReadStringYields ==
    ASSUME NEW d \in Decoder3
    PROVE  Yields(Decoder3, ReadStringWithReference(d), Seq(Byte))
<1> DEFINE B == Seq(Byte)
           y == <<>>
           R == ReadStringWithReference(d)
           r == ReadNumber(d)
           a == Take(r.d, r.val \div 2)
           av == IF a.d.ok THEN Ok([a.d EXCEPT !.strs = Append(@, a.val)], a.val) ELSE a
           q == IF Refers(r.val) THEN Entry(r.d, r.d.strs, r.val \div 2)
                ELSE IF r.val = 1 THEN Ok(r.d, <<>>) ELSE av
<1>0. y \in B /\ <<>> \in B
  OBVIOUS
<1> HIDE DEF y
<1>1. Steady(Decoder3, R, ReadStringWithReference(Longer(d, y)), y)
  BY <1>0, ReadStringSteady
<1>2. R = (IF r.d.ok THEN q ELSE r)
  BY Zenon DEF ReadStringWithReference, Bind
<1>3. Yields(Decoder3, r, MinInt .. MaxInt)
  BY ReadNumberYields
<1>4. ASSUME R.d.ok PROVE R.val \in B
  <2> HIDE DEF r, R
  <2>1. r.d.ok /\ R = q
    <3> HIDE DEF q
    <3> QED BY <1>2, <1>4
  <2>2. r.d \in Decoder3
    BY <1>3, <2>1, Zenon DEF Yields
  <2>3. CASE Refers(r.val)
    <3> DEFINE n == r.val \div 2
               s == r.d.strs
    <3>1. R = Entry(r.d, s, n)
      BY <2>1, <2>3, Zenon
    <3>2. s \in Seq(B)
      BY <2>2 DEF Decoder3
    <3> HIDE DEF n, s, B
    <3>3. R.val = s[n + 1] /\ n + 1 \in 1 .. Len(s)
      BY <1>0, <1>4, <2>2, <3>1, EntrySteady DEF B
    <3> QED BY <3>2, <3>3, ElementOfSeq
  <2>4. CASE ~Refers(r.val) /\ r.val = 1
    <3>1. R = Ok(r.d, <<>>)
      BY <2>1, <2>4, Zenon
    <3>2. R.val = <<>>
      BY <3>1, OkHas
    <3> QED BY <1>0, <3>2
  <2>5. CASE ~Refers(r.val) /\ r.val # 1
    <3>1. R = av
      BY <2>1, <2>5, Zenon
    <3>2. Yields(Decoder3, a, B)
      BY <2>2, TakeYields
    <3> HIDE DEF a, B
    <3>3. a.d.ok
      BY <1>4, <3>1
    <3>4. R = Ok([a.d EXCEPT !.strs = Append(@, a.val)], a.val)
      BY <3>1, <3>3, Zenon
    <3>5. R.val = a.val
      BY <3>4, OkHas
    <3> QED BY <3>2, <3>3, <3>5, Zenon DEF Yields
  <2> QED BY <2>3, <2>4, <2>5
<1> HIDE DEF R, B
<1>5. Yields(Decoder3, R, B)
  BY <1>1, <1>4, Zenon DEF Steady, Yields
<1> QED
  BY <1>5 DEF R, B

\* All that decodeAMF3Value reads of any bytes, after any others.
Decoded3 ==
  {Decoding3[p[1]].value[p[2]].val :
     p \in {q \in Nat \X Decoder3 : Decoding3[q[1]].value[q[2]].d.ok}}

\* What decodeAMF3Value makes of what is read inside.
Form3(x) ==
  /\ x[1] \in {"AMF3Undefined", "AMF3Null", "AMF3Boolean", "AMF3Integer", "AMF3Double", "AMF3String",
               "AMF3Date", "AMF3Array", "AMF3Object", "again"}
  /\ x[1] = "AMF3Integer" => x[2] \in MinInt .. MaxInt
  /\ x[1] = "AMF3Array" => x[2].dense \in Seq(Decoded3) /\ Clean(x[2].associative, Decoded3)
  /\ x[1] = "AMF3Object" => Clean(x[2], Decoded3)

InnerYields3(inner) ==
  \A d \in Decoder3 :
    /\ Yields(Decoder3, inner.value[d], Decoded3)
    /\ Yields(Decoder3, inner.pairs[d], PairsFrom(Decoded3))
    /\ \A k \in Nat : Yields(Decoder3, inner.dense[k][d], Seq(Decoded3))

\* Keys and values.
LEMMA DecodePairs3Yields ==
    ASSUME NEW d \in Decoder3, NEW inner, InnerYields3(inner)
    PROVE  Yields(Decoder3, DecodePairs3(inner, d), PairsFrom(Decoded3))
<1> DEFINE P == PairsFrom(Decoded3)
           r == ReadStringWithReference(d)
           a == inner.value[r.d]
           b == inner.pairs[a.d]
           v == Ok(b.d, <<<<r.val, a.val>>>> \o b.val)
           ab == IF b.d.ok THEN v ELSE b
           qa == IF a.d.ok THEN ab ELSE a
           q == IF r.val = <<>> THEN Ok(r.d, <<>>) ELSE qa
<1>1. Yields(Decoder3, r, Seq(Byte))
  BY ReadStringYields
<1>2. DecodePairs3(inner, d) = (IF r.d.ok THEN q ELSE r)
  BY Zenon DEF DecodePairs3, Bind
<1>3. ASSUME r.d \in Decoder3, r.val \in Seq(Byte) PROVE Yields(Decoder3, q, P)
  <2> HIDE DEF r
  <2>1. CASE r.val = <<>>
    <3>1. q = Ok(r.d, <<>>)
      BY <2>1, Zenon
    <3> HIDE DEF P, q
    <3>2. <<>> \in P
      BY NoneFrom, Zenon DEF P
    <3> QED BY <1>3, <3>1, <3>2, OkYields, Zenon
  <2>2. CASE r.val # <<>>
    <3>1. Yields(Decoder3, a, Decoded3)
      BY <1>3, Zenon DEF InnerYields3
    <3>2. ASSUME a.d \in Decoder3, a.val \in Decoded3 PROVE Yields(Decoder3, ab, P)
      <4> HIDE DEF a
      <4>1. Yields(Decoder3, b, P)
        BY <3>2, Zenon DEF InnerYields3
      <4>2. ASSUME b.d \in Decoder3, b.val \in P PROVE Yields(Decoder3, v, P)
        <5> DEFINE T == (Seq(Byte) \ {<<>>}) \X Decoded3
                   p == <<r.val, a.val>>
        <5> HIDE DEF b
        <5>1. p \in T
          BY <1>3, <2>2, <3>2
        <5> HIDE DEF p, T
        <5>2. <<p>> \o b.val \in Seq(T)
          BY <4>2, <5>1, OneInFront DEF PairsFrom, T
        <5>3. <<p>> \o b.val \in P
          BY <5>2 DEF PairsFrom, T
        <5> HIDE DEF P
        <5>4. Yields(Decoder3, Ok(b.d, <<p>> \o b.val), P)
          BY <4>2, <5>3, OkYields
        <5> QED BY <5>4 DEF p
      <4> HIDE DEF b, v, P
      <4> QED
        BY <4>1, <4>2, ThenYields
    <3> HIDE DEF a, ab, P
    <3>3. Yields(Decoder3, qa, P)
      BY <3>1, <3>2, ThenYields
    <3>4. q = qa
      BY <2>2, Zenon
    <3> HIDE DEF q, qa
    <3> QED BY <3>3, <3>4, Zenon
  <2> QED
    BY <2>1, <2>2, Zenon
<1> HIDE DEF r, q, P
<1>4. Yields(Decoder3, DecodePairs3(inner, d), P)
  BY <1>1, <1>2, <1>3, ThenYields
<1> QED
  BY <1>4 DEF P

\* The dense part.
LEMMA DecodeDenseYields ==
    ASSUME NEW d \in Decoder3, NEW inner, InnerYields3(inner), NEW k \in Nat
    PROVE  Yields(Decoder3, DecodeDense(inner, d, k), Seq(Decoded3))
<1> DEFINE P == Seq(Decoded3)
<1>1. CASE k = 0
  <2>1. DecodeDense(inner, d, k) = Ok(d, <<>>)
    BY <1>1, Zenon DEF DecodeDense
  <2>2. <<>> \in P
    OBVIOUS
  <2> QED
    BY <2>1, <2>2, OkYields, Zenon
<1>2. CASE k # 0
  <2> DEFINE j == k - 1
             a == inner.value[d]
             b == inner.dense[j][a.d]
             v == Ok(b.d, <<a.val>> \o b.val)
             ab == IF b.d.ok THEN v ELSE b
  <2>0. j \in Nat
    BY <1>2
  <2>1. DecodeDense(inner, d, k) = (IF a.d.ok THEN ab ELSE a)
    BY <1>2, Zenon DEF DecodeDense, Bind
  <2> HIDE DEF j
  <2>2. Yields(Decoder3, a, Decoded3)
    BY Zenon DEF InnerYields3
  <2>3. ASSUME a.d \in Decoder3, a.val \in Decoded3 PROVE Yields(Decoder3, ab, P)
    <3> HIDE DEF a
    <3>1. Yields(Decoder3, b, P)
      BY <2>0, <2>3, Zenon DEF InnerYields3
    <3>2. ASSUME b.d \in Decoder3, b.val \in P PROVE Yields(Decoder3, v, P)
      <4> HIDE DEF b
      <4>1. <<a.val>> \o b.val \in P
        BY <2>3, <3>2, OneInFront
      <4> HIDE DEF P
      <4> QED
        BY <3>2, <4>1, OkYields
    <3> HIDE DEF b, v, P
    <3> QED
      BY <3>1, <3>2, ThenYields
  <2> HIDE DEF a, ab, P
  <2>4. Yields(Decoder3, DecodeDense(inner, d, k), P)
    BY <2>1, <2>2, <2>3, ThenYields
  <2> QED BY <2>4 DEF P
<1> QED
  BY <1>1, <1>2

\* Whatever the decoder, and however deep its calls.
LEMMA Decoding3Yields == \A n \in Nat : InnerYields3(Decoding3[n])
<1> DEFINE T == {n \in Nat : InnerYields3(Decoding3[n])}
           y == <<>>
<1>1. y \in Seq(Byte)
  OBVIOUS
<1> HIDE DEF y
<1>2. ASSUME NEW n \in Nat, NEW d \in Decoder3
      PROVE  Yields(Decoder3, Decoding3[n].value[d], Decoded3)
  <2> DEFINE r == Decoding3[n].value[d]
  <2>1. Steady(Decoder3, r, Decoding3[n].value[Longer(d, y)], y)
    <3>1. n <= n
      OBVIOUS
    <3>2. InnerSteady3(Decoding3[n], Decoding3[n], y)
      BY <1>1, <3>1, Decoding3Steady
    <3> QED BY <3>2, Zenon DEF InnerSteady3
  <2>2. r.d.ok => r.val \in Decoded3
    <3> SUFFICES ASSUME r.d.ok PROVE r.val \in Decoded3
      OBVIOUS
    <3> DEFINE p == <<n, d>>
    <3>1. p[1] = n /\ p[2] = d /\ p \in Nat \X Decoder3
      OBVIOUS
    <3> HIDE DEF p
    <3>2. p \in {q \in Nat \X Decoder3 : Decoding3[q[1]].value[q[2]].d.ok}
      BY <3>1
    <3> QED BY <3>1, <3>2, Zenon DEF Decoded3
  <2> HIDE DEF r
  <2>3. Yields(Decoder3, r, Decoded3)
    BY <2>1, <2>2, Zenon DEF Steady, Yields
  <2> QED BY <2>3 DEF r
<1>3. 0 \in T
  <2> SUFFICES ASSUME NEW d \in Decoder3
               PROVE  /\ Yields(Decoder3, Decoding3[0].value[d], Decoded3)
                      /\ Yields(Decoder3, Decoding3[0].pairs[d], PairsFrom(Decoded3))
                      /\ \A k \in Nat : Yields(Decoder3, Decoding3[0].dense[k][d], Seq(Decoded3))
    BY DEF InnerYields3
  <2>1. /\ Decoding3[0].value[d] = Failed(d) /\ Decoding3[0].pairs[d] = Failed(d)
        /\ \A k \in Nat : Decoding3[0].dense[k][d] = Failed(d)
    BY Decoding3Round
  <2>2. \A S : Yields(Decoder3, Failed(d), S)
    BY FailedYields
  <2> QED BY <2>1, <2>2, Zenon
<1>4. ASSUME NEW n \in Nat, n \in T PROVE n + 1 \in T
  <2> DEFINE inner == Decoding3[n]
             j == n + 1
  <2>1. j \in Nat /\ j # 0 /\ j - 1 = n
    OBVIOUS
  <2>2. InnerYields3(inner)
    BY <1>4
  <2> SUFFICES ASSUME NEW d \in Decoder3
               PROVE  /\ Yields(Decoder3, Decoding3[j].value[d], Decoded3)
                      /\ Yields(Decoder3, Decoding3[j].pairs[d], PairsFrom(Decoded3))
                      /\ \A k \in Nat : Yields(Decoder3, Decoding3[j].dense[k][d], Seq(Decoded3))
    BY DEF InnerYields3
  <2> HIDE DEF T, j
  <2>3. /\ Decoding3[j].pairs[d] = DecodePairs3(inner, d)
        /\ \A k \in Nat : Decoding3[j].dense[k][d] = DecodeDense(inner, d, k)
    BY <2>1, Decoding3Round
  <2> HIDE DEF inner
  <2>4. /\ Yields(Decoder3, DecodePairs3(inner, d), PairsFrom(Decoded3))
        /\ \A k \in Nat : Yields(Decoder3, DecodeDense(inner, d, k), Seq(Decoded3))
    BY <2>2, DecodePairs3Yields, DecodeDenseYields
  <2> QED
    BY <1>2, <2>1, <2>3, <2>4, Zenon
<1>5. Nat \subseteq T
  <2> HIDE DEF T
  <2> QED BY <1>3, <1>4, SetInduction
<1> QED
  BY <1>5

\* What is read as an object that was there.
LEMMA ReferredForm ==
    ASSUME NEW d \in Decoder3, NEW n, NEW tag, NEW R, R = Referred(d, n, tag), R.d.ok
    PROVE  R.val[1] = (IF tag = "AMF3Date" THEN tag ELSE "again")
<1> DEFINE r == Entry(d, d.objs, n)
           again == <<"again", tag, n>>
           x == IF tag = "AMF3Date" THEN r.val ELSE again
           q == IF r.val[1] # tag THEN Failed(r.d) ELSE Ok(r.d, x)
           y == <<>>
<1>0. y \in Seq(Byte)
  OBVIOUS
<1> HIDE DEF y
<1>1. R = (IF r.d.ok THEN q ELSE r)
  BY Zenon DEF Referred, Bind
<1>2. Steady(Decoder3, r, Entry(Longer(d, y), d.objs, n), y)
  BY <1>0, EntrySteady
<1>3. again[1] = "again"
  OBVIOUS
<1> HIDE DEF r, again
<1>4. r.d.ok /\ R = q
  <2> HIDE DEF q
  <2> QED BY <1>1
<1>5. r.d \in Decoder3
  BY <1>2, <1>4, Zenon DEF Steady
<1>6. r.val[1] = tag
  <2> SUFFICES ASSUME r.val[1] # tag PROVE FALSE
    OBVIOUS
  <2>1. R = Failed(r.d)
    BY <1>4, Zenon
  <2>2. Failed(r.d).d.ok = FALSE
    BY <1>5, FailedSteady
  <2> QED BY <2>1, <2>2
<1>7. R = Ok(r.d, x)
  BY <1>4, <1>6, Zenon
<1> HIDE DEF x
<1>8. R.val = x
  BY <1>7, OkHas
<1> QED
  BY <1>3, <1>6, <1>8 DEF x

\* What contains nothing, and is no integer.
LEMMA PlainForm3 ==
    ASSUME NEW x, x[1] \in {"AMF3Undefined", "AMF3Null", "AMF3Boolean", "AMF3Double", "AMF3String",
                            "AMF3Date", "again"}
    PROVE  Form3(x)
BY DEF Form3

\* A date.
LEMMA DecodeDateForm ==
    ASSUME NEW d \in Decoder3, NEW R, R = DecodeDateValue(d), R.d.ok
    PROVE  Form3(R.val)
<1> DEFINE r == ReadNumber(d)
           a == Tagged("AMF3Date", ReadTime(r.d))
           av == IF a.d.ok THEN Ok([a.d EXCEPT !.objs = Append(@, a.val)], a.val) ELSE a
           q == IF Refers(r.val) THEN Referred(r.d, r.val \div 2, "AMF3Date") ELSE av
<1>1. R = (IF r.d.ok THEN q ELSE r)
  BY Zenon DEF DecodeDateValue, Bind
<1>2. Yields(Decoder3, r, MinInt .. MaxInt)
  BY ReadNumberYields
<1> HIDE DEF r
<1>3. r.d.ok /\ R = q
  <2> HIDE DEF q
  <2> QED BY <1>1
<1>4. r.d \in Decoder3
  BY <1>2, <1>3, Zenon DEF Yields
<1>5. CASE Refers(r.val)
  <2> DEFINE n == r.val \div 2
  <2>1. R = Referred(r.d, n, "AMF3Date")
    BY <1>3, <1>5, Zenon
  <2> HIDE DEF n
  <2>2. R.val[1] = "AMF3Date"
    BY <1>4, <2>1, ReferredForm
  <2> QED BY <2>2, PlainForm3
<1>6. CASE ~Refers(r.val)
  <2>1. R = av
    BY <1>3, <1>6, Zenon
  <2> DEFINE t == ReadTime(r.d)
  <2>2. a = Tagged("AMF3Date", t)
    OBVIOUS
  <2> HIDE DEF a, t
  <2>3. a.d.ok
    BY <2>1
  <2>4. R = Ok([a.d EXCEPT !.objs = Append(@, a.val)], a.val)
    BY <2>1, <2>3, Zenon
  <2>5. R.val = a.val
    BY <2>4, OkHas
  <2>6. a.val = <<"AMF3Date", t.val>>
    BY <2>2, <2>3, TaggedBound
  <2>7. R.val[1] = "AMF3Date"
    BY <2>5, <2>6
  <2> QED BY <2>7, PlainForm3
<1> QED
  BY <1>5, <1>6

\* An array.
LEMMA DecodeArrayForm ==
    ASSUME NEW d \in Decoder3, NEW inner, InnerYields3(inner), NEW R, R = DecodeArrayValue(inner, d),
           R.d.ok
    PROVE  Form3(R.val)
<1> DEFINE r == ReadNumber(d)
           e == Entered(r.d, "AMF3Array")
           a == inner.pairs[e]
           b == inner.dense[r.val \div 2][a.d]
           x == <<"AMF3Array", [dense |-> b.val, associative |-> MapOf(a.val)]>>
           bv == IF b.d.ok THEN Ok(b.d, x) ELSE b
           ab == IF r.val < 0 THEN Failed(a.d) ELSE bv
           qa == IF a.d.ok THEN ab ELSE a
           q == IF Refers(r.val) THEN Referred(r.d, r.val \div 2, "AMF3Array") ELSE qa
           y == <<>>
<1>0. y \in Seq(Byte)
  OBVIOUS
<1> HIDE DEF y
<1>1. R = (IF r.d.ok THEN q ELSE r)
  BY Zenon DEF DecodeArrayValue, Bind
<1>2. Yields(Decoder3, r, MinInt .. MaxInt)
  BY ReadNumberYields
<1> HIDE DEF r
<1>3. r.d.ok /\ R = q
  <2> HIDE DEF q
  <2> QED BY <1>1
<1>4. r.d \in Decoder3 /\ r.val \in MinInt .. MaxInt
  BY <1>2, <1>3, Zenon DEF Yields
<1>5. CASE Refers(r.val)
  <2> DEFINE n == r.val \div 2
  <2>1. R = Referred(r.d, n, "AMF3Array")
    BY <1>3, <1>5, Zenon
  <2> HIDE DEF n
  <2>2. R.val[1] = "again"
    BY <1>4, <2>1, ReferredForm
  <2> QED BY <2>2, PlainForm3
<1>6. CASE ~Refers(r.val)
  <2>1. R = qa
    BY <1>3, <1>6, Zenon
  <2>2. e \in Decoder3
    BY <1>0, <1>4, EnteredSteady
  <2> HIDE DEF e
  <2>3. Yields(Decoder3, a, PairsFrom(Decoded3))
    BY <2>2, Zenon DEF InnerYields3
  <2> HIDE DEF a
  <2>4. a.d.ok /\ R = ab
    <3> HIDE DEF ab
    <3> QED BY <2>1
  <2>5. a.d \in Decoder3 /\ a.val \in PairsFrom(Decoded3)
    BY <2>3, <2>4, Zenon DEF Yields
  <2>6. ~(r.val < 0)
    <3> SUFFICES ASSUME r.val < 0 PROVE FALSE
      OBVIOUS
    <3>1. R = Failed(a.d)
      BY <2>4, Zenon
    <3>2. Failed(a.d).d.ok = FALSE
      BY <2>5, FailedSteady
    <3> QED BY <3>1, <3>2
  <2>7. R = bv
    BY <2>4, <2>6, Zenon
  <2>8. r.val \div 2 \in Nat
    <3>1. r.val \in Int
      BY <1>4
    <3> QED BY <2>6, <3>1
  <2>9. Yields(Decoder3, b, Seq(Decoded3))
    BY <2>5, <2>8, Zenon DEF InnerYields3
  <2> HIDE DEF b
  <2>10. b.d.ok /\ R = Ok(b.d, x)
    <3> HIDE DEF x
    <3> QED BY <2>7
  <2>11. b.val \in Seq(Decoded3) /\ Clean(MapOf(a.val), Decoded3)
    BY <2>5, <2>9, <2>10, MapClean DEF Yields
  <2> DEFINE f == MapOf(a.val)
             dense == b.val
  <2>12. R.val = <<"AMF3Array", [dense |-> dense, associative |-> f]>>
    <3> DEFINE w == x
    <3>1. w = <<"AMF3Array", [dense |-> dense, associative |-> f]>> /\ R = Ok(b.d, w)
      BY <2>10
    <3> HIDE DEF w, x
    <3>2. R.val = w
      BY <3>1, OkHas
    <3> QED BY <3>1, <3>2
  <2>13. dense \in Seq(Decoded3) /\ Clean(f, Decoded3)
    BY <2>11
  <2> HIDE DEF dense, f
  <2> QED BY <2>12, <2>13 DEF Form3
<1> QED
  BY <1>5, <1>6

\* An object.
LEMMA DecodeObjectForm ==
    ASSUME NEW d \in Decoder3, NEW inner, InnerYields3(inner), NEW R, R = DecodeObjectValue(inner, d),
           R.d.ok
    PROVE  Form3(R.val)
<1> DEFINE r == ReadNumber(d)
           e == Entered(r.d, "AMF3Object")
           c == ReadStringWithReference(e)
           a == inner.pairs[c.d]
           x == <<"AMF3Object", MapOf(a.val), c.val>>
           av == IF a.d.ok THEN Ok(a.d, x) ELSE a
           qc == IF c.d.ok THEN av ELSE c
           q == IF Refers(r.val) THEN Referred(r.d, r.val \div 2, "AMF3Object") ELSE qc
           y == <<>>
<1>0. y \in Seq(Byte)
  OBVIOUS
<1> HIDE DEF y
<1>1. R = (IF r.d.ok THEN q ELSE r)
  BY Zenon DEF DecodeObjectValue, Bind
<1>2. Yields(Decoder3, r, MinInt .. MaxInt)
  BY ReadNumberYields
<1> HIDE DEF r
<1>3. r.d.ok /\ R = q
  <2> HIDE DEF q
  <2> QED BY <1>1
<1>4. r.d \in Decoder3
  BY <1>2, <1>3, Zenon DEF Yields
<1>5. CASE Refers(r.val)
  <2> DEFINE n == r.val \div 2
  <2>1. R = Referred(r.d, n, "AMF3Object")
    BY <1>3, <1>5, Zenon
  <2> HIDE DEF n
  <2>2. R.val[1] = "again"
    BY <1>4, <2>1, ReferredForm
  <2> QED BY <2>2, PlainForm3
<1>6. CASE ~Refers(r.val)
  <2>1. R = qc
    BY <1>3, <1>6, Zenon
  <2>2. e \in Decoder3
    BY <1>0, <1>4, EnteredSteady
  <2>3. Yields(Decoder3, c, Seq(Byte))
    <3> HIDE DEF e
    <3> QED BY <2>2, ReadStringYields
  <2> HIDE DEF c
  <2>4. c.d.ok /\ R = av
    <3> HIDE DEF av
    <3> QED BY <2>1
  <2>5. c.d \in Decoder3
    BY <2>3, <2>4, Zenon DEF Yields
  <2>6. Yields(Decoder3, a, PairsFrom(Decoded3))
    BY <2>5, Zenon DEF InnerYields3
  <2> HIDE DEF a
  <2>7. a.d.ok /\ R = Ok(a.d, x)
    <3> HIDE DEF x
    <3> QED BY <2>4
  <2>8. a.val \in PairsFrom(Decoded3)
    BY <2>6, <2>7, Zenon DEF Yields
  <2> DEFINE f == MapOf(a.val)
             k == c.val
  <2>9. R.val = <<"AMF3Object", f, k>>
    <3> DEFINE w == x
    <3>1. w = <<"AMF3Object", f, k>> /\ R = Ok(a.d, w)
      BY <2>7
    <3> HIDE DEF w, x
    <3>2. R.val = w
      BY <3>1, OkHas
    <3> QED BY <3>1, <3>2
  <2>10. Clean(f, Decoded3)
    BY <2>8, MapClean
  <2> HIDE DEF f, k
  <2> QED BY <2>9, <2>10 DEF Form3
<1> QED
  BY <1>5, <1>6

\* By the marker.
LEMMA DecodeMarked3Form ==
    ASSUME NEW d \in Decoder3, NEW inner, InnerYields3(inner), NEW marker,
           NEW R, R = DecodeMarked3(inner, d, marker), R.d.ok
    PROVE  Form3(R.val)
<1>1. ASSUME NEW r, NEW tag \in {"AMF3Double", "AMF3String"}, R = Tagged(tag, r)
      PROVE  Form3(R.val)
  <2>1. R.val = <<tag, r.val>>
    BY <1>1, TaggedBound
  <2> QED BY <2>1, PlainForm3
<1>2. ASSUME NEW x, x[1] \in {"AMF3Undefined", "AMF3Null", "AMF3Boolean"}, R = Ok(d, x)
      PROVE  Form3(R.val)
  <2>1. R.val = x
    BY <1>2, OkHas
  <2> QED BY <1>2, <2>1, PlainForm3
<1>3. CASE marker = Undefined3
  <2> DEFINE x == <<"AMF3Undefined">>
  <2>1. R = Ok(d, x)
    BY <1>3, ByMarker3, Zenon
  <2>2. x[1] = "AMF3Undefined"
    OBVIOUS
  <2> HIDE DEF x
  <2> QED BY <1>2, <2>1, <2>2
<1>4. CASE marker = Null3
  <2> DEFINE x == <<"AMF3Null">>
  <2>1. R = Ok(d, x)
    BY <1>4, ByMarker3, Zenon
  <2>2. x[1] = "AMF3Null"
    OBVIOUS
  <2> HIDE DEF x
  <2> QED BY <1>2, <2>1, <2>2
<1>5. CASE marker = False3 \/ marker = True3
  <2> DEFINE x == <<"AMF3Boolean", FALSE>>
             z == <<"AMF3Boolean", TRUE>>
  <2>1. R = Ok(d, x) \/ R = Ok(d, z)
    BY <1>5, ByMarker3, Zenon
  <2>2. x[1] = "AMF3Boolean" /\ z[1] = "AMF3Boolean"
    OBVIOUS
  <2> HIDE DEF x, z
  <2> QED BY <1>2, <2>1, <2>2
<1>6. CASE marker = Integer3
  <2> DEFINE r == ReadNumber(d)
  <2>1. R = Tagged("AMF3Integer", r)
    BY <1>6, ByMarker3, Zenon
  <2>2. Yields(Decoder3, r, MinInt .. MaxInt)
    BY ReadNumberYields
  <2> HIDE DEF r
  <2>3. r.d.ok /\ R.val = <<"AMF3Integer", r.val>>
    BY <2>1, TaggedBound
  <2>4. r.val \in MinInt .. MaxInt
    BY <2>2, <2>3, Zenon DEF Yields
  <2> QED BY <2>3, <2>4 DEF Form3
<1>7. CASE marker = Double3
  <2>1. R = Tagged("AMF3Double", Take(d, 8))
    BY <1>7, ByMarker3, Zenon
  <2> QED BY <1>1, <2>1
<1>8. CASE marker = String3
  <2>1. R = Tagged("AMF3String", ReadStringWithReference(d))
    BY <1>8, ByMarker3, Zenon
  <2> QED BY <1>1, <2>1
<1>9. CASE marker = Date3
  <2>1. R = DecodeDateValue(d)
    BY <1>9, ByMarker3, Zenon
  <2> QED BY <2>1, DecodeDateForm
<1>10. CASE marker = Array3
  <2>1. R = DecodeArrayValue(inner, d)
    BY <1>10, ByMarker3, Zenon
  <2> QED BY <2>1, DecodeArrayForm
<1>11. CASE marker = Object3
  <2>1. R = DecodeObjectValue(inner, d)
    BY <1>11, ByMarker3, Zenon
  <2> QED BY <2>1, DecodeObjectForm
<1>12. CASE marker \notin Marked3
  <2>1. R = Failed(d)
    BY <1>12, OtherMarker3
  <2>2. Failed(d).d.ok = FALSE
    BY FailedSteady
  <2> QED BY <2>1, <2>2
<1> QED
  BY <1>3, <1>4, <1>5, <1>6, <1>7, <1>8, <1>9, <1>10, <1>11, <1>12, Zenon DEF Marked3

\* All that is read.
LEMMA Decoded3Form ==
    ASSUME NEW x \in Decoded3
    PROVE  Form3(x)
<1>1. ASSUME NEW n \in Nat, NEW d \in Decoder3, Decoding3[n].value[d].d.ok,
             x = Decoding3[n].value[d].val
      PROVE  Form3(x)
  <2> DEFINE R == Decoding3[n].value[d]
  <2>1. n # 0
    <3> SUFFICES ASSUME n = 0 PROVE FALSE
      OBVIOUS
    <3>1. R = Failed(d)
      BY Decoding3Round
    <3>2. Failed(d).d.ok = FALSE
      BY FailedSteady
    <3> QED BY <1>1, <3>1, <3>2
  <2> DEFINE inner == Decoding3[n - 1]
             r == Take(d, 1)
             q == DecodeMarked3(inner, r.d, r.val[1])
  <2>2. R = DecodeByMarker3(inner, d)
    BY <2>1, Decoding3Round
  <2>3. DecodeByMarker3(inner, d) = (IF r.d.ok THEN q ELSE r)
    BY Zenon DEF DecodeByMarker3, Bind
  <2>4. Yields(Decoder3, r, Seq(Byte))
    BY TakeYields
  <2>5. InnerYields3(inner)
    <3>1. n - 1 \in Nat
      BY <2>1
    <3> QED BY <3>1, Decoding3Yields
  <2>6. R.d.ok /\ x = R.val
    BY <1>1
  <2> HIDE DEF inner, r, R
  <2>7. r.d.ok /\ R = q
    <3> HIDE DEF q
    <3> QED BY <2>2, <2>3, <2>6
  <2>8. r.d \in Decoder3
    BY <2>4, <2>7, Zenon DEF Yields
  <2> QED
    BY <2>5, <2>6, <2>7, <2>8, DecodeMarked3Form
<1>2. PICK p \in {q \in Nat \X Decoder3 : Decoding3[q[1]].value[q[2]].d.ok} :
             x = Decoding3[p[1]].value[p[2]].val
  BY DEF Decoded3
<1>3. p[1] \in Nat /\ p[2] \in Decoder3 /\ Decoding3[p[1]].value[p[2]].d.ok
  BY <1>2
<1> QED
  BY <1>1, <1>2, <1>3

-----------------------------------------------------------------------------
(* What was sent, if what it becomes is among what is read.                *)

\* v contains no empty key, and what it contains becomes a member of S.
Kept(v, bec, S) ==
  /\ \A i \in DOMAIN PairsOf(v) : PairsOf(v)[i][1] # <<>> /\ bec[PairsOf(v)[i][2]] \in S
  /\ \A i \in DOMAIN ElementsOf(v) : bec[ElementsOf(v)[i]] \in S

\* Every pair of a map comes through, as no other has its key.
LEMMA PairsBack ==
    ASSUME NEW V, NEW S, NEW bec, NEW pairs \in Mapping(V), Clean(PairsBecome(bec, pairs), S)
    PROVE  \A i \in DOMAIN pairs : pairs[i][1] # <<>> /\ bec[pairs[i][2]] \in S
<1> DEFINE s == [i \in DOMAIN pairs |-> <<pairs[i][1], bec[pairs[i][2]]>>]
           n == Len(pairs)
<1> SUFFICES ASSUME NEW i \in DOMAIN pairs PROVE pairs[i][1] # <<>> /\ bec[pairs[i][2]] \in S
  OBVIOUS
<1>1. n \in Nat /\ DOMAIN pairs = 1 .. n
      /\ \A j, l \in DOMAIN pairs : pairs[j][1] = pairs[l][1] => j = l
  BY DEF Mapping, List
<1>2. DOMAIN s = 1 .. n /\ \A j \in 1 .. n : s[j][1] = pairs[j][1] /\ s[j][2] = bec[pairs[j][2]]
  BY <1>1
<1>3. PairsBecome(bec, pairs) = MapOf(s)
  BY Zenon DEF PairsBecome
<1> DEFINE k == pairs[i][1]
<1>4. i \in 1 .. n /\ s[i][1] = k
  BY <1>1, <1>2
<1> HIDE DEF s, n, k
<1>5. PICK l \in 1 .. n : s[l][1] = k /\ MapOf(s)[k] = s[l][2]
  BY <1>1, <1>2, <1>4, ValueOfKey
<1>6. l = i
  BY <1>1, <1>2, <1>4, <1>5
<1>7. k \in DOMAIN MapOf(s)
  BY <1>2, <1>4 DEF MapOf
<1>8. k # <<>> /\ MapOf(s)[k] \in S
  BY <1>3, <1>7, Zenon DEF Clean
<1> QED
  BY <1>2, <1>4, <1>5, <1>6, <1>8 DEF k

\* The class added to it changes nothing of that.
LEMMA ClassBack ==
    ASSUME NEW S, NEW class, NEW f, Clean(WithClass(class, f), S)
    PROVE  Clean(f, S)
<1>1. CASE ClassNameKey \in DOMAIN f
  BY <1>1, Zenon DEF WithClass
<1>2. CASE ClassNameKey \notin DOMAIN f
  <2> DEFINE x == <<"string", class>>
             g == WithProperty(f, ClassNameKey, x)
  <2>1. WithClass(class, f) = g
    BY <1>2, Zenon DEF WithClass
  <2>2. Clean(g, S)
    BY <2>1
  <2> HIDE DEF x
  <2>3. \A k \in DOMAIN f : k \in DOMAIN g /\ g[k] = f[k]
    BY <1>2 DEF WithProperty
  <2> HIDE DEF g
  <2> QED BY <2>2, <2>3, Zenon DEF Clean
<1> QED
  BY <1>1, <1>2

\* Every element of a list comes through.
LEMMA EachBack ==
    ASSUME NEW V, NEW S, NEW bec, NEW s \in List(V), EachBecomes(bec, s) \in Seq(S)
    PROVE  \A i \in DOMAIN s : bec[s[i]] \in S
<1> DEFINE t == EachBecomes(bec, s)
<1>1. DOMAIN t = DOMAIN s /\ \A i \in DOMAIN s : t[i] = bec[s[i]]
  BY DEF EachBecomes
<1>2. t \in Seq(S)
  OBVIOUS
<1> HIDE DEF t
<1>3. \A i \in DOMAIN t : t[i] \in S
  BY <1>2
<1> QED
  BY <1>1, <1>3

\* A value of each type, if what it contains is kept.
LEMMA KeptByType ==
    ASSUME NEW V, NEW S, NEW bec, NEW v, v \in Scalar \cup Container(V)
    PROVE  /\ v \in Scalar => Kept(v, bec, S)
           /\ v \in Container(V) =>
                v[1] \in {"slice", "AMF0StrictArray", "map", "AMF0Object", "AMF3Object",
                          "AMF3Array", "AMF0EcmaArray", "AMF0TypedObject"}
           /\ v \in Container(V) /\ v[1] \in {"slice", "AMF0StrictArray"}
                /\ EachBecomes(bec, v[2]) \in Seq(S) => Kept(v, bec, S)
           /\ v \in Container(V) /\ v[1] \in {"map", "AMF0Object", "AMF3Object"}
                /\ Clean(PairsBecome(bec, v[2]), S) => Kept(v, bec, S)
           /\ v \in Container(V) /\ v[1] \in {"AMF0EcmaArray", "AMF0TypedObject"}
                /\ Clean(PairsBecome(bec, v[2].properties), S) => Kept(v, bec, S)
           /\ v \in Container(V) /\ v[1] = "AMF3Array"
                /\ EachBecomes(bec, v[2].dense) \in Seq(S)
                /\ Clean(PairsBecome(bec, v[2].associative), S) => Kept(v, bec, S)
<1>0. /\ v \in Scalar => PairsOf(v) = <<>> /\ ElementsOf(v) = <<>>
      /\ v \in Container(V) => PairsOf(v) \in Mapping(V) /\ ElementsOf(v) \in List(V)
  BY Contents
<1>1. ASSUME NEW pairs, PairsOf(v) = pairs, ElementsOf(v) = <<>>, pairs \in Mapping(V),
             Clean(PairsBecome(bec, pairs), S)
      PROVE  Kept(v, bec, S)
  <2>1. \A i \in DOMAIN pairs : pairs[i][1] # <<>> /\ bec[pairs[i][2]] \in S
    BY <1>1, PairsBack
  <2> QED BY <1>1, <2>1 DEF Kept
<1>2. v \in Scalar => Kept(v, bec, S)
  BY <1>0 DEF Kept
<1>3. v \in Container(V) =>
         v[1] \in {"slice", "AMF0StrictArray", "map", "AMF0Object", "AMF3Object",
                   "AMF3Array", "AMF0EcmaArray", "AMF0TypedObject"}
  BY DEF Container
<1>4. ASSUME v \in Container(V), v[1] \in {"slice", "AMF0StrictArray"}, EachBecomes(bec, v[2]) \in Seq(S)
      PROVE  Kept(v, bec, S)
  <2> DEFINE s == v[2]
  <2>1. PairsOf(v) = <<>> /\ ElementsOf(v) = s
    BY <1>4, Zenon DEF PairsOf, ElementsOf
  <2>2. s \in List(V) /\ EachBecomes(bec, s) \in Seq(S)
    BY <1>0, <1>4, <2>1, Zenon
  <2> HIDE DEF s
  <2>3. \A i \in DOMAIN s : bec[s[i]] \in S
    BY <2>2, EachBack
  <2> QED BY <2>1, <2>3 DEF Kept
<1>5. ASSUME v \in Container(V), v[1] \in {"map", "AMF0Object", "AMF3Object"},
             Clean(PairsBecome(bec, v[2]), S)
      PROVE  Kept(v, bec, S)
  <2>1. PairsOf(v) = v[2] /\ ElementsOf(v) = <<>>
    BY <1>5, Zenon DEF PairsOf, ElementsOf
  <2>2. v[2] \in Mapping(V)
    BY <1>0, <1>5, <2>1, Zenon
  <2> QED BY <1>1, <1>5, <2>1, <2>2, Zenon
<1>6. ASSUME v \in Container(V), v[1] \in {"AMF0EcmaArray", "AMF0TypedObject"},
             Clean(PairsBecome(bec, v[2].properties), S)
      PROVE  Kept(v, bec, S)
  <2>1. PairsOf(v) = v[2].properties /\ ElementsOf(v) = <<>>
    BY <1>6, Zenon DEF PairsOf, ElementsOf
  <2>2. v[2].properties \in Mapping(V)
    BY <1>0, <1>6, <2>1, Zenon
  <2> QED BY <1>1, <1>6, <2>1, <2>2, Zenon
<1>7. ASSUME v \in Container(V), v[1] = "AMF3Array", EachBecomes(bec, v[2].dense) \in Seq(S),
             Clean(PairsBecome(bec, v[2].associative), S)
      PROVE  Kept(v, bec, S)
  <2> DEFINE s == v[2].dense
             pairs == v[2].associative
  <2>1. PairsOf(v) = pairs /\ ElementsOf(v) = s
    BY <1>7, Zenon DEF PairsOf, ElementsOf
  <2>2. pairs \in Mapping(V) /\ s \in List(V)
    BY <1>0, <1>7, <2>1, Zenon
  <2>3. EachBecomes(bec, s) \in Seq(S) /\ Clean(PairsBecome(bec, pairs), S)
    BY <1>7
  <2> HIDE DEF s, pairs
  <2>4. \A i \in DOMAIN s : bec[s[i]] \in S
    BY <2>2, <2>3, EachBack
  <2>5. \A i \in DOMAIN pairs : pairs[i][1] # <<>> /\ bec[pairs[i][2]] \in S
    BY <2>2, <2>3, PairsBack
  <2> QED BY <2>1, <2>4, <2>5, Zenon DEF Kept
<1> QED
  BY <1>2, <1>3, <1>4, <1>5, <1>6, <1>7

\* Of which no key is empty, and no integer has more than 29 bits.
Sound3 == {v \in AnyValue : <<>> \notin Keys(v) /\ (v[1] = "AMF3Integer" => v[2] \in MinInt .. MaxInt)}

\* What AMF0 reads contains what it contains.
LEMMA Form0Keeps ==
    ASSUME NEW V, NEW bec, NEW v, v \in Scalar \cup Container(V), Form0(ByType0(bec, v))
    PROVE  Kept(v, bec, Decoded0)
<1> DEFINE x == ByType0(bec, v)
<1>1. /\ v[1] \in {"slice", "AMF0StrictArray"} => x = <<"slice", EachBecomes(bec, v[2])>>
      /\ v[1] \in {"map", "AMF0Object"} => x = <<"map", PairsBecome(bec, v[2])>>
      /\ v[1] = "AMF0EcmaArray" => x = <<"map", PairsBecome(bec, v[2].properties)>>
      /\ v[1] = "AMF0TypedObject" =>
           x = <<"map", WithClass(v[2].className, PairsBecome(bec, v[2].properties))>>
  BY BecomesByType0
<1>2. v[1] \in {"AMF3Array", "AMF3Object"} => x = v
  BY Zenon DEF ByType0
<1>3. /\ x[1] \in {"float64", "bool", "string", "nil", "time", "slice", "map"}
      /\ x[1] = "slice" => x[2] \in Seq(Decoded0)
      /\ x[1] = "map" => Clean(x[2], Decoded0)
  BY Zenon DEF Form0
<1> HIDE DEF x
<1>4. CASE v \in Scalar
  BY <1>4, KeptByType
<1>5. CASE v \in Container(V)
  <2>1. CASE v[1] \in {"slice", "AMF0StrictArray"}
    <3>1. x[1] = "slice" /\ x[2] = EachBecomes(bec, v[2])
      BY <1>1, <2>1
    <3>2. EachBecomes(bec, v[2]) \in Seq(Decoded0)
      BY <1>3, <3>1
    <3> QED BY <1>5, <2>1, <3>2, KeptByType
  <2>2. CASE v[1] \in {"map", "AMF0Object"}
    <3>1. x[1] = "map" /\ x[2] = PairsBecome(bec, v[2])
      BY <1>1, <2>2
    <3>2. Clean(PairsBecome(bec, v[2]), Decoded0)
      BY <1>3, <3>1
    <3> QED BY <1>5, <2>2, <3>2, KeptByType
  <2>3. CASE v[1] = "AMF0EcmaArray"
    <3>1. x[1] = "map" /\ x[2] = PairsBecome(bec, v[2].properties)
      BY <1>1, <2>3
    <3>2. Clean(PairsBecome(bec, v[2].properties), Decoded0)
      BY <1>3, <3>1
    <3> QED BY <1>5, <2>3, <3>2, KeptByType
  <2>4. CASE v[1] = "AMF0TypedObject"
    <3>1. x[1] = "map" /\ x[2] = WithClass(v[2].className, PairsBecome(bec, v[2].properties))
      BY <1>1, <2>4
    <3>2. Clean(PairsBecome(bec, v[2].properties), Decoded0)
      BY <1>3, <3>1, ClassBack
    <3> QED BY <1>5, <2>4, <3>2, KeptByType
  <2>5. v[1] \notin {"AMF3Array", "AMF3Object"}
    BY <1>2, <1>3
  <2>6. v[1] \in {"slice", "AMF0StrictArray", "map", "AMF0Object", "AMF3Object",
                  "AMF3Array", "AMF0EcmaArray", "AMF0TypedObject"}
    BY <1>5, KeptByType
  <2> QED BY <2>1, <2>2, <2>3, <2>4, <2>5, <2>6
<1> QED
  BY <1>4, <1>5

\* What AMF3 reads contains what it contains, and its integers have 29 bits.
LEMMA Form3Keeps ==
    ASSUME NEW V, NEW bec, NEW v, v \in Scalar \cup Container(V), Form3(ByType3(bec, v))
    PROVE  Kept(v, bec, Decoded3) /\ (v[1] = "AMF3Integer" => v[2] \in MinInt .. MaxInt)
<1> DEFINE x == ByType3(bec, v)
           none == NoProperties
<1>1. /\ v[1] = "slice" => x = <<"AMF3Array", [dense |-> EachBecomes(bec, v[2]), associative |-> none]>>
      /\ v[1] \in {"map", "AMF3Object"} => x = <<"AMF3Object", PairsBecome(bec, v[2]), <<>>>>
      /\ v[1] = "AMF3Integer" => x = v
  BY BecomesByType3
<1>2. /\ v[1] = "AMF3Array" =>
           x = <<"AMF3Array", [dense |-> EachBecomes(bec, v[2].dense),
                               associative |-> PairsBecome(bec, v[2].associative)]>>
      /\ v[1] \in {"AMF0StrictArray", "AMF0Object", "AMF0EcmaArray", "AMF0TypedObject"} => x = v
  BY Zenon DEF ByType3
<1>3. /\ x[1] \in {"AMF3Undefined", "AMF3Null", "AMF3Boolean", "AMF3Integer", "AMF3Double",
                   "AMF3String", "AMF3Date", "AMF3Array", "AMF3Object", "again"}
      /\ x[1] = "AMF3Integer" => x[2] \in MinInt .. MaxInt
      /\ x[1] = "AMF3Array" => x[2].dense \in Seq(Decoded3) /\ Clean(x[2].associative, Decoded3)
      /\ x[1] = "AMF3Object" => Clean(x[2], Decoded3)
  BY Zenon DEF Form3
<1> HIDE DEF x, none
<1>4. v[1] = "AMF3Integer" => v[2] \in MinInt .. MaxInt
  BY <1>1, <1>3, Zenon
<1>5. CASE v \in Scalar
  BY <1>4, <1>5, KeptByType
<1>6. CASE v \in Container(V)
  <2>1. CASE v[1] = "slice"
    <3>1. x[1] = "AMF3Array" /\ x[2].dense = EachBecomes(bec, v[2])
      BY <1>1, <2>1
    <3>2. EachBecomes(bec, v[2]) \in Seq(Decoded3)
      BY <1>3, <3>1
    <3> QED BY <1>4, <1>6, <2>1, <3>2, KeptByType
  <2>2. CASE v[1] \in {"map", "AMF3Object"}
    <3>1. x[1] = "AMF3Object" /\ x[2] = PairsBecome(bec, v[2])
      BY <1>1, <2>2
    <3>2. Clean(PairsBecome(bec, v[2]), Decoded3)
      BY <1>3, <3>1
    <3> QED BY <1>4, <1>6, <2>2, <3>2, KeptByType
  <2>3. CASE v[1] = "AMF3Array"
    <3>1. /\ x[1] = "AMF3Array" /\ x[2].dense = EachBecomes(bec, v[2].dense)
          /\ x[2].associative = PairsBecome(bec, v[2].associative)
      BY <1>2, <2>3
    <3>2. /\ EachBecomes(bec, v[2].dense) \in Seq(Decoded3)
          /\ Clean(PairsBecome(bec, v[2].associative), Decoded3)
      BY <1>3, <3>1
    <3> QED BY <1>4, <1>6, <2>3, <3>2, KeptByType
  <2>4. v[1] \notin {"AMF0StrictArray", "AMF0Object", "AMF0EcmaArray", "AMF0TypedObject"}
    BY <1>2, <1>3
  <2>5. v[1] \in {"slice", "AMF0StrictArray", "map", "AMF0Object", "AMF3Object",
                  "AMF3Array", "AMF0EcmaArray", "AMF0TypedObject"}
    BY <1>6, KeptByType
  <2> QED BY <2>1, <2>2, <2>3, <2>4, <2>5
<1> QED
  BY <1>5, <1>6

\* A kept value is sound, and so is all in it if what it contains is.
LEMMA KeptSound ==
    ASSUME NEW n \in Nat, NEW v \in Value[n], NEW bec, NEW S, Kept(v, bec, S),
           NEW T, \A w \in Within(n) : bec[w] \in S => AllIn(Inside(Visit, n)[w], T)
    PROVE  <<>> \notin Keys(v) /\ (v \in T => AllIn(Visit[n][v], T))
<1> DEFINE pairs == PairsOf(v)
           elements == ElementsOf(v)
           vis == Inside(Visit, n)
           W == Within(n)
<1>1. pairs \in List(GoString \X W) /\ elements \in List(W)
  BY WithinIs
<1>2. AllIn(Visit[n][v], T) <=>
        v \in T /\ (\A i \in DOMAIN pairs : AllIn(vis[pairs[i][2]], T))
                /\ (\A i \in DOMAIN elements : AllIn(vis[elements[i]], T))
  BY VisitHas
<1>3. /\ \A i \in DOMAIN pairs : pairs[i][1] # <<>> /\ bec[pairs[i][2]] \in S
      /\ \A i \in DOMAIN elements : bec[elements[i]] \in S
  BY Zenon DEF Kept
<1>4. <<>> \notin Keys(v)
  BY <1>3 DEF Keys
<1>5. \A w \in W : bec[w] \in S => AllIn(vis[w], T)
  OBVIOUS
<1> HIDE DEF pairs, elements, vis, W
<1>6. \A i \in DOMAIN pairs : pairs[i][2] \in W
  <2>1. DOMAIN pairs = 1 .. Len(pairs) /\ \A i \in 1 .. Len(pairs) : pairs[i] \in GoString \X W
    BY <1>1, ListHas
  <2>2. \A i \in DOMAIN pairs : pairs[i] \in GoString \X W
    BY <2>1
  <2> QED BY <2>2
<1>7. \A i \in DOMAIN elements : elements[i] \in W
  <2>1. DOMAIN elements = 1 .. Len(elements) /\ \A i \in 1 .. Len(elements) : elements[i] \in W
    BY <1>1, ListHas
  <2> QED BY <2>1
<1>8. v \in T => AllIn(Visit[n][v], T)
  BY <1>2, <1>3, <1>5, <1>6, <1>7, Zenon
<1> QED
  BY <1>4, <1>8

\* What a value becomes, from what the values in it become.
LEMMA BecomesWithin ==
    ASSUME NEW n \in Nat, NEW v \in Value[n]
    PROVE  /\ Becomes0[n][v] = ByType0(Inside(Becomes0, n), v)
           /\ Becomes3[n][v] = ByType3(Inside(Becomes3, n), v)
<1>1. Becomes0[n][v] = ByType0(Inside(Becomes0, n), v)
  <2>1. Becomes0[n] = BecomeStep0(n, Inside(Becomes0, n))
    BY Becomes0Is, Zenon
  <2> DEFINE bec == Inside(Becomes0, n)
  <2> HIDE DEF bec
  <2> QED BY <2>1, Zenon DEF BecomeStep0, bec
<1>2. Becomes3[n][v] = ByType3(Inside(Becomes3, n), v)
  <2>1. Becomes3[n] = BecomeStep3(n, Inside(Becomes3, n))
    BY Becomes3Is, Zenon
  <2> DEFINE bec == Inside(Becomes3, n)
  <2> HIDE DEF bec
  <2> QED BY <2>1, Zenon DEF BecomeStep3, bec
<1> QED
  BY <1>1, <1>2

\* Every key in a value that becomes something AMF0 reads is a key of it.
LEMMA ReadMeansNamed ==
    \A n \in Nat : \A v \in Value[n] : Becomes0[n][v] \in Decoded0 => AllIn(Visit[n][v], Named)
<1> DEFINE Holds(n, v) == Becomes0[n][v] \in Decoded0 => AllIn(Visit[n][v], Named)
           T == {n \in Nat : \A v \in Value[n] : Holds(n, v)}
<1>1. ASSUME NEW n \in Nat, n = 0 \/ n - 1 \in T PROVE n \in T
  <2> SUFFICES ASSUME NEW v \in Value[n], Becomes0[n][v] \in Decoded0
               PROVE  AllIn(Visit[n][v], Named)
    OBVIOUS
  <2> DEFINE bec == Inside(Becomes0, n)
  <2>1. \A w \in Within(n) : bec[w] \in Decoded0 => AllIn(Inside(Visit, n)[w], Named)
    <3>1. CASE n = 0
      BY <3>1 DEF Within
    <3>2. CASE n # 0
      <4>1. Within(n) = Value[n - 1] /\ bec = Becomes0[n - 1] /\ Inside(Visit, n) = Visit[n - 1]
        BY <3>2 DEF Within, Inside
      <4>2. \A w \in Value[n - 1] : Holds(n - 1, w)
        BY <1>1, <3>2
      <4> HIDE DEF bec
      <4> QED BY <4>1, <4>2
    <3> QED BY <3>1, <3>2
  <2>2. Form0(ByType0(bec, v))
    <3>1. Becomes0[n][v] = ByType0(bec, v)
      BY BecomesWithin
    <3> HIDE DEF bec
    <3> QED BY <3>1, Decoded0Form
  <2>3. v \in Scalar \cup Container(Within(n)) /\ v \in AnyValue
    BY WithinIs
  <2> HIDE DEF bec, T
  <2>4. Kept(v, bec, Decoded0)
    BY <2>2, <2>3, Form0Keeps
  <2>5. <<>> \notin Keys(v) /\ (v \in Named => AllIn(Visit[n][v], Named))
    BY <2>1, <2>4, KeptSound
  <2> QED BY <2>3, <2>5 DEF Named
<1>2. 0 \in T
  BY <1>1
<1>3. ASSUME NEW n \in Nat, n \in T PROVE n + 1 \in T
  <2>1. n + 1 \in Nat /\ (n + 1) - 1 = n
    OBVIOUS
  <2> HIDE DEF T
  <2> QED BY <1>1, <1>3, <2>1
<1>4. Nat \subseteq T
  <2> HIDE DEF T
  <2> QED BY <1>2, <1>3, SetInduction
<1> QED
  BY <1>4

\* In AMF3, moreover, every integer in it has 29 bits at most.
LEMMA ReadMeansSound ==
    \A n \in Nat : \A v \in Value[n] : Becomes3[n][v] \in Decoded3 => AllIn(Visit[n][v], Sound3)
<1> DEFINE Holds(n, v) == Becomes3[n][v] \in Decoded3 => AllIn(Visit[n][v], Sound3)
           T == {n \in Nat : \A v \in Value[n] : Holds(n, v)}
<1>1. ASSUME NEW n \in Nat, n = 0 \/ n - 1 \in T PROVE n \in T
  <2> SUFFICES ASSUME NEW v \in Value[n], Becomes3[n][v] \in Decoded3
               PROVE  AllIn(Visit[n][v], Sound3)
    OBVIOUS
  <2> DEFINE bec == Inside(Becomes3, n)
  <2>1. \A w \in Within(n) : bec[w] \in Decoded3 => AllIn(Inside(Visit, n)[w], Sound3)
    <3>1. CASE n = 0
      BY <3>1 DEF Within
    <3>2. CASE n # 0
      <4>1. Within(n) = Value[n - 1] /\ bec = Becomes3[n - 1] /\ Inside(Visit, n) = Visit[n - 1]
        BY <3>2 DEF Within, Inside
      <4>2. \A w \in Value[n - 1] : Holds(n - 1, w)
        BY <1>1, <3>2
      <4> HIDE DEF bec
      <4> QED BY <4>1, <4>2
    <3> QED BY <3>1, <3>2
  <2>2. Form3(ByType3(bec, v))
    <3>1. Becomes3[n][v] = ByType3(bec, v)
      BY BecomesWithin
    <3> HIDE DEF bec
    <3> QED BY <3>1, Decoded3Form
  <2>3. v \in Scalar \cup Container(Within(n)) /\ v \in AnyValue
    BY WithinIs
  <2> HIDE DEF bec, T
  <2>4. Kept(v, bec, Decoded3) /\ (v[1] = "AMF3Integer" => v[2] \in MinInt .. MaxInt)
    BY <2>2, <2>3, Form3Keeps
  <2>5. <<>> \notin Keys(v) /\ (v \in Sound3 => AllIn(Visit[n][v], Sound3))
    BY <2>1, <2>4, KeptSound
  <2>6. v \in Sound3
    BY <2>3, <2>4, <2>5, Zenon DEF Sound3
  <2> QED BY <2>5, <2>6
<1>2. 0 \in T
  BY <1>1
<1>3. ASSUME NEW n \in Nat, n \in T PROVE n + 1 \in T
  <2>1. n + 1 \in Nat /\ (n + 1) - 1 = n
    OBVIOUS
  <2> HIDE DEF T
  <2> QED BY <1>1, <1>3, <2>1
<1>4. Nat \subseteq T
  <2> HIDE DEF T
  <2> QED BY <1>2, <1>3, SetInduction
<1> QED
  BY <1>4

\* The index of an element has a digit.
LEMMA DecimalHas ==
    ASSUME NEW n
    PROVE  Decimal(n) # <<>>
<1> DEFINE P(k) == 10 ^ k <= n
           Q == {k \in 1 .. 7 : P(k)}
           more == Cardinality(Q)
           digit(i) == 48 + ((n \div 10 ^ (more + 1 - i)) % 10)
           d == [i \in 1 .. more + 1 |-> digit(i)]
<1>1. more \in Nat
  <2> HIDE DEF P
  <2>1. \A a, b \in Int : IsFiniteSet(a .. b)
    BY FS_Interval, Zenon
  <2>2. IsFiniteSet(1 .. 7)
    <3>1. 1 \in Int /\ 7 \in Int
      OBVIOUS
    <3> QED BY <2>1, <3>1, Zenon
  <2>3. IsFiniteSet(Q)
    BY <2>2, FS_Subset
  <2> HIDE DEF Q
  <2> QED BY <2>3, FS_CardinalityType
<1>2. Decimal(n) = d
  BY Zenon DEF Decimal
<1>3. DOMAIN d # {}
  <2> HIDE DEF digit, more
  <2>1. 1 \in DOMAIN d
    BY <1>1
  <2> QED BY <2>1
<1> HIDE DEF d
<1> QED
  BY <1>2, <1>3

\* The Go value of what AMF3 reads: keys, elements and integers are as they were.
GoForm(g) ==
  /\ g[1] = "int" => g[2] \in MinInt .. MaxInt
  /\ g[1] = "slice" => g[2] \in Seq(Decoded3)
  /\ g[1] = "map" => Clean(g[2], Decoded3)

\* An array becomes a list or a map.
LEMMA ArrayToGoForm ==
    ASSUME NEW dense \in Seq(Decoded3), NEW f, Clean(f, Decoded3)
    PROVE  GoForm(ArrayToGo(dense, f))
<1> DEFINE S == Decoded3
           key(i) == Decimal(i - 1)
           s == [i \in DOMAIN dense |-> <<key(i), dense[i]>>]
           n == Len(dense)
           h == MapOf(s)
           g == [k \in DOMAIN f \cup DOMAIN h |-> IF k \in DOMAIN h THEN h[k] ELSE f[k]]
<1>1. ArrayToGo(dense, f) = <<"slice", dense>> \/ ArrayToGo(dense, f) = <<"map", g>>
  BY Zenon DEF ArrayToGo
<1>2. Clean(h, S)
  <2> SUFFICES ASSUME NEW k \in DOMAIN h PROVE k # <<>> /\ h[k] \in S
    BY DEF Clean
  <2>1. n \in Nat /\ DOMAIN dense = 1 .. n /\ \A i \in 1 .. n : dense[i] \in S
    OBVIOUS
  <2>2. \A i \in 1 .. n : key(i) # <<>>
    BY DecimalHas
  <2> HIDE DEF key, n, S
  <2>3. DOMAIN s = 1 .. n /\ \A i \in 1 .. n : s[i][1] = key(i) /\ s[i][2] = dense[i]
    BY <2>1
  <2> HIDE DEF s
  <2>4. PICK i \in 1 .. n : s[i][1] = k
    BY <2>3 DEF MapOf
  <2>5. PICK l \in 1 .. n : s[l][1] = k /\ h[k] = s[l][2]
    BY <2>1, <2>3, <2>4, ValueOfKey
  <2> QED BY <2>1, <2>2, <2>3, <2>5
<1> HIDE DEF h, S
<1>3. Clean(g, S)
  <2>1. DOMAIN g = DOMAIN f \cup DOMAIN h
        /\ \A k \in DOMAIN g : g[k] = IF k \in DOMAIN h THEN h[k] ELSE f[k]
    OBVIOUS
  <2>2. Clean(f, S)
    BY DEF S
  <2> HIDE DEF g
  <2> QED BY <1>2, <2>1, <2>2 DEF Clean
<1> HIDE DEF g
<1>4. ASSUME NEW x, x = <<"slice", dense>> PROVE GoForm(x)
  <2>1. x[1] = "slice" /\ x[2] = dense
    BY <1>4
  <2> QED BY <2>1 DEF GoForm
<1>5. ASSUME NEW x, x = <<"map", g>> PROVE GoForm(x)
  <2>1. x[1] = "map" /\ x[2] = g
    BY <1>5
  <2> QED BY <1>3, <2>1 DEF GoForm, S
<1> QED
  BY <1>1, <1>4, <1>5

\* What is read has that form.
LEMMA ToGoForm ==
    ASSUME NEW y \in Decoded3
    PROVE  GoForm(ToGo3(y))
<1> DEFINE g == ToGo3(y)
<1>1. /\ y[1] \in {"AMF3Undefined", "AMF3Null", "AMF3Boolean", "AMF3Integer", "AMF3Double",
                   "AMF3String", "AMF3Date", "AMF3Array", "AMF3Object", "again"}
      /\ y[1] = "AMF3Integer" => y[2] \in MinInt .. MaxInt
      /\ y[1] = "AMF3Array" => y[2].dense \in Seq(Decoded3) /\ Clean(y[2].associative, Decoded3)
      /\ y[1] = "AMF3Object" => Clean(y[2], Decoded3)
  <2>1. Form3(y)
    BY Decoded3Form
  <2> QED BY <2>1, Zenon DEF Form3
<1>2. /\ y[1] \in {"AMF3Undefined", "AMF3Null"} => g = <<"nil">>
      /\ y[1] = "AMF3Boolean" => g = <<"bool", y[2]>>
      /\ y[1] = "AMF3Integer" => g = <<"int", y[2]>>
      /\ y[1] = "AMF3Double" => g = <<"float64", y[2]>>
      /\ y[1] = "AMF3String" => g = <<"string", y[2]>>
      /\ y[1] = "AMF3Date" => g = <<"time", y[2]>>
      /\ y[1] = "AMF3Array" => g = ArrayToGo(y[2].dense, y[2].associative)
      /\ y[1] = "AMF3Object" => g = <<"map", y[2]>>
  BY ToGoByType3
<1>3. y[1] = "again" => g = y
  BY Zenon DEF ToGo3
<1> HIDE DEF g
<1>4. CASE y[1] = "AMF3Integer"
  <2>1. g[1] = "int" /\ g[2] \in MinInt .. MaxInt
    <3>1. g[1] = "int" /\ g[2] = y[2]
      BY <1>2, <1>4
    <3>2. y[2] \in MinInt .. MaxInt
      BY <1>1, <1>4
    <3> QED BY <3>1, <3>2, Zenon
  <2>2. g[1] # "slice" /\ g[1] # "map"
    BY <2>1
  <2> QED BY <2>1, <2>2, Zenon DEF GoForm, g
<1>5. CASE y[1] = "AMF3Array"
  BY <1>1, <1>2, <1>5, ArrayToGoForm, Zenon DEF g
<1>6. CASE y[1] = "AMF3Object"
  <2>1. g[1] = "map" /\ g[2] = y[2]
    BY <1>2, <1>6
  <2>2. g[1] # "slice" /\ g[1] # "int"
    BY <2>1
  <2> QED BY <1>1, <1>6, <2>1, <2>2, Zenon DEF GoForm, g
<1>7. CASE y[1] \in {"AMF3Undefined", "AMF3Null", "AMF3Boolean", "AMF3Double", "AMF3String",
                     "AMF3Date", "again"}
  <2>1. g[1] \in {"nil", "bool", "float64", "string", "time", "again"}
    BY <1>2, <1>3, <1>7
  <2>2. g[1] # "slice" /\ g[1] # "int" /\ g[1] # "map"
    BY <2>1
  <2> QED BY <2>2, Zenon DEF GoForm, g
<1> QED
  BY <1>1, <1>4, <1>5, <1>6, <1>7

\* A value of a command that becomes something Decode gives is sound, and all in it.
LEMMA GivenMeansSound ==
    ASSUME NEW v \in Value[Nesting], v[1] \in Tags3, v[1] \notin {"AMF3Array", "AMF3Date"},
           NEW y \in Decoded3, Becomes(3, v) = ToGo3(y)
    PROVE  AllIn(Visit[Nesting][v], Sound3)
<1> DEFINE bec == Inside(Becomes3, Nesting)
           x == ByType3(bec, v)
           g == ToGo3(x)
           none == NoProperties
<1>0. Nesting \in Nat
  BY NestingAssumption
<1>1. /\ g[1] = "int" => g[2] \in MinInt .. MaxInt
      /\ g[1] = "slice" => g[2] \in Seq(Decoded3)
      /\ g[1] = "map" => Clean(g[2], Decoded3)
  <2>1. g = ToGo3(y)
    BY BecomesSteps, Zenon
  <2> HIDE DEF g
  <2>2. GoForm(g)
    BY <2>1, ToGoForm
  <2> QED BY <2>2, Zenon DEF GoForm
<1>2. /\ v[1] = "slice" => x = <<"AMF3Array", [dense |-> EachBecomes(bec, v[2]), associative |-> none]>>
      /\ v[1] \in {"map", "AMF3Object"} => x = <<"AMF3Object", PairsBecome(bec, v[2]), <<>>>>
      /\ v[1] = "AMF3Integer" => x = v
  BY BecomesByType3
<1>3. v \in Scalar \cup Container(Within(Nesting)) /\ v \in AnyValue
  BY <1>0, WithinIs
<1>4. \A w \in Within(Nesting) : bec[w] \in Decoded3 => AllIn(Inside(Visit, Nesting)[w], Sound3)
  <2>1. /\ Within(Nesting) = Value[Nesting - 1] /\ bec = Becomes3[Nesting - 1]
        /\ Inside(Visit, Nesting) = Visit[Nesting - 1] /\ Nesting - 1 \in Nat
    BY NestingAssumption DEF Within, Inside
  <2> HIDE DEF bec
  <2> QED BY <2>1, ReadMeansSound
<1> HIDE DEF bec, x, none
<1>5. /\ x[1] = "AMF3Integer" => g = <<"int", x[2]>>
      /\ x[1] = "AMF3Array" => g = ArrayToGo(x[2].dense, x[2].associative)
      /\ x[1] = "AMF3Object" => g = <<"map", x[2]>>
  BY ToGoByType3
<1> HIDE DEF g
<1>6. v[1] = "AMF3Integer" => v[2] \in MinInt .. MaxInt
  <2> SUFFICES ASSUME v[1] = "AMF3Integer" PROVE v[2] \in MinInt .. MaxInt
    OBVIOUS
  <2>1. g = <<"int", v[2]>>
    BY <1>2, <1>5, Zenon
  <2>2. g[1] = "int" /\ g[2] = v[2]
    BY <2>1
  <2> QED BY <1>1, <2>2, Zenon
<1>7. Kept(v, bec, Decoded3)
  <2>1. CASE v \in Scalar
    BY <2>1, <1>3, KeptByType
  <2>2. CASE v \in Container(Within(Nesting))
    <3>1. CASE v[1] = "slice"
      <4> DEFINE d == EachBecomes(bec, v[2])
      <4>1. x[1] = "AMF3Array" /\ x[2].dense = d /\ x[2].associative = none
        <5> HIDE DEF d
        <5>1. x = <<"AMF3Array", [dense |-> d, associative |-> none]>>
          BY <1>2, <3>1, Zenon DEF d
        <5> QED BY <5>1
      <4>2. g = ArrayToGo(d, none)
        BY <1>5, <4>1, Zenon
      <4>3. g = <<"slice", d>>
        BY <4>2, Zenon DEF ArrayToGo, none
      <4> HIDE DEF d
      <4>4. g[1] = "slice" /\ g[2] = d
        BY <4>3
      <4>5. d \in Seq(Decoded3)
        BY <1>1, <4>4
      <4> QED BY <1>3, <2>2, <3>1, <4>5, KeptByType DEF d
    <3>2. CASE v[1] \in {"map", "AMF3Object"}
      <4> DEFINE f == PairsBecome(bec, v[2])
      <4>1. x[1] = "AMF3Object" /\ x[2] = f
        BY <1>2, <3>2
      <4>2. g = <<"map", f>>
        BY <1>5, <4>1, Zenon
      <4> HIDE DEF f
      <4>3. g[1] = "map" /\ g[2] = f
        BY <4>2
      <4>4. Clean(f, Decoded3)
        BY <1>1, <4>3
      <4> QED BY <1>3, <2>2, <3>2, <4>4, KeptByType DEF f
    <3>3. v[1] \in {"slice", "map", "AMF3Object"}
      <4>1. v[1] \in {"slice", "AMF0StrictArray", "map", "AMF0Object", "AMF3Object",
                      "AMF3Array", "AMF0EcmaArray", "AMF0TypedObject"}
        BY <1>3, <2>2, KeptByType
      <4>2. v[1] \notin {"AMF0StrictArray", "AMF0Object", "AMF0EcmaArray", "AMF0TypedObject"}
        BY DEF Tags3, GoTags
      <4> QED BY <4>1, <4>2
    <3> QED BY <3>1, <3>2, <3>3
  <2> QED BY <1>3, <2>1, <2>2
<1>8. <<>> \notin Keys(v) /\ (v \in Sound3 => AllIn(Visit[Nesting][v], Sound3))
  BY <1>0, <1>4, <1>7, KeptSound
<1>9. v \in Sound3
  BY <1>3, <1>6, <1>8, Zenon DEF Sound3
<1> QED
  BY <1>8, <1>9

-----------------------------------------------------------------------------
(* Commands.                                                               *)

\* All that Decode gives, whatever the bytes.
Given(encoding) == IF encoding = 3 THEN {ToGo3(y) : y \in Decoded3} ELSE Decoded0

\* A command's values are among them.
LEMMA DecodeYields ==
    ASSUME NEW encoding \in Encodings, NEW d \in Decoder(encoding)
    PROVE  Yields(Decoder(encoding), Decode(encoding, d), Given(encoding))
<1>1. Len(d.in) \in Nat
  BY DecoderHas
<1> DEFINE n == Len(d.in) + 1
<1>2. n \in Nat
  BY <1>1
<1>3. CASE encoding = 3
  <2> DEFINE r == Decoding3[n].value[d]
             q == Ok(r.d, ToGo3(r.val))
  <2>1. Decoder(encoding) = Decoder3 /\ Given(encoding) = {ToGo3(y) : y \in Decoded3}
    BY <1>3 DEF Decoder, Given
  <2>2. Yields(Decoder3, r, Decoded3)
    <3>1. d \in Decoder3
      BY <2>1
    <3> HIDE DEF n
    <3>2. InnerYields3(Decoding3[n])
      BY <1>2, Decoding3Yields
    <3> QED BY <3>1, <3>2, Zenon DEF InnerYields3
  <2>3. Decode(encoding, d) = IF r.d.ok THEN q ELSE r
    <3>1. Decode(encoding, d) = Decode3(d)
      BY <1>3, Zenon DEF Decode
    <3>2. DecodeAMF3Value(d) = r
      BY DEF DecodeAMF3Value
    <3> HIDE DEF r
    <3> QED BY <3>1, <3>2, Zenon DEF Decode3, Bind
  <2> HIDE DEF r
  <2>4. r.d.ok => Yields(Decoder3, q, {ToGo3(y) : y \in Decoded3})
    <3> SUFFICES ASSUME r.d.ok PROVE Yields(Decoder3, q, {ToGo3(y) : y \in Decoded3})
      OBVIOUS
    <3>1. r.d \in Decoder3 /\ ToGo3(r.val) \in {ToGo3(y) : y \in Decoded3}
      BY <2>2 DEF Yields
    <3> QED BY <3>1, OkYields
  <2>5. CASE r.d.ok
    BY <2>1, <2>3, <2>4, <2>5, Zenon
  <2>6. CASE ~r.d.ok
    BY <2>3, <2>6, Zenon DEF Yields
  <2> QED BY <2>5, <2>6
<1>4. CASE encoding # 3
  <2> DEFINE r == Decoding0[n].value[d]
  <2>1. Decoder(encoding) = Decoder0 /\ Given(encoding) = Decoded0
    BY <1>4 DEF Decoder, Given
  <2>2. Yields(Decoder0, r, Decoded0)
    <3>1. d \in Decoder0
      BY <2>1
    <3> HIDE DEF n
    <3>2. InnerYields0(Decoding0[n])
      BY <1>2, Decoding0Yields
    <3> QED BY <3>1, <3>2, Zenon DEF InnerYields0
  <2>3. Decode(encoding, d) = r
    <3>1. Decode(encoding, d) = Decode0(d)
      BY <1>4, Zenon DEF Decode
    <3> QED BY <3>1, Zenon DEF Decode0
  <2> QED BY <2>1, <2>2, <2>3, Zenon
<1> QED
  BY <1>3, <1>4

\* So are its arguments.
LEMMA ArgumentsGiven ==
    ASSUME NEW encoding \in Encodings
    PROVE  \A n \in Nat : \A d \in Decoder(encoding) : Arguments[n][encoding][d] \in Seq(Given(encoding))
<1> DEFINE S == Given(encoding)
           T == {n \in Nat : \A d \in Decoder(encoding) : Arguments[n][encoding][d] \in Seq(S)}
<1>1. 0 \in T
  <2>1. \A d \in Decoder(encoding) : Arguments[0][encoding][d] = <<>>
    BY ArgumentsSteps
  <2> HIDE DEF S
  <2>2. <<>> \in Seq(S)
    OBVIOUS
  <2> QED BY <2>1, <2>2
<1>2. ASSUME NEW n \in Nat, n \in T PROVE n + 1 \in T
  <2> SUFFICES ASSUME NEW d \in Decoder(encoding) PROVE Arguments[n + 1][encoding][d] \in Seq(S)
    OBVIOUS
  <2> DEFINE m == n + 1
             next == Arguments[n][encoding]
             r == Decode(encoding, d)
             rest == next[r.d]
  <2>1. m \in Nat /\ m # 0 /\ m - 1 = n
    OBVIOUS
  <2>2. Arguments[m][encoding][d] = ArgumentsFrom(next, encoding, d)
    <3> HIDE DEF m
    <3> QED BY <2>1, ArgumentsSteps
  <2>3. ArgumentsFrom(next, encoding, d) = IF r.d.ok THEN <<r.val>> \o rest ELSE <<>>
    BY Zenon DEF ArgumentsFrom
  <2>4. Yields(Decoder(encoding), r, S)
    BY DecodeYields
  <2>5. \A e \in Decoder(encoding) : next[e] \in Seq(S)
    BY <1>2
  <2> HIDE DEF m, next, r, S, T
  <2>6. CASE r.d.ok
    <3>1. r.val \in S /\ r.d \in Decoder(encoding)
      BY <2>4, <2>6, Zenon DEF Yields
    <3>2. rest \in Seq(S)
      BY <2>5, <3>1
    <3> HIDE DEF rest
    <3>3. <<r.val>> \o rest \in Seq(S)
      BY <3>1, <3>2, OneInFront
    <3> QED BY <2>2, <2>3, <2>6, <3>3, Zenon DEF m
  <2>7. CASE ~r.d.ok
    <3>1. <<>> \in Seq(S)
      OBVIOUS
    <3> QED BY <2>2, <2>3, <2>7, <3>1, Zenon DEF m
  <2> QED BY <2>6, <2>7
<1>3. Nat \subseteq T
  <2> HIDE DEF T
  <2> QED BY <1>1, <1>2, SetInduction
<1> QED
  BY <1>3

\* What ParseCommand makes of any bytes, if it is not refused.
LEMMA ParsedGiven ==
    ASSUME NEW encoding \in Encodings, NEW data \in Seq(Byte), NEW c, c = ParseCommand(encoding, data),
           c # Refused
    PROVE  c.commandObj \in Given(encoding) /\ c.args \in Seq(Given(encoding))
<1> DEFINE D == Decoder(encoding)
           S == Given(encoding)
           start == NewDecoder(encoding, data)
           one == Decode(encoding, start)
           two == Decode(encoding, one.d)
           three == Decode(encoding, two.d)
           values == <<one.val, two.val, three.val>>
           head == ReadHead(encoding, data)
           args == AdditionalArgs(encoding, head.d)
<1>1. start \in D
  <2>1. CASE encoding = 3
    <3>1. start = NewAMF3Decoder(data) /\ D = Decoder3
      BY <2>1 DEF NewDecoder, Decoder
    <3>2. NewAMF3Decoder(data) \in Decoder3
      BY DEF NewAMF3Decoder, Decoder3
    <3> QED BY <3>1, <3>2
  <2>2. CASE encoding # 3
    <3>1. start = NewAMF0Decoder(data) /\ D = Decoder0
      BY <2>2 DEF NewDecoder, Decoder
    <3>2. NewAMF0Decoder(data) \in Decoder0
      BY DEF NewAMF0Decoder, Decoder0
    <3> QED BY <3>1, <3>2
  <2> QED BY <2>1, <2>2
<1>2. /\ Yields(D, one, S)
      /\ one.d \in D => Yields(D, two, S)
      /\ two.d \in D => Yields(D, three, S)
  <2> HIDE DEF start
  <2>1. Yields(D, one, S)
    BY <1>1, DecodeYields
  <2>2. one.d \in D => Yields(D, two, S)
    <3> HIDE DEF one
    <3> QED BY DecodeYields
  <2>3. two.d \in D => Yields(D, three, S)
    <3> HIDE DEF two
    <3> QED BY DecodeYields
  <2> QED BY <2>1, <2>2, <2>3, Zenon
<1>3. /\ ~one.d.ok => head = one
      /\ one.d.ok /\ ~two.d.ok => head = two
      /\ one.d.ok /\ two.d.ok /\ ~three.d.ok => head = three
      /\ one.d.ok /\ two.d.ok /\ three.d.ok => head = Ok(three.d, values)
  BY Zenon DEF ReadHead, Bind
<1>4. /\ ~head.d.ok => c = Refused
      /\ c = Refused \/ c = Command(head.val[1][2], head.val[2][2], head.val[3], args)
  <2>1. c = CommandOf(encoding, head)
    BY DEF ParseCommand
  <2> HIDE DEF head, args
  <2>2. CommandOf(encoding, head)
          = IF ~head.d.ok THEN Refused
            ELSE IF head.val[1][1] # "string" \/ head.val[2][1] # "float64" THEN Refused
            ELSE Command(head.val[1][2], head.val[2][2], head.val[3], args)
    BY Zenon DEF CommandOf, args
  <2> QED BY <2>1, <2>2, Zenon
<1>5. values[3] = three.val
  OBVIOUS
<1> HIDE DEF start, one, two, three, values, head, D, S
<1>6. one.d.ok /\ two.d.ok /\ three.d.ok
  BY <1>3, <1>4, Zenon
<1>7. head = Ok(three.d, values)
  BY <1>3, <1>6, Zenon
<1>8. head.d = three.d /\ head.val = values
  BY <1>7, OkHas, Zenon
<1>9. three.d \in D /\ three.val \in S
  BY <1>2, <1>6, Zenon DEF Yields
<1>10. args \in Seq(S)
  <2>1. head.d \in D /\ head.d \in Decoder(encoding)
    BY <1>8, <1>9 DEF D
  <2>2. Len(head.d.in) \in Nat
    BY <2>1, DecoderHas
  <2>3. args = Arguments[Len(head.d.in)][encoding][head.d]
    BY Zenon DEF AdditionalArgs
  <2> HIDE DEF args
  <2> QED BY <2>1, <2>2, <2>3, ArgumentsGiven DEF S
<1> HIDE DEF args
<1>11. c.commandObj = head.val[3] /\ c.args = args
  <2>1. c = Command(head.val[1][2], head.val[2][2], head.val[3], args)
    BY <1>4, Zenon
  <2> QED BY <2>1 DEF Command
<1>12. c.commandObj \in S /\ c.args \in Seq(S)
  <2>1. head.val[3] = three.val
    BY <1>5, <1>8, Zenon
  <2> QED BY <1>9, <1>10, <1>11, <2>1, Zenon
<1> QED
  BY <1>12 DEF S

\* What is in a command is what is in its object and its arguments.
LEMMA AllInCommand ==
    ASSUME NEW c \in CommandSet, NEW T
    PROVE  AllIn(VisitCommand(c), T) <=>
             /\ AllIn(Visit[Nesting][c.commandObj], T)
             /\ \A i \in DOMAIN c.args : AllIn(Visit[Nesting][c.args[i]], T)
<1> DEFINE a == Visit[Nesting][c.commandObj]
           tail == [i \in DOMAIN c.args |-> Visit[Nesting][c.args[i]]]
           b == FlattenSeq(tail)
           n == Len(c.args)
<1>1. c.commandObj \in Value[Nesting] /\ c.args \in Seq(Value[Nesting])
  BY CommandHas
<1>2. \A v \in Value[Nesting] : Visit[Nesting][v] \in Seq(AnyValue)
  <2> SUFFICES ASSUME NEW v \in Value[Nesting] PROVE Visit[Nesting][v] \in Seq(AnyValue)
    OBVIOUS
  <2>1. Nesting \in Nat
    BY NestingAssumption
  <2> QED BY <2>1, VisitHas
<1>3. n \in Nat /\ DOMAIN c.args = 1 .. n /\ \A i \in 1 .. n : c.args[i] \in Value[Nesting]
  BY <1>1
<1>4. tail \in Seq(Seq(AnyValue)) /\ DOMAIN tail = 1 .. n
      /\ \A i \in 1 .. n : tail[i] = Visit[Nesting][c.args[i]]
  <2>1. \A i \in 1 .. n : Visit[Nesting][c.args[i]] \in Seq(AnyValue)
    BY <1>2, <1>3
  <2> HIDE DEF n
  <2> QED BY <1>3, <2>1, IsASeq
<1>5. a \in Seq(AnyValue)
  BY <1>1, <1>2
<1>6. VisitCommand(c) = a \o b
  BY Zenon DEF VisitCommand
<1> HIDE DEF a, tail, n
<1>7. b \in Seq(AnyValue) /\ (AllIn(b, T) <=> \A j \in DOMAIN tail : AllIn(tail[j], T))
  BY <1>4, FlattenType, AllInFlatten
<1> HIDE DEF b
<1>8. AllIn(a \o b, T) <=> AllIn(a, T) /\ AllIn(b, T)
  BY <1>5, <1>7, AllInJoin
<1>9. (\A j \in DOMAIN tail : AllIn(tail[j], T))
        <=> \A i \in DOMAIN c.args : AllIn(Visit[Nesting][c.args[i]], T)
  BY <1>3, <1>4
<1> QED
  BY <1>6, <1>7, <1>8, <1>9 DEF a

\* A command that arrives as it was meant has a form that can be read back.
LEMMA ArrivesMeansReadable ==
    ASSUME NEW s, s.command \in CommandSet, s.encoding \in Encodings, Buildable(s), ~Typed(s),
           Meaning(s).commandObj \in Given(s.encoding), Meaning(s).args \in Seq(Given(s.encoding))
    PROVE  ~Unreadable(s)
<1> DEFINE c == s.command
           obj == c.commandObj
           args == c.args
           visited == VisitCommand(c)
           n == Len(args)
<1>1. /\ obj \in Value[Nesting] /\ args \in Seq(Value[Nesting]) /\ n \in Nat
      /\ DOMAIN args = 1 .. n /\ \A i \in 1 .. n : args[i] \in Value[Nesting]
  <2>1. obj \in Value[Nesting] /\ args \in Seq(Value[Nesting])
    BY CommandHas
  <2> HIDE DEF args
  <2> QED BY <2>1
<1>2. Becomes(s.encoding, obj) \in Given(s.encoding)
  <2>1. Meaning(s).commandObj = Becomes(s.encoding, obj)
    BY DEF Meaning, Command
  <2> QED BY <2>1
<1>3. \A i \in 1 .. n : Becomes(s.encoding, args[i]) \in Given(s.encoding)
  <2>1. /\ Len(Meaning(s).args) = n
        /\ \A i \in 1 .. n : Meaning(s).args[i] = Becomes(s.encoding, args[i])
    BY MeaningHas
  <2> DEFINE t == Meaning(s).args
  <2>2. t \in Seq(Given(s.encoding))
    OBVIOUS
  <2>3. Len(t) = n /\ \A i \in 1 .. n : t[i] = Becomes(s.encoding, args[i])
    BY <2>1
  <2> HIDE DEF t, args, n
  <2>4. \A i \in 1 .. n : t[i] \in Given(s.encoding)
    BY <2>2, <2>3
  <2> QED BY <2>3, <2>4
<1>4. Nesting \in Nat
  BY NestingAssumption
<1>5. visited \in Seq(AnyValue)
  BY VisitsAre
<1>6. \A T : AllIn(visited, T) <=>
               AllIn(Visit[Nesting][obj], T) /\ \A i \in 1 .. n : AllIn(Visit[Nesting][args[i]], T)
  BY <1>1, AllInCommand
<1>7. AllIn(visited, Fit(s.encoding))
  BY BuildableIs
<1> HIDE DEF c, obj, args, visited, n
<1>8. CASE s.encoding = 3
  <2> DEFINE U == {v \in AnyValue : v[1] \in Tags3 /\ v[1] \notin {"AMF3Array", "AMF3Date"}}
             G == {ToGo3(y) : y \in Decoded3}
  <2>1. NoTypedContainers(visited)
    BY <1>8, Zenon DEF Typed, visited, c
  <2>2. AllIn(visited, U)
    <3>1. \A i \in DOMAIN visited : visited[i] \in Fit3
      BY <1>7, <1>8 DEF Fit, AllIn
    <3>2. \A i \in DOMAIN visited : visited[i][1] \notin {"AMF3Date", "AMF3Array"}
      BY <2>1, Zenon DEF NoTypedContainers
    <3> QED BY <3>1, <3>2 DEF AllIn, Fit3, Encodable3
  <2>3. ASSUME NEW v \in Value[Nesting], AllIn(Visit[Nesting][v], U), Becomes(3, v) \in G
        PROVE  AllIn(Visit[Nesting][v], Sound3)
    <3>1. v \in U
      <4> HIDE DEF U
      <4> QED BY <1>4, <2>3, VisitHas
    <3>2. v[1] \in Tags3 /\ v[1] \notin {"AMF3Array", "AMF3Date"}
      BY <3>1
    <3>3. PICK y \in Decoded3 : Becomes(3, v) = ToGo3(y)
      BY <2>3
    <3> QED BY <2>3, <3>2, <3>3, GivenMeansSound
  <2>4. Given(s.encoding) = G
    BY <1>8 DEF Given
  <2> HIDE DEF U, G
  <2>5. AllIn(Visit[Nesting][obj], Sound3)
    BY <1>1, <1>2, <1>6, <1>8, <2>2, <2>3, <2>4
  <2>6. \A i \in 1 .. n : AllIn(Visit[Nesting][args[i]], Sound3)
    BY <1>1, <1>3, <1>6, <1>8, <2>2, <2>3, <2>4
  <2>7. AllIn(visited, Sound3)
    BY <1>6, <2>5, <2>6, Zenon
  <2>8. NoEmptyKey(visited) /\ NoWideInteger(visited)
    <3>1. \A i \in DOMAIN visited :
            <<>> \notin Keys(visited[i]) /\ (visited[i][1] = "AMF3Integer" => visited[i][2] \in MinInt .. MaxInt)
      BY <2>7, Zenon DEF AllIn, Sound3
    <3> QED BY <3>1, Zenon DEF NoEmptyKey, NoWideInteger
  <2> QED BY <2>8, Zenon DEF Unreadable, visited, c
<1>9. CASE s.encoding # 3
  <2>1. s.encoding = 0 /\ Given(s.encoding) = Decoded0
    BY <1>9 DEF Given, Encodings
  <2>2. \A v \in Value[Nesting] : Becomes(s.encoding, v) = Becomes0[Nesting][v]
    BY <1>9, Zenon DEF Becomes
  <2>3. \A v \in Value[Nesting] : Becomes0[Nesting][v] \in Decoded0 => AllIn(Visit[Nesting][v], Named)
    BY <1>4, ReadMeansNamed
  <2>4. AllIn(Visit[Nesting][obj], Named)
    BY <1>1, <1>2, <2>1, <2>2, <2>3
  <2>5. \A i \in 1 .. n : AllIn(Visit[Nesting][args[i]], Named)
    BY <1>1, <1>3, <2>1, <2>2, <2>3
  <2>6. AllIn(visited, Named)
    BY <1>6, <2>4, <2>5, Zenon
  <2>7. NoEmptyKey(visited)
    BY <2>6, Zenon DEF AllIn, Named, NoEmptyKey
  <2> QED BY <1>9, <2>7, Zenon DEF Unreadable, visited, c
<1> QED
  BY <1>8, <1>9

\* What arrives of a message, whole or cut, is not a command without such a form.
LEMMA UnreadableRead ==
    ASSUME CommandsInv, SameEncoding, Unreadable(sent), ~Typed(sent)
    PROVE  parsed.command # Meaning(sent)
<1> SUFFICES ASSUME parsed.command = Meaning(sent) PROVE FALSE
  OBVIOUS
<1>1. /\ sent # None /\ sent.ok /\ parsed.encoding = sent.encoding
      /\ \E bytes : /\ PartOf(sent, bytes, parsed.whole)
                    /\ parsed.command = ParseCommand(parsed.encoding, bytes)
  BY Zenon DEF SameEncoding, Read, CommandsInv, ParsedOf
<1>2. PICK bytes : /\ PartOf(sent, bytes, parsed.whole)
                   /\ parsed.command = ParseCommand(parsed.encoding, bytes)
  BY <1>1
<1>3. /\ sent.command \in AnyCommand /\ sent.encoding \in Encodings /\ sent.command \in CommandSet
      /\ Buildable(sent)
  BY <1>1, SentBuilt
<1>4. PartSplit(sent, bytes, parsed.whole)
  BY <1>2, <1>3, PartSplits
<1>5. bytes \in Seq(Byte)
  BY <1>4, Zenon DEF PartSplit
<1>6. Meaning(sent) # Refused
  <2>1. "name" \in DOMAIN Meaning(sent) /\ "name" \notin DOMAIN Refused
    BY DEF Meaning, Command, Refused
  <2> QED BY <2>1
<1> DEFINE w == Meaning(sent)
<1>7. w.commandObj \in Given(sent.encoding) /\ w.args \in Seq(Given(sent.encoding))
  <2>1. w = ParseCommand(sent.encoding, bytes) /\ w # Refused
    BY <1>1, <1>2, <1>6
  <2> HIDE DEF w
  <2> QED BY <1>3, <1>5, <2>1, ParsedGiven
<1>8. ~Unreadable(sent)
  BY <1>3, <1>7, ArrivesMeansReadable
<1> QED
  BY <1>8

\* A command that has an empty key in it, or in AMF3 a typed integer of more than
\* 29 bits, never arrives, whole or cut: nothing that the decoders read, of any
\* bytes, has an empty key or such an integer in it.
THEOREM UnreadableNeverArrives == Spec => []UnreadableIsLost
<1>1. CommandsInv => UnreadableIsLost
  <2> SUFFICES ASSUME CommandsInv PROVE UnreadableIsLost
    OBVIOUS
  <2>1. SameEncoding /\ Unreadable(sent) /\ ~Typed(sent) => parsed.command # Meaning(sent)
    BY UnreadableRead
  <2> QED BY <2>1, Zenon DEF UnreadableIsLost
<1> QED
  BY <1>1, CommandsInvariant, PTL

=============================================================================
