----------------------------- MODULE CodecProofs ----------------------------
(***************************************************************************)
(* What an encoder writes of a value, the decoder of its kind reads: for   *)
(* every value, however deep it is nested, and whatever follows it on the  *)
(* stream; in AMF3, if the two tables of objects are in step where a date  *)
(* is repeated.                                                            *)
(*                                                                         *)
(* First the facts about numbers, sequences and recursive functions that   *)
(* this proof and the next rest on.                                        *)
(***************************************************************************)
EXTENDS CommandMeaning, SequenceTheorems, WellFoundedInduction, TLAPS

-----------------------------------------------------------------------------
(* Induction over the naturals, and what FlattenSeq makes of sequences.    *)

\* A set of naturals that is not empty has a least element.
LEMMA LeastNatural ==
    ASSUME NEW T \in SUBSET Nat, T # {}
    PROVE  \E n \in T : \A m \in T : n <= m
<1> DEFINE R == OpToRel(<, Nat)
<1>1. IsWellFoundedOn(R, Nat)
  BY NatLessThanWellFounded, Zenon
<1>2. \E n \in T : \A m \in T : <<m, n>> \notin R
  <2> HIDE DEF R
  <2> QED
    BY <1>1, WFMin
<1>3. \A m, n \in Nat : <<m, n>> \notin R => n <= m
  BY DEF OpToRel
<1> QED
  BY <1>2, <1>3

\* Induction over the naturals, said of the set of those a fact holds for.
LEMMA SetInduction ==
    ASSUME NEW T, 0 \in T, \A n \in Nat : n \in T => n + 1 \in T
    PROVE  Nat \subseteq T
<1> SUFFICES ASSUME Nat \ T # {} PROVE FALSE
  OBVIOUS
<1>1. PICK n \in Nat \ T : \A m \in Nat \ T : n <= m
  BY LeastNatural
<1>2. n - 1 \in Nat /\ n - 1 < n
  BY <1>1
<1>3. n - 1 \in T
  BY <1>1, <1>2
<1> QED
  BY <1>1, <1>2, <1>3

\* g joins the first n members of ss, one at a time.
Joins(g, ss, n) == g = [i \in 1..n |-> IF i = 1 THEN ss[i] ELSE g[i-1] \o ss[i]]

\* There is one such function for every n.
LEMMA JoinsExists ==
    ASSUME NEW ss
    PROVE  \A n \in Nat : \E g : Joins(g, ss, n)
<1> DEFINE T == {n \in Nat : \E g : Joins(g, ss, n)}
<1>1. 0 \in T
  <2> DEFINE g == [i \in 1..0 |-> 0]
  <2>1. g = [i \in 1..0 |-> IF i = 1 THEN ss[i] ELSE g[i-1] \o ss[i]]
    OBVIOUS
  <2> QED
    BY <2>1 DEF Joins
<1>2. ASSUME NEW n \in Nat, n \in T PROVE n + 1 \in T
  <2>1. PICK g : Joins(g, ss, n)
    BY <1>2
  <2> DEFINE last == IF n = 0 THEN ss[1] ELSE g[n] \o ss[n+1]
             h == [i \in 1..(n+1) |-> IF i = n + 1 THEN last ELSE g[i]]
  <2>2. \A i \in 1..n : g[i] = IF i = 1 THEN ss[i] ELSE g[i-1] \o ss[i]
    BY <2>1, Zenon DEF Joins
  <2>3. ASSUME NEW i \in 1..(n+1)
        PROVE  h[i] = IF i = 1 THEN ss[i] ELSE h[i-1] \o ss[i]
    <3>1. CASE i = n + 1 /\ n = 0
      BY <3>1
    <3>2. CASE i = n + 1 /\ n # 0
      <4>1. n \in 1..(n+1) /\ n # n + 1 /\ i - 1 = n /\ i # 1
        BY <3>2
      <4>2. h[i] = last /\ last = g[n] \o ss[n+1]
        BY <3>2
      <4>3. h[n] = g[n]
        BY <4>1
      <4> QED
        BY <3>2, <4>1, <4>2, <4>3
    <3>3. CASE i # n + 1
      <4>1. i \in 1..n /\ h[i] = g[i]
        BY <3>3
      <4>2. i # 1 => i - 1 \in 1..n /\ h[i-1] = g[i-1]
        BY <3>3
      <4> QED
        BY <2>2, <4>1, <4>2
    <3> QED
      BY <3>1, <3>2, <3>3
  <2>4. h = [i \in 1..(n+1) |-> IF i = 1 THEN ss[i] ELSE h[i-1] \o ss[i]]
    <3> DEFINE k == [i \in 1..(n+1) |-> IF i = 1 THEN ss[i] ELSE h[i-1] \o ss[i]]
    <3>1. \A i \in 1..(n+1) : h[i] = k[i]
      BY <2>3
    <3> QED
      BY <3>1
  <2>5. Joins(h, ss, n + 1)
    <3> HIDE DEF h
    <3> QED BY <2>4 DEF Joins
  <2> QED
    BY <2>5
<1>3. Nat \subseteq T
  <2> HIDE DEF T
  <2> QED BY <1>1, <1>2, SetInduction
<1> QED
  BY <1>3

\* Two of them agree on the members that they have in common.
LEMMA JoinsAgree ==
    ASSUME NEW ss, NEW tt, NEW g, NEW h, NEW n \in Nat, NEW m \in Nat, n <= m,
           Joins(g, ss, n), Joins(h, tt, m), \A i \in 1..n : ss[i] = tt[i]
    PROVE  \A i \in 1..n : g[i] = h[i]
<1> DEFINE T == {k \in Nat : k \in 1..n => g[k] = h[k]}
<1>0. /\ \A i \in 1..n : g[i] = IF i = 1 THEN ss[i] ELSE g[i-1] \o ss[i]
      /\ \A i \in 1..m : h[i] = IF i = 1 THEN tt[i] ELSE h[i-1] \o tt[i]
  BY Zenon DEF Joins
<1>1. 0 \in T
  OBVIOUS
<1>2. ASSUME NEW k \in Nat, k \in T PROVE k + 1 \in T
  <2> SUFFICES ASSUME k + 1 \in 1..n PROVE g[k+1] = h[k+1]
    OBVIOUS
  <2>1. k + 1 \in 1..m /\ ss[k+1] = tt[k+1]
    OBVIOUS
  <2>2. CASE k = 0
    BY <1>0, <2>1, <2>2
  <2>3. CASE k # 0
    <3>1. g[k] = h[k] /\ (k + 1) - 1 = k /\ k + 1 # 1
      BY <1>2, <2>3
    <3> QED
      BY <1>0, <2>1, <3>1
  <2> QED
    BY <2>2, <2>3
<1>3. Nat \subseteq T
  <2> HIDE DEF T
  <2> QED BY <1>1, <1>2, SetInduction
<1> QED
  BY <1>3

\* FlattenSeq is the last of what is joined.
LEMMA FlattenIs ==
    ASSUME NEW ss, NEW n \in Nat, n # 0, Len(ss) = n, NEW g, Joins(g, ss, n)
    PROVE  FlattenSeq(ss) = g[n]
<1> DEFINE f == CHOOSE h : h = [i \in 1..n |-> IF i = 1 THEN ss[i] ELSE h[i-1] \o ss[i]]
<1>1. FlattenSeq(ss) = f[n]
  BY DEF FlattenSeq
<1>2. Joins(f, ss, n)
  BY JoinsExists, Zenon DEF Joins
<1>3. n \in 1..n
  OBVIOUS
<1> HIDE DEF f
<1>4. f[n] = g[n]
  BY <1>2, <1>3, JoinsAgree
<1> QED
  BY <1>1, <1>4

\* Nothing joined is nothing.
LEMMA FlattenNone == FlattenSeq(<<>>) = <<>>
BY EmptySeq DEF FlattenSeq

\* Joining one more sequence puts it at the end.
LEMMA FlattenAppend ==
    ASSUME NEW S, NEW ss \in Seq(Seq(S)), NEW s \in Seq(S)
    PROVE  FlattenSeq(Append(ss, s)) = FlattenSeq(ss) \o s
<1> DEFINE tt == Append(ss, s)
           n == Len(ss)
<1>1. /\ n \in Nat /\ Len(tt) = n + 1 /\ tt[n + 1] = s
      /\ \A i \in 1..n : ss[i] = tt[i]
  OBVIOUS
<1>2. PICK h : Joins(h, tt, n + 1)
  <2>1. n + 1 \in Nat
    BY <1>1
  <2> QED
    BY <2>1, JoinsExists, Zenon
<1>3. FlattenSeq(tt) = h[n + 1]
  <2> HIDE DEF tt, n
  <2> QED BY <1>1, <1>2, FlattenIs
<1>4. \A i \in 1..(n+1) : h[i] = IF i = 1 THEN tt[i] ELSE h[i-1] \o tt[i]
  BY <1>2, Zenon DEF Joins
<1>5. CASE n = 0
  <2>1. h[n + 1] = s
    BY <1>1, <1>4, <1>5
  <2>2. ss = <<>> /\ <<>> \o s = s
    BY <1>5
  <2>3. FlattenSeq(ss) \o s = s
    BY <2>2, FlattenNone
  <2> QED
    BY <1>3, <2>1, <2>3
<1>6. CASE n # 0
  <2>1. PICK g : Joins(g, ss, n)
    BY <1>1, JoinsExists
  <2>2. FlattenSeq(ss) = g[n]
    <3> HIDE DEF tt, n
    <3> QED BY <1>1, <1>6, <2>1, FlattenIs DEF n
  <2>3. g[n] = h[n]
    <3>1. n \in 1..n /\ n <= n + 1 /\ n + 1 \in Nat
      BY <1>1, <1>6
    <3> HIDE DEF tt, n
    <3> QED BY <1>1, <1>2, <2>1, <3>1, JoinsAgree
  <2>4. h[n + 1] = h[n] \o s
    <3>1. n + 1 \in 1..(n+1) /\ n + 1 # 1 /\ (n + 1) - 1 = n
      BY <1>1, <1>6
    <3> HIDE DEF tt, n
    <3> QED BY <1>1, <1>4, <3>1
  <2> QED
    BY <1>3, <2>2, <2>3, <2>4
<1> QED
  BY <1>5, <1>6

\* ... and is made of what they are made of.
LEMMA FlattenType ==
    ASSUME NEW S, NEW ss \in Seq(Seq(S))
    PROVE  FlattenSeq(ss) \in Seq(S)
<1>1. Len(ss) \in Nat /\ \A i \in 1..Len(ss) : ss[i] \in Seq(S)
  OBVIOUS
<1>2. PICK g : Joins(g, ss, Len(ss))
  BY <1>1, JoinsExists, Zenon
<1>3. \A i \in 1..Len(ss) : g[i] = IF i = 1 THEN ss[i] ELSE g[i-1] \o ss[i]
  BY <1>2, Zenon DEF Joins
<1> DEFINE T == {k \in Nat : k \in 1..Len(ss) => g[k] \in Seq(S)}
<1>4. 0 \in T
  OBVIOUS
<1>5. ASSUME NEW k \in Nat, k \in T PROVE k + 1 \in T
  <2> SUFFICES ASSUME k + 1 \in 1..Len(ss) PROVE g[k+1] \in Seq(S)
    OBVIOUS
  <2>1. CASE k = 0
    BY <1>1, <1>3, <2>1
  <2>2. CASE k # 0
    <3>1. (k + 1) - 1 = k /\ k + 1 # 1 /\ k \in 1..Len(ss)
      BY <2>2
    <3>2. g[k] \in Seq(S) /\ ss[k+1] \in Seq(S)
      BY <1>1, <1>5, <3>1
    <3>3. g[k+1] = g[k] \o ss[k+1]
      BY <1>3, <3>1
    <3> QED
      BY <3>2, <3>3, ConcatProperties
  <2> QED
    BY <2>1, <2>2
<1>6. Nat \subseteq T
  <2> HIDE DEF T
  <2> QED
    BY <1>4, <1>5, SetInduction
<1>7. CASE Len(ss) = 0
  <2>1. ss = <<>> /\ <<>> \in Seq(S)
    BY <1>7
  <2> QED
    BY <2>1, FlattenNone
<1>8. CASE Len(ss) # 0
  <2>1. FlattenSeq(ss) = g[Len(ss)]
    BY <1>1, <1>2, <1>8, FlattenIs
  <2>2. Len(ss) \in 1..Len(ss)
    BY <1>1, <1>8
  <2> QED
    BY <1>1, <1>6, <2>1, <2>2
<1> QED
  BY <1>7, <1>8

-----------------------------------------------------------------------------
(* The recursive functions of the codecs are what their definitions say:   *)
(* for each there is a function that satisfies the equation that defines   *)
(* it, so that the function that CHOOSE gives satisfies it too.            *)

\* What one step of each recursion over the depth makes of the step before it.
ValueStep(n, p) == IF n = 0 THEN Scalar ELSE Scalar \cup Container(p)
EncodeStep0(n, p) == [v \in Value[n] |-> [e \in Encoder0 |-> EncodeByType0(p, e, v)]]
EncodeStep3(n, p) == [v \in Value[n] |-> [e \in Encoder3 |-> EncodeByType3(p, e, v)]]
DecodeStep0(n, p) ==
  [value |-> [d \in Decoder0 |-> IF n = 0 THEN Failed(d) ELSE DecodeByMarker0(p, d)],
   pairs |-> [d \in Decoder0 |-> IF n = 0 THEN Failed(d) ELSE DecodePairs0(p, d)],
   elements |-> [k \in Nat |-> [d \in Decoder0 |->
                IF n = 0 THEN Failed(d) ELSE DecodeElements(p, d, k)]]]
DecodeStep3(n, p) ==
  [value |-> [d \in Decoder3 |-> IF n = 0 THEN Failed(d) ELSE DecodeByMarker3(p, d)],
   pairs |-> [d \in Decoder3 |-> IF n = 0 THEN Failed(d) ELSE DecodePairs3(p, d)],
   dense |-> [k \in Nat |-> [d \in Decoder3 |->
                IF n = 0 THEN Failed(d) ELSE DecodeDense(p, d, k)]]]
BecomeStep0(n, p) == [v \in Value[n] |-> ByType0(p, v)]
BecomeStep3(n, p) == [v \in Value[n] |-> ByType3(p, v)]
VisitStep(n, p) == [v \in Value[n] |-> VisitBy(p, v)]
ArgumentsStep(n, p) ==
  [encoding \in Encodings |-> [d \in Decoder(encoding) |->
    IF n = 0 THEN <<>> ELSE ArgumentsFrom(p[encoding], encoding, d)]]

\* The step of the recursion called which; the last is that of InTurn.
Step(which, with, n, p) ==
  CASE which = "value" -> ValueStep(n, p)
    [] which = "encode0" -> EncodeStep0(n, p)
    [] which = "encode3" -> EncodeStep3(n, p)
    [] which = "decode0" -> DecodeStep0(n, p)
    [] which = "decode3" -> DecodeStep3(n, p)
    [] which = "become0" -> BecomeStep0(n, p)
    [] which = "become3" -> BecomeStep3(n, p)
    [] which = "visit" -> VisitStep(n, p)
    [] which = "arguments" -> ArgumentsStep(n, p)
    [] which = "in turn" -> IF n = 0 THEN with.first ELSE with.steps[n][p]
\* g makes the first of its steps, up to the k-th.
Steps(which, with, g, k) == g = [n \in 0 .. k |-> Step(which, with, n, Inside(g, n))]

\* Two that make the same steps agree on those that both make.
LEMMA StepsAgree ==
    ASSUME NEW which, NEW with, NEW g, NEW h, NEW k \in Nat, NEW m \in Nat, k <= m,
           Steps(which, with, g, k), Steps(which, with, h, m)
    PROVE  \A n \in 0 .. k : g[n] = h[n]
<1> DEFINE T == {n \in Nat : n \in 0 .. k => g[n] = h[n]}
           S(n, f) == Step(which, with, n, Inside(f, n))
<1>0. /\ \A n \in 0 .. k : g[n] = S(n, g)
      /\ \A n \in 0 .. m : h[n] = S(n, h)
  BY Zenon DEF Steps
<1>1. 0 \in T
  <2>1. 0 \in 0 .. k /\ 0 \in 0 .. m
    OBVIOUS
  <2>2. S(0, g) = S(0, h)
    BY Zenon DEF Inside
  <2> HIDE DEF S
  <2> QED
    BY <1>0, <2>1, <2>2
<1>2. ASSUME NEW n \in Nat, n \in T PROVE n + 1 \in T
  <2> SUFFICES ASSUME n + 1 \in 0 .. k PROVE g[n + 1] = h[n + 1]
    OBVIOUS
  <2>1. n + 1 \in 0 .. m /\ n + 1 # 0 /\ (n + 1) - 1 = n /\ n \in 0 .. k
    OBVIOUS
  <2>2. g[n] = h[n]
    BY <1>2, <2>1
  <2>3. S(n + 1, g) = S(n + 1, h)
    BY <2>1, <2>2, Zenon DEF Inside
  <2> HIDE DEF S
  <2> QED
    BY <1>0, <2>1, <2>3
<1>3. Nat \subseteq T
  <2> HIDE DEF T
  <2> QED BY <1>1, <1>2, SetInduction
<1> QED
  BY <1>3

\* However many steps there are, some function makes them.
LEMMA StepsExist ==
    ASSUME NEW which, NEW with
    PROVE  \A k \in Nat : \E g : Steps(which, with, g, k)
<1> DEFINE T == {k \in Nat : \E g : Steps(which, with, g, k)}
           S(n, f) == Step(which, with, n, Inside(f, n))
<1>1. 0 \in T
  <2> DEFINE g == [n \in 0 .. 0 |-> Step(which, with, n, <<>>)]
  <2>1. \A n \in 0 .. 0 : n = 0
    OBVIOUS
  <2>2. g = [n \in 0 .. 0 |-> Step(which, with, n, Inside(g, n))]
    BY <2>1 DEF Inside
  <2> QED
    BY <2>2 DEF Steps
<1>2. ASSUME NEW k \in Nat, k \in T PROVE k + 1 \in T
  <2>1. PICK g : Steps(which, with, g, k)
    BY <1>2
  <2> DEFINE h == [n \in 0 .. (k + 1) |-> IF n = k + 1 THEN Step(which, with, n, g[k]) ELSE g[n]]
  <2>2. \A n \in 0 .. k : g[n] = S(n, g)
    BY <2>1, Zenon DEF Steps
  <2>3. ASSUME NEW n \in 0 .. (k + 1) PROVE h[n] = S(n, h)
    <3>1. CASE n = k + 1
      <4>1. n # 0 /\ n - 1 = k /\ k \in 0 .. (k + 1) /\ k # k + 1
        BY <3>1
      <4>2. h[k] = g[k] /\ h[n] = Step(which, with, n, g[k])
        BY <3>1, <4>1
      <4> QED
        BY <4>1, <4>2 DEF Inside
    <3>2. CASE n # k + 1
      <4>1. n \in 0 .. k /\ h[n] = g[n]
        BY <3>2
      <4>2. n # 0 => n - 1 \in 0 .. (k + 1) /\ n - 1 # k + 1
        BY <3>2
      <4>3. n # 0 => h[n - 1] = g[n - 1]
        BY <4>2
      <4>4. Inside(h, n) = Inside(g, n)
        BY <4>3, Zenon DEF Inside
      <4> QED
        BY <2>2, <4>1, <4>4, Zenon
    <3> QED
      BY <3>1, <3>2
  <2>4. h = [n \in 0 .. (k + 1) |-> S(n, h)]
    <3> DEFINE f == [n \in 0 .. (k + 1) |-> S(n, h)]
    <3>1. \A n \in 0 .. (k + 1) : h[n] = f[n]
      <4> HIDE DEF S, h
      <4> QED BY <2>3
    <3> HIDE DEF S
    <3> QED
      BY <3>1
  <2>5. Steps(which, with, h, k + 1)
    <3> HIDE DEF h
    <3> QED BY <2>4, Zenon DEF Steps
  <2> QED
    BY <2>5
<1>3. Nat \subseteq T
  <2> HIDE DEF T
  <2> QED BY <1>1, <1>2, SetInduction
<1> QED
  BY <1>3

\* f makes all its steps, and some function does.
AllSteps(which, with, f) == f = [n \in Nat |-> Step(which, with, n, Inside(f, n))]

\* Some function makes all the steps.
LEMMA AllStepsExist ==
    ASSUME NEW which, NEW with
    PROVE  \E f : AllSteps(which, with, f)
<1> DEFINE G(k) == CHOOSE g : Steps(which, with, g, k)
           f == [n \in Nat |-> G(n)[n]]
<1>1. \A k \in Nat : Steps(which, with, G(k), k)
  BY StepsExist, Zenon
<1>2. ASSUME NEW n \in Nat PROVE f[n] = Step(which, with, n, Inside(f, n))
  <2>1. n \in 0 .. n
    OBVIOUS
  <2>2. G(n)[n] = Step(which, with, n, Inside(G(n), n))
    BY <1>1, <2>1, Zenon DEF Steps
  <2>3. Inside(f, n) = Inside(G(n), n)
    <3>1. CASE n = 0
      BY <3>1, Zenon DEF Inside
    <3>2. CASE n # 0
      <4>1. n - 1 \in Nat /\ n - 1 <= n /\ n - 1 \in 0 .. (n - 1)
        BY <3>2
      <4>2. G(n - 1)[n - 1] = G(n)[n - 1]
        <5>1. Steps(which, with, G(n - 1), n - 1) /\ Steps(which, with, G(n), n)
          BY <1>1, <4>1, Zenon
        <5> HIDE DEF G
        <5> QED
          BY <4>1, <5>1, StepsAgree
      <4>3. f[n - 1] = G(n - 1)[n - 1]
        BY <4>1, Zenon
      <4> HIDE DEF f, G
      <4> QED
        BY <4>2, <4>3, Zenon DEF Inside
    <3> QED
      BY <3>1, <3>2
  <2> QED
    BY <2>2, <2>3, Zenon
<1>3. f = [n \in Nat |-> Step(which, with, n, Inside(f, n))]
  <2> DEFINE h == [n \in Nat |-> Step(which, with, n, Inside(f, n))]
  <2>1. \A n \in Nat : f[n] = h[n]
    BY <1>2, Zenon
  <2>2. f = [n \in Nat |-> f[n]] /\ h = [n \in Nat |-> h[n]]
    OBVIOUS
  <2> HIDE DEF f, h
  <2>3. f = h
    BY <2>1, <2>2, Zenon
  <2> QED BY <2>3, Zenon DEF h
<1>4. AllSteps(which, with, f)
  <2> HIDE DEF f
  <2> QED BY <1>3, Zenon DEF AllSteps
<1> QED
  <2> HIDE DEF f
  <2> QED BY <1>4

\* Value satisfies the equation that defines it.
LEMMA ValueIs == Value = [n \in Nat |-> ValueStep(n, Inside(Value, n))]
<1>1. PICK f : AllSteps("value", <<>>, f)
  BY AllStepsExist, Zenon
<1>2. \A n, p : Step("value", <<>>, n, p) = ValueStep(n, p)
  BY DEF Step
<1>3. f = [n \in Nat |-> ValueStep(n, Inside(f, n))]
  BY <1>1, <1>2, Zenon DEF AllSteps
<1> QED
  BY <1>3, ZenonT(60) DEF Value, ValueStep, Inside

\* EncodeValue0 satisfies the equation that defines it.
LEMMA EncodeValue0Is == EncodeValue0 = [n \in Nat |-> EncodeStep0(n, Inside(EncodeValue0, n))]
<1>1. PICK f : AllSteps("encode0", <<>>, f)
  BY AllStepsExist, Zenon
<1>2. \A n, p : Step("encode0", <<>>, n, p) = EncodeStep0(n, p)
  BY DEF Step
<1>3. f = [n \in Nat |-> EncodeStep0(n, Inside(f, n))]
  BY <1>1, <1>2, Zenon DEF AllSteps
<1> QED
  BY <1>3, Zenon DEF EncodeValue0, EncodeStep0, Inside

\* EncodeValue3 satisfies the equation that defines it.
LEMMA EncodeValue3Is == EncodeValue3 = [n \in Nat |-> EncodeStep3(n, Inside(EncodeValue3, n))]
<1>1. PICK f : AllSteps("encode3", <<>>, f)
  BY AllStepsExist, Zenon
<1>2. \A n, p : Step("encode3", <<>>, n, p) = EncodeStep3(n, p)
  BY DEF Step
<1>3. f = [n \in Nat |-> EncodeStep3(n, Inside(f, n))]
  BY <1>1, <1>2, Zenon DEF AllSteps
<1> QED
  BY <1>3, Zenon DEF EncodeValue3, EncodeStep3, Inside

\* Decoding0 satisfies the equation that defines it.
LEMMA Decoding0Is == Decoding0 = [n \in Nat |-> DecodeStep0(n, Inside(Decoding0, n))]
<1>1. PICK f : AllSteps("decode0", <<>>, f)
  BY AllStepsExist, Zenon
<1>2. \A n, p : Step("decode0", <<>>, n, p) = DecodeStep0(n, p)
  BY DEF Step
<1>3. f = [n \in Nat |-> DecodeStep0(n, Inside(f, n))]
  BY <1>1, <1>2, Zenon DEF AllSteps
<1> QED
  BY <1>3, ZenonT(60) DEF Decoding0, DecodeStep0, Inside

\* Decoding3 satisfies the equation that defines it.
LEMMA Decoding3Is == Decoding3 = [n \in Nat |-> DecodeStep3(n, Inside(Decoding3, n))]
<1>1. PICK f : AllSteps("decode3", <<>>, f)
  BY AllStepsExist, Zenon
<1>2. \A n, p : Step("decode3", <<>>, n, p) = DecodeStep3(n, p)
  BY DEF Step
<1>3. f = [n \in Nat |-> DecodeStep3(n, Inside(f, n))]
  BY <1>1, <1>2, Zenon DEF AllSteps
<1> QED
  BY <1>3, Zenon DEF Decoding3, DecodeStep3, Inside

\* Becomes0 satisfies the equation that defines it.
LEMMA Becomes0Is == Becomes0 = [n \in Nat |-> BecomeStep0(n, Inside(Becomes0, n))]
<1>1. PICK f : AllSteps("become0", <<>>, f)
  BY AllStepsExist, Zenon
<1>2. \A n, p : Step("become0", <<>>, n, p) = BecomeStep0(n, p)
  BY DEF Step
<1>3. f = [n \in Nat |-> BecomeStep0(n, Inside(f, n))]
  BY <1>1, <1>2, Zenon DEF AllSteps
<1> QED
  BY <1>3, Zenon DEF Becomes0, BecomeStep0, Inside

\* Becomes3 satisfies the equation that defines it.
LEMMA Becomes3Is == Becomes3 = [n \in Nat |-> BecomeStep3(n, Inside(Becomes3, n))]
<1>1. PICK f : AllSteps("become3", <<>>, f)
  BY AllStepsExist, Zenon
<1>2. \A n, p : Step("become3", <<>>, n, p) = BecomeStep3(n, p)
  BY DEF Step
<1>3. f = [n \in Nat |-> BecomeStep3(n, Inside(f, n))]
  BY <1>1, <1>2, Zenon DEF AllSteps
<1> QED
  BY <1>3, Zenon DEF Becomes3, BecomeStep3, Inside

\* Visit satisfies the equation that defines it.
LEMMA VisitIs == Visit = [n \in Nat |-> VisitStep(n, Inside(Visit, n))]
<1>1. PICK f : AllSteps("visit", <<>>, f)
  BY AllStepsExist, Zenon
<1>2. \A n, p : Step("visit", <<>>, n, p) = VisitStep(n, p)
  BY DEF Step
<1>3. f = [n \in Nat |-> VisitStep(n, Inside(f, n))]
  BY <1>1, <1>2, Zenon DEF AllSteps
<1> QED
  BY <1>3, Zenon DEF Visit, VisitStep, Inside

\* Arguments satisfies the equation that defines it.
LEMMA ArgumentsIs == Arguments = [n \in Nat |-> ArgumentsStep(n, Inside(Arguments, n))]
<1>1. PICK f : AllSteps("arguments", <<>>, f)
  BY AllStepsExist, Zenon
<1>2. \A n, p : Step("arguments", <<>>, n, p) = ArgumentsStep(n, p)
  BY DEF Step
<1>3. f = [n \in Nat |-> ArgumentsStep(n, Inside(f, n))]
  BY <1>1, <1>2, Zenon DEF AllSteps
<1> QED
  BY <1>3, Zenon DEF Arguments, ArgumentsStep, Inside

\* Some function has what InTurn makes of x step by step.
Turn(steps, k, x, after) ==
  /\ after[0] = x
  /\ \A i \in 1 .. k : after[i] = steps[i][after[i - 1]]
  /\ InTurn(steps, x) = after[k]

\* InTurn makes its steps one after the other.
LEMMA InTurnIs ==
    ASSUME NEW steps, NEW k \in Nat, Len(steps) = k, NEW x
    PROVE  \E after : Turn(steps, k, x, after)
<1> DEFINE with == [first |-> x, steps |-> steps]
           A(g) == g = [i \in 0 .. k |-> IF i = 0 THEN x ELSE steps[i][g[i - 1]]]
           after == CHOOSE g : A(g)
<1>1. PICK f : AllSteps("in turn", with, f)
  <2> HIDE DEF with
  <2> QED BY AllStepsExist, Zenon
<1>2. \A n \in Nat : f[n] = IF n = 0 THEN x ELSE steps[n][f[n - 1]]
  <2>1. \A n, p : Step("in turn", with, n, p) = IF n = 0 THEN with.first ELSE with.steps[n][p]
    <3> HIDE DEF with
    <3> QED BY DEF Step
  <2>2. with.first = x /\ with.steps = steps
    OBVIOUS
  <2> HIDE DEF with
  <2>3. \A n \in Nat : f[n] = Step("in turn", with, n, Inside(f, n))
    BY <1>1, Zenon DEF AllSteps
  <2>4. \A n : n # 0 => Inside(f, n) = f[n - 1]
    BY Zenon DEF Inside
  <2>5. \A n \in Nat : f[n] = IF n = 0 THEN with.first ELSE with.steps[n][Inside(f, n)]
    BY <2>1, <2>3, Zenon
  <2> QED
    BY <2>2, <2>4, <2>5
<1> DEFINE g == [i \in 0 .. k |-> f[i]]
<1>3. A(g)
  <2> DEFINE h == [i \in 0 .. k |-> IF i = 0 THEN x ELSE steps[i][g[i - 1]]]
  <2>1. ASSUME NEW i \in 0 .. k PROVE g[i] = h[i]
    <3>1. i # 0 => i - 1 \in 0 .. k
      OBVIOUS
    <3>2. i # 0 => g[i - 1] = f[i - 1]
      BY <3>1
    <3> QED
      BY <1>2, <3>2
  <2>2. g = [i \in 0 .. k |-> g[i]] /\ h = [i \in 0 .. k |-> h[i]]
    OBVIOUS
  <2> HIDE DEF g, h
  <2>3. g = h
    BY <2>1, <2>2, Zenon
  <2> QED BY <2>3, Zenon DEF h
<1>4. A(after)
  <2> HIDE DEF A, g
  <2> QED BY <1>3, Zenon
<1>5. InTurn(steps, x) = after[k]
  BY Zenon DEF InTurn
<1>6. \A i \in 0 .. k : after[i] = IF i = 0 THEN x ELSE steps[i][after[i - 1]]
  <2> HIDE DEF after
  <2> QED BY <1>4, Zenon
<1> HIDE DEF after
<1>7. after[0] = x
  BY <1>6
<1>8. \A i \in 1 .. k : after[i] = steps[i][after[i - 1]]
  BY <1>6
<1> QED
  BY <1>5, <1>7, <1>8 DEF Turn

-----------------------------------------------------------------------------
(* Joined sequences.                                                       *)

\* What was joined to a is what comes after it.
LEMMA JoinedRest ==
    ASSUME NEW S, NEW a \in Seq(S), NEW b \in Seq(S)
    PROVE  /\ a \o b \in Seq(S)
           /\ Len(a \o b) = Len(a) + Len(b)
           /\ SubSeq(a \o b, 1, Len(a)) = a
           /\ SubSeq(a \o b, Len(a) + 1, Len(a \o b)) = b
<1>1. /\ a \o b \in Seq(S) /\ Len(a \o b) = Len(a) + Len(b)
      /\ Len(a) \in Nat /\ Len(b) \in Nat
  BY ConcatProperties
<1>2. \A i \in 1 .. Len(a) + Len(b) :
        (a \o b)[i] = IF i <= Len(a) THEN a[i] ELSE b[i - Len(a)]
  BY ConcatProperties
<1>3. SubSeq(a \o b, 1, Len(a)) = a
  <2>1. \A i \in 1 .. Len(a) : (a \o b)[i] = a[i] /\ a[i] \in S
    BY <1>1, <1>2
  <2>2. SubSeq(a \o b, 1, Len(a)) \in Seq(S) /\ Len(SubSeq(a \o b, 1, Len(a))) = Len(a)
    BY <1>1, <2>1, SubSeqProperties
  <2>3. \A i \in 1 .. Len(a) : SubSeq(a \o b, 1, Len(a))[i] = a[i]
    BY <1>1, <2>1
  <2> QED
    BY <2>2, <2>3, SeqEqual
<1>4. SubSeq(a \o b, Len(a) + 1, Len(a \o b)) = b
  <2> DEFINE s == SubSeq(a \o b, Len(a) + 1, Len(a \o b))
  <2>1. \A i \in Len(a) + 1 .. Len(a) + Len(b) : (a \o b)[i] = b[i - Len(a)] /\ (a \o b)[i] \in S
    BY <1>1, <1>2
  <2>2. s \in Seq(S) /\ Len(s) = Len(b)
    BY <1>1, <2>1, SubSeqProperties
  <2>3. \A i \in 1 .. Len(b) : s[i] = b[i]
    <3> SUFFICES ASSUME NEW i \in 1 .. Len(b) PROVE s[i] = b[i]
      OBVIOUS
    <3>1. s[i] = (a \o b)[i + Len(a)]
      BY <1>1
    <3>2. i + Len(a) \in Len(a) + 1 .. Len(a) + Len(b) /\ (i + Len(a)) - Len(a) = i
      BY <1>1
    <3> QED
      BY <2>1, <3>1, <3>2
  <2> HIDE DEF s
  <2>4. s = b
    BY <2>2, <2>3, SeqEqual
  <2> QED BY <2>4 DEF s
<1> QED
  BY <1>1, <1>3, <1>4

\* Bytes, two and three and four times in a row.
Join2(a, b) ==
  a \o b \in Seq(Byte) /\ Len(a \o b) = Len(a) + Len(b) /\ Len(a) \in Nat /\ Len(b) \in Nat
Join3(a, b, c) ==
  /\ (a \o b) \o c = a \o (b \o c)
  /\ a \o b \in Seq(Byte) /\ b \o c \in Seq(Byte) /\ a \o (b \o c) \in Seq(Byte)
  /\ Len((a \o b) \o c) = Len(a) + Len(b) + Len(c)
  /\ Len(a) \in Nat /\ Len(b) \in Nat /\ Len(c) \in Nat
Join4(a, b, c, d) ==
  /\ ((a \o b) \o c) \o d = a \o (b \o (c \o d))
  /\ c \o d \in Seq(Byte) /\ b \o (c \o d) \in Seq(Byte) /\ a \o (b \o (c \o d)) \in Seq(Byte)

\* The facts about two byte sequences joined.
LEMMA JoinTwo ==
    ASSUME NEW a \in Seq(Byte), NEW b \in Seq(Byte)
    PROVE  Join2(a, b)
BY ConcatProperties, LenProperties DEF Join2

\* The facts about three of them.
LEMMA JoinThree ==
    ASSUME NEW a \in Seq(Byte), NEW b \in Seq(Byte), NEW c \in Seq(Byte)
    PROVE  Join3(a, b, c)
<1>1. Join2(a, b) /\ Join2(b, c)
  BY JoinTwo
<1>2. (a \o b) \o c = a \o (b \o c)
  BY ConcatAssociative
<1> DEFINE x == a \o b
           y == b \o c
<1>3. x \in Seq(Byte) /\ y \in Seq(Byte)
  BY <1>1 DEF Join2
<1>4. Join2(x, c) /\ Join2(a, y)
  <2> HIDE DEF x, y
  <2> QED BY <1>3, JoinTwo
<1> QED
  BY <1>1, <1>2, <1>4 DEF Join2, Join3

\* The facts about four of them.
LEMMA JoinFour ==
    ASSUME NEW a \in Seq(Byte), NEW b \in Seq(Byte), NEW c \in Seq(Byte), NEW d \in Seq(Byte)
    PROVE  Join4(a, b, c, d)
<1> DEFINE u == a \o b
           t == c \o d
<1>1. Join2(a, b) /\ Join2(c, d)
  BY JoinTwo
<1>2. u \in Seq(Byte) /\ t \in Seq(Byte)
  BY <1>1 DEF Join2
<1>3. Join3(a, b, t) /\ Join3(u, c, d)
  <2> HIDE DEF u, t
  <2> QED BY <1>2, JoinThree
<1>4. (u \o c) \o d = u \o t /\ u \o t = a \o (b \o t)
  BY <1>3, Zenon DEF Join3
<1> QED
  BY <1>2, <1>3, <1>4, Zenon DEF Join3, Join4

\* Joining three sequences, and nothing.
LEMMA JoinAssociative ==
    ASSUME NEW S, NEW a \in Seq(S), NEW b \in Seq(S), NEW c \in Seq(S)
    PROVE  (a \o b) \o c = a \o (b \o c) /\ a \o b \in Seq(S) /\ b \o c \in Seq(S)
BY ConcatAssociative, ConcatProperties, SMTT(40)

\* Nothing joined to a sequence leaves it as it is.
LEMMA JoinNothing ==
    ASSUME NEW S, NEW a \in Seq(S)
    PROVE  a \o <<>> = a /\ <<>> \o a = a /\ <<>> \in Seq(S) /\ Len(a) \in Nat
BY ConcatEmptySeq, EmptySeq, LenProperties

\* What is joined to a sequence is determined by the result.
LEMMA JoinCancels ==
    ASSUME NEW S, NEW a \in Seq(S), NEW b \in Seq(S), NEW c \in Seq(S), a \o b = a \o c
    PROVE  b = c
<1>1. SubSeq(a \o b, Len(a) + 1, Len(a \o b)) = b
  BY JoinedRest
<1>2. SubSeq(a \o c, Len(a) + 1, Len(a \o c)) = c
  BY JoinedRest
<1> QED
  BY <1>1, <1>2, Zenon

\* The first member, then the others.
LEMMA FirstAndRest ==
    ASSUME NEW k \in Nat, NEW F, F = [j \in 1 .. k |-> F[j]], NEW i \in 0 .. k
    PROVE  /\ i = k => SubSeq(F, i + 1, k) = <<>>
           /\ i # k => SubSeq(F, i + 1, k) = <<F[i + 1]>> \o SubSeq(F, i + 2, k)
           /\ SubSeq(F, 1, k) = F
<1> DEFINE S == {F[j] : j \in 1 .. k}
<1>1. F \in Seq(S) /\ Len(F) = k
  BY IsASeq
<1>2. i = k => SubSeq(F, i + 1, k) = <<>>
  BY SubSeqEmpty
<1> HIDE DEF S
<1>3. ASSUME i # k PROVE SubSeq(F, i + 1, k) = <<F[i + 1]>> \o SubSeq(F, i + 2, k)
  <2>1. i + 1 \in 1 .. Len(F) /\ k \in i + 1 .. Len(F) /\ (i + 1) + 1 = i + 2
    BY <1>1, <1>3
  <2>2. SubSeq(F, i + 1, k) = <<F[i + 1]>> \o SubSeq(F, (i + 1) + 1, k)
    BY <1>1, <2>1, SubSeqRecursiveFirst
  <2> QED
    BY <2>1, <2>2
<1>4. SubSeq(F, 1, k) = F
  BY <1>1, SubSeqFull
<1> QED
  BY <1>2, <1>3, <1>4

\* Steps that only append: after each, what the later ones append.
Appends(S, k, out, bs) ==
  /\ \A i \in 0 .. k : out[i] \in Seq(S)
  /\ \A i \in 1 .. k : bs[i] \in Seq(S) /\ out[i] = out[i - 1] \o bs[i]
Later(S, k, out, bs, cs) ==
  /\ \A i \in 0 .. k : cs[i] \in Seq(S) /\ out[k] = out[i] \o cs[i]
  /\ cs[k] = <<>>
  /\ \A i \in 0 .. k - 1 : cs[i] = bs[i + 1] \o cs[i + 1]

\* If every step only appends, there is what the later steps append, from each on.
LEMMA LaterBytes ==
    ASSUME NEW S, NEW k \in Nat, NEW out, NEW bs, Appends(S, k, out, bs)
    PROVE  \E cs : Later(S, k, out, bs, cs)
<1> USE DEF Appends
<1> DEFINE Has(i, c) == c \in Seq(S) /\ out[k] = out[i] \o c
           T == {n \in Nat : n <= k => \E c : Has(k - n, c)}
<1>0. \A n \in Nat : n <= k => k - n \in 0 .. k
  OBVIOUS
<1>1. 0 \in T
  <2>1. <<>> \in Seq(S) /\ out[k] \o <<>> = out[k]
    BY ConcatEmptySeq
  <2>2. Has(k - 0, <<>>)
    BY <2>1
  <2> HIDE DEF Has
  <2> QED
    BY <2>2
<1>2. ASSUME NEW n \in Nat, n \in T PROVE n + 1 \in T
  <2> SUFFICES ASSUME n + 1 <= k PROVE \E c : Has(k - (n + 1), c)
    OBVIOUS
  <2> DEFINE i == k - (n + 1)
  <2>1. i \in 0 .. k /\ i + 1 \in 1 .. k /\ k - n = i + 1 /\ (i + 1) - 1 = i /\ n <= k
    OBVIOUS
  <2>2. PICK c : Has(i + 1, c)
    BY <1>2, <2>1
  <2> HIDE DEF i
  <2>3. out[i + 1] = out[i] \o bs[i + 1] /\ bs[i + 1] \in Seq(S) /\ out[i] \in Seq(S)
    BY <2>1
  <2>4. (out[i] \o bs[i + 1]) \o c = out[i] \o (bs[i + 1] \o c) /\ bs[i + 1] \o c \in Seq(S)
    <3> DEFINE a == out[i]
               b == bs[i + 1]
    <3>1. a \in Seq(S) /\ b \in Seq(S) /\ c \in Seq(S)
      BY <2>2, <2>3
    <3> HIDE DEF a, b
    <3>2. (a \o b) \o c = a \o (b \o c) /\ b \o c \in Seq(S)
      BY <3>1, JoinAssociative
    <3> QED BY <3>2 DEF a, b
  <2>5. Has(i, bs[i + 1] \o c)
    BY <2>2, <2>3, <2>4, Zenon
  <2> HIDE DEF Has
  <2> QED BY <2>5 DEF i
<1>3. Nat \subseteq T
  <2> HIDE DEF T
  <2> QED BY <1>1, <1>2, SetInduction
<1>4. ASSUME NEW i \in 0 .. k PROVE \E c : Has(i, c)
  <2>1. k - i \in Nat /\ k - (k - i) = i /\ k - i <= k
    OBVIOUS
  <2>2. k - i \in T
    BY <1>3, <2>1
  <2> HIDE DEF Has
  <2> QED
    BY <2>1, <2>2
<1> DEFINE cs == [i \in 0 .. k |-> CHOOSE c : Has(i, c)]
<1>5. \A i \in 0 .. k : Has(i, cs[i])
  <2> HIDE DEF Has
  <2> QED BY <1>4
<1> HIDE DEF cs
<1>6. cs[k] = <<>>
  <2>1. k \in 0 .. k
    OBVIOUS
  <2>2. out[k] = out[k] \o cs[k] /\ cs[k] \in Seq(S) /\ out[k] \in Seq(S)
    BY <1>5, <2>1
  <2>3. out[k] \o <<>> = out[k] /\ <<>> \in Seq(S)
    BY <2>2, JoinNothing, Zenon
  <2>4. out[k] \o cs[k] = out[k] \o <<>>
    BY <2>2, <2>3, Zenon
  <2> QED
    BY <2>2, <2>3, <2>4, JoinCancels, Zenon
<1>7. ASSUME NEW i \in 0 .. k - 1 PROVE cs[i] = bs[i + 1] \o cs[i + 1]
  <2>1. /\ i \in 0 .. k /\ i + 1 \in 0 .. k /\ i + 1 \in 1 .. k /\ (i + 1) - 1 = i
    OBVIOUS
  <2>2. /\ out[k] = out[i] \o cs[i] /\ cs[i] \in Seq(S) /\ out[i] \in Seq(S)
        /\ out[k] = out[i + 1] \o cs[i + 1] /\ cs[i + 1] \in Seq(S)
        /\ out[i + 1] = out[i] \o bs[i + 1] /\ bs[i + 1] \in Seq(S)
    BY <1>5, <2>1
  <2>3. bs[i + 1] \o cs[i + 1] \in Seq(S)
        /\ out[i] \o (bs[i + 1] \o cs[i + 1]) = (out[i] \o bs[i + 1]) \o cs[i + 1]
    <3> DEFINE a == out[i]
               b == bs[i + 1]
               c == cs[i + 1]
    <3>1. a \in Seq(S) /\ b \in Seq(S) /\ c \in Seq(S)
      BY <2>2
    <3> HIDE DEF a, b, c
    <3>2. a \o (b \o c) = (a \o b) \o c /\ b \o c \in Seq(S)
      BY <3>1, JoinAssociative, SMTT(30)
    <3> QED BY <3>2 DEF a, b, c
  <2>4. out[i] \o cs[i] = out[i] \o (bs[i + 1] \o cs[i + 1])
    BY <2>2, <2>3, Zenon
  <2> QED
    BY <2>2, <2>3, <2>4, JoinCancels, ZenonT(60)
<1> QED
  BY <1>5, <1>6, <1>7 DEF Later

-----------------------------------------------------------------------------
(* Bytes and strings, read where they were written.                        *)

\* An AMF0 decoder that has these bytes left, and an AMF3 decoder with its tables.
At0(bytes) == [in |-> bytes, ok |-> TRUE]
At3(bytes, strs, objs) == [in |-> bytes, strs |-> strs, objs |-> objs, ok |-> TRUE]

\* Reading changes the bytes left.
LEMMA OnlyIn0 ==
    ASSUME NEW x, NEW y
    PROVE  [At0(x) EXCEPT !.in = y] = At0(y)
<1> DEFINE ok == TRUE
<1> HIDE DEF ok
<1>1. [[in |-> x, ok |-> ok] EXCEPT !.in = y] = [in |-> y, ok |-> ok]
  OBVIOUS
<1> QED
  BY <1>1, Zenon DEF At0, ok

\* To consume bytes changes nothing else of an AMF3 decoder.
LEMMA OnlyIn3 ==
    ASSUME NEW x, NEW y, NEW strs, NEW objs
    PROVE  [At3(x, strs, objs) EXCEPT !.in = y] = At3(y, strs, objs)
<1> DEFINE ok == TRUE
<1> HIDE DEF ok
<1>1. [[in |-> x, strs |-> strs, objs |-> objs, ok |-> ok] EXCEPT !.in = y]
        = [in |-> y, strs |-> strs, objs |-> objs, ok |-> ok]
  OBVIOUS
<1> QED
  BY <1>1, Zenon DEF At3, ok

\* io.ReadFull gives the bytes asked for, and leaves the others.
LEMMA TakeGives ==
    ASSUME NEW a \in Seq(Byte), NEW rest \in Seq(Byte), NEW n, n = Len(a)
    PROVE  /\ Take(At0(a \o rest), n) = Ok(At0(rest), a)
           /\ \A strs, objs : Take(At3(a \o rest, strs, objs), n) = Ok(At3(rest, strs, objs), a)
<1> DEFINE x == a \o rest
<1>1. /\ x \in Seq(Byte) /\ n \in 0 .. Len(x)
      /\ SubSeq(x, 1, n) = a /\ SubSeq(x, n + 1, Len(x)) = rest
  BY JoinedRest
<1> HIDE DEF x
<1>2. Take(At0(x), n) = Ok(At0(rest), a)
  <2>1. At0(x).in = x
    BY DEF At0
  <2>2. [At0(x) EXCEPT !.in = rest] = At0(rest)
    BY OnlyIn0, Zenon
  <2> QED
    BY <1>1, <2>1, <2>2, Zenon DEF Take
<1>3. ASSUME NEW strs, NEW objs
      PROVE  Take(At3(x, strs, objs), n) = Ok(At3(rest, strs, objs), a)
  <2>1. At3(x, strs, objs).in = x
    BY DEF At3
  <2>2. [At3(x, strs, objs) EXCEPT !.in = rest] = At3(rest, strs, objs)
    BY OnlyIn3, SMT
  <2> QED
    BY <1>1, <2>1, <2>2, Zenon DEF Take
<1> QED
  BY <1>2, <1>3 DEF x

\* A number of two bytes, and one of four, is read as it was written.
LEMMA UInt16Is ==
    ASSUME NEW n \in Nat, n < 256 * 256
    PROVE  UInt16(n) \in Seq(Byte) /\ Len(UInt16(n)) = 2 /\ Number(UInt16(n)) = n
<1>1. /\ n \div 256 \in 0 .. 255 /\ n % 256 \in 0 .. 255
      /\ (n \div 256) * 256 + (n % 256) = n
  OBVIOUS
<1>2. UInt16(n) \in Seq(Byte) /\ Len(UInt16(n)) = 2
      /\ UInt16(n)[1] = n \div 256 /\ UInt16(n)[2] = n % 256
  BY <1>1 DEF UInt16, Byte
<1> QED
  BY <1>1, <1>2 DEF Number

\* The successive quotients and remainders of a number of 24 bits.
LEMMA ThreeBytesOf ==
    ASSUME NEW n \in Nat, n < 256 * 256 * 256, NEW q, q = n \div 256, NEW p, p = q \div 256
    PROVE  /\ n \div (256 * 256) = p /\ p \in 0 .. 255
           /\ (n \div (256 * 256 * 256)) % 256 = 0
           /\ p * (256 * 256) + (q % 256) * 256 + (n % 256) = n
           /\ p % 256 = p
<1>1. n = q * 256 + (n % 256) /\ n % 256 \in 0 .. 255 /\ q \in Nat
  OBVIOUS
<1>2. q = p * 256 + (q % 256) /\ q % 256 \in 0 .. 255 /\ p \in Nat
  OBVIOUS
<1>3. p < 256
  BY <1>1, <1>2
<1>4. n \div (256 * 256) = p
  BY <1>1, <1>2
<1>5. n \div (256 * 256 * 256) = 0
  OBVIOUS
<1> QED
  BY <1>1, <1>2, <1>3, <1>4, <1>5

\* A number of four bytes has four bytes.
LEMMA UInt32Type ==
    ASSUME NEW n \in Nat
    PROVE  UInt32(n) \in Seq(Byte) /\ Len(UInt32(n)) = 4
<1>1. /\ (n \div (256 * 256 * 256)) % 256 \in 0 .. 255
      /\ (n \div (256 * 256)) % 256 \in 0 .. 255
      /\ (n \div 256) % 256 \in 0 .. 255
      /\ n % 256 \in 0 .. 255
  OBVIOUS
<1> QED
  BY <1>1 DEF UInt32, Byte

\* A number of less than 2^24 is made again of its bytes, in terms of its quotients.
LEMMA UInt32Of ==
    ASSUME NEW n \in Nat, n < 256 * 256 * 256, NEW q, q = n \div 256, NEW p, p = q \div 256
    PROVE  Number(UInt32(n)) = n
<1>1. /\ n \div (256 * 256) = p /\ p \in 0 .. 255
      /\ (n \div (256 * 256 * 256)) % 256 = 0
      /\ p * (256 * 256) + (q % 256) * 256 + (n % 256) = n
      /\ p % 256 = p
  BY ThreeBytesOf
<1>2. /\ Len(UInt32(n)) = 4 /\ UInt32(n)[1] = 0 /\ UInt32(n)[2] = p
      /\ UInt32(n)[3] = q % 256 /\ UInt32(n)[4] = n % 256
  BY <1>1 DEF UInt32
<1>3. SignByte(0) * TwoTo24 = 0
  BY DEF SignByte, TwoTo24, TwoTo21
<1>4. Number(UInt32(n))
        = SignByte(0) * TwoTo24 + p * (256 * 256) + (q % 256) * 256 + (n % 256)
  BY <1>2 DEF Number
<1>5. n % 256 \in Int /\ q % 256 \in Int
  OBVIOUS
<1> QED
  BY <1>1, <1>3, <1>4, <1>5

\* A number of less than 2^24 is made again of its four bytes.
LEMMA UInt32Is ==
    ASSUME NEW n \in Nat, n < TwoTo24
    PROVE  Number(UInt32(n)) = n
<1>1. n < 256 * 256 * 256
  BY DEF TwoTo24, TwoTo21
<1> QED
  BY <1>1, UInt32Of

\* What has been read, and what is left.
LEMMA OkHas ==
    ASSUME NEW d, NEW v
    PROVE  Ok(d, v).d = d /\ Ok(d, v).val = v
BY DEF Ok

\* The fields of a decoder that is in order.
LEMMA AtHas ==
    ASSUME NEW x, NEW s, NEW o
    PROVE  /\ At0(x).in = x /\ At0(x).ok
           /\ At3(x, s, o).in = x /\ At3(x, s, o).strs = s /\ At3(x, s, o).objs = o
           /\ At3(x, s, o).ok
BY DEF At0, At3

\* A string as WriteShort writes it.
ShortBytes(s) == UInt16(Len(s)) \o s
LongBytes(s) == UInt32(Len(s)) \o s

\* A number of some bytes is read of just those.
LEMMA ReadUIntGives ==
    ASSUME NEW a \in Seq(Byte), NEW rest \in Seq(Byte)
    PROVE  ReadUInt(At0(a \o rest), Len(a)) = Ok(At0(rest), Number(a))
<1>1. Take(At0(a \o rest), Len(a)) = Ok(At0(rest), a)
  BY TakeGives
<1> QED
  BY <1>1, OkHas, AtHas, SMT DEF ReadUInt, Bind

\* The longest string with a short length is longer than nothing, and its length fits.
LEMMA MaxShortIs == MaxShort \in Nat /\ 1 <= MaxShort /\ MaxShort < 256 * 256
BY MaxShortAssumption

\* A length of two bytes.
LEMMA ShortLength ==
    ASSUME NEW s \in Seq(Byte), Len(s) <= MaxShort
    PROVE  /\ UInt16(Len(s)) \in Seq(Byte) /\ Len(UInt16(Len(s))) = 2
           /\ Number(UInt16(Len(s))) = Len(s) /\ Len(s) \in Nat
<1>1. Len(s) \in Nat /\ Len(s) < 256 * 256
  BY MaxShortIs
<1> QED
  BY <1>1, UInt16Is

\* A string with its length in front is read to its end.
LEMMA ReadUTF8Gives ==
    ASSUME NEW s \in Seq(Byte), NEW rest \in Seq(Byte)
    PROVE  /\ Len(s) <= MaxShort => ReadUTF8(At0(ShortBytes(s) \o rest), 2) = Ok(At0(rest), s)
           /\ Len(s) < TwoTo24 => ReadUTF8(At0(LongBytes(s) \o rest), 4) = Ok(At0(rest), s)
<1>0. Len(s) \in Nat
  OBVIOUS
<1>1. Take(At0(s \o rest), Len(s)) = Ok(At0(rest), s) /\ s \o rest \in Seq(Byte)
  BY TakeGives, JoinedRest
<1>2. ASSUME Len(s) <= MaxShort
      PROVE  ReadUTF8(At0(ShortBytes(s) \o rest), 2) = Ok(At0(rest), s)
  <2>1. UInt16(Len(s)) \in Seq(Byte) /\ Len(UInt16(Len(s))) = 2 /\ Number(UInt16(Len(s))) = Len(s)
    BY <1>2, ShortLength
  <2>2. ShortBytes(s) \o rest = UInt16(Len(s)) \o (s \o rest)
    BY <2>1, JoinAssociative, SMTT(30) DEF ShortBytes
  <2>3. ReadUInt(At0(UInt16(Len(s)) \o (s \o rest)), 2) = Ok(At0(s \o rest), Len(s))
    <3> DEFINE a == UInt16(Len(s))
               tail == s \o rest
    <3>1. a \in Seq(Byte) /\ tail \in Seq(Byte) /\ Len(a) = 2 /\ Number(a) = Len(s)
      BY <1>1, <2>1
    <3> HIDE DEF a, tail
    <3>2. ReadUInt(At0(a \o tail), Len(a)) = Ok(At0(tail), Number(a))
      BY <3>1, ReadUIntGives
    <3> QED BY <3>1, <3>2, Zenon DEF a, tail
  <2>4. ReadUInt(At0(ShortBytes(s) \o rest), 2) = Ok(At0(s \o rest), Len(s))
    BY <2>2, <2>3, Zenon
  <2> QED
    BY <1>1, <2>4, OkHas, AtHas, SMT DEF ReadUTF8, Bind
<1>3. ASSUME Len(s) < TwoTo24
      PROVE  ReadUTF8(At0(LongBytes(s) \o rest), 4) = Ok(At0(rest), s)
  <2>1. UInt32(Len(s)) \in Seq(Byte) /\ Len(UInt32(Len(s))) = 4 /\ Number(UInt32(Len(s))) = Len(s)
    BY <1>0, <1>3, UInt32Is, UInt32Type
  <2>2. LongBytes(s) \o rest = UInt32(Len(s)) \o (s \o rest)
    BY <2>1, JoinAssociative, SMTT(30) DEF LongBytes
  <2>3. ReadUInt(At0(UInt32(Len(s)) \o (s \o rest)), 4) = Ok(At0(s \o rest), Len(s))
    <3> DEFINE a == UInt32(Len(s))
               tail == s \o rest
    <3>1. a \in Seq(Byte) /\ tail \in Seq(Byte) /\ Len(a) = 4 /\ Number(a) = Len(s)
      BY <1>1, <2>1
    <3> HIDE DEF a, tail
    <3>2. ReadUInt(At0(a \o tail), Len(a)) = Ok(At0(tail), Number(a))
      BY <3>1, ReadUIntGives
    <3> QED BY <3>1, <3>2, Zenon DEF a, tail
  <2>4. ReadUInt(At0(LongBytes(s) \o rest), 4) = Ok(At0(s \o rest), Len(s))
    BY <2>2, <2>3, Zenon
  <2> QED
    BY <1>1, <2>4, OkHas, AtHas, SMT DEF ReadUTF8, Bind
<1> QED
  BY <1>2, <1>3

\* The end of an object: the empty key, and the marker.
EndBytes == ShortBytes(<<>>) \o <<ObjectEnd0>>

\* The marker for the end of an object is read as such.
LEMMA ReadObjectEndGives ==
    ASSUME NEW rest \in Seq(Byte)
    PROVE  ReadObjectEnd(At0(<<ObjectEnd0>> \o rest)) = Ok(At0(rest), <<>>)
<1>1. <<ObjectEnd0>> \in Seq(Byte) /\ Len(<<ObjectEnd0>>) = 1
  BY DEF ObjectEnd0, Byte
<1>2. Take(At0(<<ObjectEnd0>> \o rest), 1) = Ok(At0(rest), <<ObjectEnd0>>)
  BY <1>1, TakeGives
<1> QED
  BY <1>2, OkHas, AtHas, SMT DEF ReadObjectEnd, Bind

\* By its marker a value is read.
LEMMA MarkedGives ==
    ASSUME NEW marker \in Byte, NEW rest \in Seq(Byte), NEW inner
    PROVE  DecodeByMarker0(inner, At0(<<marker>> \o rest)) = DecodeMarked0(inner, At0(rest), marker)
<1>1. <<marker>> \in Seq(Byte) /\ Len(<<marker>>) = 1 /\ <<marker>>[1] = marker
  OBVIOUS
<1>2. Take(At0(<<marker>> \o rest), 1) = Ok(At0(rest), <<marker>>)
  BY <1>1, TakeGives
<1> QED
  BY <1>1, <1>2, OkHas, AtHas, SMT DEF DecodeByMarker0, Bind

-----------------------------------------------------------------------------
(* An encoder that takes its steps one after the other.                    *)

\* What writing leaves of an encoder.
LEMMA WriteHas0 ==
    ASSUME NEW e \in Encoder0, NEW b \in Seq(Byte)
    PROVE  /\ Write(e, b) \in Encoder0 /\ Write(e, b).out = e.out \o b /\ Write(e, b).ok = e.ok
           /\ Unsupported(e) \in Encoder0 /\ Unsupported(e).out = e.out /\ Unsupported(e).ok = FALSE
<1>1. e.out \o b \in Seq(Byte)
  BY JoinedRest DEF Encoder0
<1> QED
  BY <1>1 DEF Write, Unsupported, Encoder0

\* bs[i] is what the i-th of k steps from e to f appended, cs[i] what those after it did.
Parts(k, e, f, R, bs, cs) ==
  /\ f.out = e.out \o cs[0] /\ cs[k] = <<>>
  /\ \A i \in 0 .. k : cs[i] \in Seq(Byte)
  /\ \A i \in 1 .. k : bs[i] \in Seq(Byte) /\ (f.ok => <<i, bs[i]>> \in R)
  /\ \A i \in 0 .. k - 1 : cs[i] = bs[i + 1] \o cs[i + 1]

\* Each of k steps appends, and says whether it could; R has the bytes that the
\* i-th should append.
Appending0(k, steps, K, R) ==
  \A i \in 1 .. k : \A g \in Encoder0 :
    /\ steps[i][g] \in Encoder0
    /\ steps[i][g].ok <=> g.ok /\ i \in K
    /\ \E b \in Seq(Byte) : /\ steps[i][g].out = g.out \o b
                            /\ steps[i][g].ok => <<i, b>> \in R
Turned0(k, e, f, K, R) ==
  /\ f \in Encoder0
  /\ f.ok <=> e.ok /\ \A i \in 1 .. k : i \in K
  /\ \E bs, cs : Parts(k, e, f, R, bs, cs)

\* Of steps in turn the last could if all could.
LEMMA Turns0 ==
    ASSUME NEW k \in Nat, NEW steps, Len(steps) = k, NEW e \in Encoder0, NEW K, NEW R,
           Appending0(k, steps, K, R)
    PROVE  Turned0(k, e, InTurn(steps, e), K, R)
<1> SUFFICES LET f == InTurn(steps, e)
             IN  /\ f \in Encoder0
                 /\ f.ok <=> e.ok /\ \A i \in 1 .. k : i \in K
                 /\ \E bs, cs : Parts(k, e, f, R, bs, cs)
  BY Zenon DEF Turned0
<1>b. \A i \in 1 .. k, g \in Encoder0 :
             /\ steps[i][g] \in Encoder0
             /\ steps[i][g].ok <=> g.ok /\ i \in K
             /\ \E b \in Seq(Byte) : /\ steps[i][g].out = g.out \o b
                                     /\ steps[i][g].ok => <<i, b>> \in R
  BY DEF Appending0
<1> DEFINE Good(i, g, b) == /\ steps[i][g].out = g.out \o b
                            /\ steps[i][g].ok => <<i, b>> \in R
<1>0. PICK st : Turn(steps, k, e, st)
  BY InTurnIs
<1>1. /\ st[0] = e /\ InTurn(steps, e) = st[k]
      /\ \A i \in 1 .. k : st[i] = steps[i][st[i - 1]]
  BY <1>0 DEF Turn
<1> DEFINE T == {n \in Nat : n <= k => /\ st[n] \in Encoder0
                                       /\ st[n].ok <=> e.ok /\ \A i \in 1 .. n : i \in K}
<1>2. 0 \in T
  BY <1>1
<1>3. ASSUME NEW n \in Nat, n \in T PROVE n + 1 \in T
  <2> SUFFICES ASSUME n + 1 <= k
               PROVE  /\ st[n + 1] \in Encoder0
                      /\ st[n + 1].ok <=> e.ok /\ \A i \in 1 .. n + 1 : i \in K
    OBVIOUS
  <2>1. n + 1 \in 1 .. k /\ (n + 1) - 1 = n /\ n <= k
    OBVIOUS
  <2>2. st[n + 1] = steps[n + 1][st[n]]
    BY <1>1, <2>1
  <2>3. st[n] \in Encoder0 /\ (st[n].ok <=> e.ok /\ \A i \in 1 .. n : i \in K)
    BY <1>3, <2>1
  <2>4. st[n + 1] \in Encoder0 /\ (st[n + 1].ok <=> st[n].ok /\ n + 1 \in K)
    BY <1>b, <2>1, <2>2, <2>3
  <2>5. (\A i \in 1 .. n + 1 : i \in K) <=> (\A i \in 1 .. n : i \in K) /\ n + 1 \in K
    OBVIOUS
  <2> QED
    BY <2>3, <2>4, <2>5
<1>4. Nat \subseteq T
  <2> HIDE DEF T
  <2> QED BY <1>2, <1>3, SetInduction
<1>5. \A i \in 0 .. k : st[i] \in Encoder0 /\ (st[i].ok <=> e.ok /\ \A j \in 1 .. i : j \in K)
  <2>1. \A i \in 0 .. k : i \in Nat /\ i <= k
    OBVIOUS
  <2> QED
    BY <1>4, <2>1
<1> HIDE DEF T
<1> DEFINE out == [i \in 0 .. k |-> st[i].out]
           bs == [i \in 1 .. k |-> CHOOSE b \in Seq(Byte) : Good(i, st[i - 1], b)]
<1>6. \A i \in 1 .. k : bs[i] \in Seq(Byte) /\ Good(i, st[i - 1], bs[i])
  <2> SUFFICES ASSUME NEW i \in 1 .. k PROVE bs[i] \in Seq(Byte) /\ Good(i, st[i - 1], bs[i])
    OBVIOUS
  <2>1. i - 1 \in 0 .. k
    OBVIOUS
  <2>2. st[i - 1] \in Encoder0
    BY <1>5, <2>1
  <2>3. \E b \in Seq(Byte) : Good(i, st[i - 1], b)
    BY <1>b, <2>2
  <2> HIDE DEF Good
  <2> QED
    BY <2>3, SMTT(40)
<1>7. /\ \A i \in 0 .. k : out[i] \in Seq(Byte)
      /\ \A i \in 1 .. k : bs[i] \in Seq(Byte) /\ out[i] = out[i - 1] \o bs[i]
  <2>1. \A i \in 0 .. k : out[i] \in Seq(Byte)
    BY <1>5 DEF Encoder0
  <2>2. ASSUME NEW i \in 1 .. k PROVE out[i] = out[i - 1] \o bs[i]
    <3>1. i \in 0 .. k /\ i - 1 \in 0 .. k
      OBVIOUS
    <3>2. st[i].out = st[i - 1].out \o bs[i]
      <4> HIDE DEF bs
      <4> QED BY <1>1, <1>6
    <3> HIDE DEF bs
    <3> QED
      BY <3>1, <3>2
  <2> HIDE DEF out, bs, Good
  <2> QED
    BY <1>6, <2>1, <2>2
<1>8. PICK cs : Later(Byte, k, out, bs, cs)
  <2> HIDE DEF out, bs
  <2> QED BY <1>7, LaterBytes DEF Appends
<1>9. out[k] = st[k].out /\ out[0] = e.out /\ 0 \in 0 .. k /\ k \in 0 .. k
  BY <1>1
<1>10. ASSUME st[k].ok, NEW i \in 1 .. k PROVE <<i, bs[i]>> \in R
  <2>1. i \in 0 .. k /\ \A j \in 1 .. i : j \in 1 .. k
    OBVIOUS
  <2>2. st[i].ok
    BY <1>5, <1>9, <1>10, <2>1
  <2>3. st[i] = steps[i][st[i - 1]]
    BY <1>1
  <2> HIDE DEF bs
  <2> QED
    BY <1>6, <2>2, <2>3
<1> HIDE DEF bs, out, Good
<1>11. \A i \in 1 .. k : bs[i] \in Seq(Byte)
  BY <1>6
<1>12. st[k].out = e.out \o cs[0] /\ \A i \in 0 .. k : cs[i] \in Seq(Byte)
  BY <1>8, <1>9 DEF Later
<1>13. st[k] \in Encoder0 /\ (st[k].ok <=> e.ok /\ \A j \in 1 .. k : j \in K)
  BY <1>5, <1>9
<1>14. Parts(k, e, st[k], R, bs, cs)
  BY <1>8, <1>10, <1>11, <1>12 DEF Parts, Later
<1> QED
  BY <1>1, <1>13, <1>14

-----------------------------------------------------------------------------
(* Everything that is in a value, and the values there are.                *)

\* Every member of s is in T.
AllIn(s, T) == \A i \in DOMAIN s : s[i] \in T

\* All of a joined sequence is all of both.
LEMMA AllInJoin ==
    ASSUME NEW S, NEW a \in Seq(S), NEW b \in Seq(S), NEW T
    PROVE  AllIn(a \o b, T) <=> AllIn(a, T) /\ AllIn(b, T)
<1>1. /\ Len(a) \in Nat /\ Len(b) \in Nat
      /\ DOMAIN a = 1 .. Len(a) /\ DOMAIN b = 1 .. Len(b)
      /\ DOMAIN (a \o b) = 1 .. Len(a) + Len(b)
      /\ \A i \in 1 .. Len(a) + Len(b) :
           (a \o b)[i] = IF i <= Len(a) THEN a[i] ELSE b[i - Len(a)]
  BY ConcatProperties, LenProperties
<1>2. ASSUME AllIn(a \o b, T) PROVE AllIn(a, T) /\ AllIn(b, T)
  <2>1. \A i \in 1 .. Len(a) : a[i] = (a \o b)[i] /\ i \in 1 .. Len(a) + Len(b)
    BY <1>1
  <2>2. \A i \in 1 .. Len(b) :
          /\ Len(a) + i \in 1 .. Len(a) + Len(b) /\ ~(Len(a) + i <= Len(a))
          /\ (Len(a) + i) - Len(a) = i
    BY <1>1
  <2>3. \A i \in 1 .. Len(b) : b[i] = (a \o b)[Len(a) + i]
    BY <1>1, <2>2
  <2> QED
    BY <1>1, <1>2, <2>1, <2>2, <2>3 DEF AllIn
<1>3. ASSUME AllIn(a, T), AllIn(b, T) PROVE AllIn(a \o b, T)
  <2>1. \A i \in 1 .. Len(a) + Len(b) :
          i \in 1 .. Len(a) \/ (~(i <= Len(a)) /\ i - Len(a) \in 1 .. Len(b))
    BY <1>1
  <2> QED
    BY <1>1, <1>3, <2>1 DEF AllIn
<1> QED
  BY <1>2, <1>3

\* What is joined has no other members than the sequences joined.
LEMMA AllInFlatten ==
    ASSUME NEW S, NEW T
    PROVE  \A ss \in Seq(Seq(S)) : AllIn(FlattenSeq(ss), T) <=> \A j \in DOMAIN ss : AllIn(ss[j], T)
<1> DEFINE Holds(ss) == AllIn(FlattenSeq(ss), T) <=> \A j \in DOMAIN ss : AllIn(ss[j], T)
           N == {n \in Nat : \A ss \in Seq(Seq(S)) : Len(ss) = n => Holds(ss)}
<1>1. 0 \in N
  <2> SUFFICES ASSUME NEW ss \in Seq(Seq(S)), Len(ss) = 0 PROVE Holds(ss)
    OBVIOUS
  <2>1. ss = <<>> /\ DOMAIN ss = {}
    OBVIOUS
  <2> QED
    BY <2>1, FlattenNone DEF AllIn
<1>2. ASSUME NEW n \in Nat, n \in N PROVE n + 1 \in N
  <2> SUFFICES ASSUME NEW ss \in Seq(Seq(S)), Len(ss) = n + 1 PROVE Holds(ss)
    OBVIOUS
  <2> DEFINE tt == SubSeq(ss, 1, n)
             s == ss[n + 1]
  <2>1. /\ tt \in Seq(Seq(S)) /\ Len(tt) = n /\ s \in Seq(S) /\ ss = Append(tt, s)
        /\ DOMAIN ss = 1 .. n + 1 /\ DOMAIN tt = 1 .. n /\ \A j \in 1 .. n : tt[j] = ss[j]
    OBVIOUS
  <2>2. Holds(tt)
    BY <1>2, <2>1
  <2>3. FlattenSeq(ss) = FlattenSeq(tt) \o s /\ FlattenSeq(tt) \in Seq(S)
    <3> HIDE DEF tt, s
    <3> QED BY <2>1, FlattenAppend, FlattenType
  <2>4. AllIn(FlattenSeq(ss), T) <=> AllIn(FlattenSeq(tt), T) /\ AllIn(s, T)
    <3> HIDE DEF tt, s
    <3> QED BY <2>1, <2>3, AllInJoin
  <2>5. (\A j \in 1 .. n + 1 : AllIn(ss[j], T)) <=> (\A j \in 1 .. n : AllIn(tt[j], T)) /\ AllIn(s, T)
    <3>1. \A j \in 1 .. n + 1 : j \in 1 .. n \/ j = n + 1
      OBVIOUS
    <3>2. n + 1 \in 1 .. n + 1 /\ \A j \in 1 .. n : j \in 1 .. n + 1
      OBVIOUS
    <3> HIDE DEF tt
    <3> QED BY <2>1, <3>1, <3>2, Zenon
  <2> HIDE DEF tt, s
  <2> QED
    BY <2>1, <2>2, <2>4, <2>5
<1>3. Nat \subseteq N
  <2> HIDE DEF N
  <2> QED BY <1>1, <1>2, SetInduction
<1> QED
  BY <1>3

\* A list is a sequence, and what it has in it is in the set.
LEMMA ListHas ==
    ASSUME NEW S, NEW s \in List(S)
    PROVE  /\ s \in Seq(S) /\ Len(s) \in Nat /\ Len(s) < TwoTo24 /\ DOMAIN s = 1 .. Len(s)
           /\ \A i \in 1 .. Len(s) : s[i] \in S
BY DEF List

\* A map may be empty.
LEMMA NoneIsMapping == \A S : <<>> \in Mapping(S) /\ <<>> \in List(S)
BY DEF Mapping, List, TwoTo24, TwoTo21

\* A scalar contains nothing; what a container contains.
LEMMA Contents ==
    ASSUME NEW S, NEW v
    PROVE  /\ v \in Scalar => PairsOf(v) = <<>> /\ ElementsOf(v) = <<>>
           /\ v \in Container(S) => /\ PairsOf(v) \in List(GoString \X S)
                                   /\ PairsOf(v) \in Mapping(S) /\ ElementsOf(v) \in List(S)
<1>1. ASSUME v \in Scalar PROVE PairsOf(v) = <<>> /\ ElementsOf(v) = <<>>
  <2>1. v[1] \notin {"map", "AMF0Object", "AMF3Object", "AMF3Array", "AMF0EcmaArray",
                     "AMF0TypedObject", "slice", "AMF0StrictArray"}
    BY <1>1 DEF Scalar
  <2> QED
    BY <2>1, Zenon DEF PairsOf, ElementsOf
<1>2. ASSUME v \in Container(S)
      PROVE  PairsOf(v) \in Mapping(S) /\ ElementsOf(v) \in List(S)
  <2>0. <<>> \in Mapping(S) /\ <<>> \in List(S)
    BY NoneIsMapping
  <2>1. CASE v[1] \in {"slice", "AMF0StrictArray"} /\ v[2] \in List(S)
    <3>1. PairsOf(v) = <<>> /\ ElementsOf(v) = v[2]
      BY <2>1, Zenon DEF PairsOf, ElementsOf
    <3> QED
      BY <2>0, <2>1, <3>1
  <2>2. CASE v[1] \in {"map", "AMF0Object", "AMF3Object"} /\ v[2] \in Mapping(S)
    <3>1. PairsOf(v) = v[2] /\ ElementsOf(v) = <<>>
      BY <2>2, Zenon DEF PairsOf, ElementsOf
    <3> QED
      BY <2>0, <2>2, <3>1
  <2>3. CASE /\ v[1] = "AMF3Array"
             /\ v[2] \in [dense : List(S), associative : Mapping(S)]
    <3>1. PairsOf(v) = v[2].associative /\ ElementsOf(v) = v[2].dense
      BY <2>3, Zenon DEF PairsOf, ElementsOf
    <3> QED
      BY <2>3, <3>1
  <2>4. CASE /\ v[1] \in {"AMF0EcmaArray", "AMF0TypedObject"}
             /\ v[2].properties \in Mapping(S)
    <3>1. PairsOf(v) = v[2].properties /\ ElementsOf(v) = <<>>
      BY <2>4, Zenon DEF PairsOf, ElementsOf
    <3> QED
      BY <2>0, <2>4, <3>1
  <2> QED
    BY <1>2, <2>1, <2>2, <2>3, <2>4 DEF Container
<1>3. Mapping(S) \subseteq List(GoString \X S)
  BY DEF Mapping
<1> QED
  BY <1>1, <1>2, <1>3

\* Values, however deep.
AnyValue == UNION {Value[n] : n \in Nat}

\* What is nested n deep.
LEMMA ValuesAre ==
    /\ Value[0] = Scalar
    /\ \A n \in Nat : Value[n + 1] = Scalar \cup Container(Value[n])
    /\ \A n \in Nat : Value[n] \subseteq AnyValue
<1>1. \A n \in Nat : Value[n] = ValueStep(n, Inside(Value, n))
  BY ValueIs, Zenon
<1>2. Value[0] = Scalar
  BY <1>1, Zenon DEF ValueStep
<1>3. ASSUME NEW n \in Nat PROVE Value[n + 1] = Scalar \cup Container(Value[n])
  <2>1. n + 1 \in Nat /\ n + 1 # 0 /\ (n + 1) - 1 = n
    OBVIOUS
  <2> QED
    BY <1>1, <2>1 DEF ValueStep, Inside
<1> QED
  BY <1>2, <1>3, Zenon DEF AnyValue

\* The values that may be in one that is nested n deep.
Within(n) == IF n = 0 THEN {} ELSE Value[n - 1]

\* The pairs and elements of a value are of the values one less deep.
LEMMA WithinIs ==
    ASSUME NEW n \in Nat, NEW v \in Value[n]
    PROVE  /\ v \in AnyValue /\ Within(n) \subseteq AnyValue
           /\ PairsOf(v) \in List(GoString \X Within(n)) /\ ElementsOf(v) \in List(Within(n))
           /\ PairsOf(v) \in Mapping(Within(n))
           /\ v \in Scalar \cup Container(Within(n))
<1>1. CASE n = 0
  <2>1. Within(n) = {} /\ v \in Scalar
    BY <1>1, ValuesAre DEF Within
  <2>2. PairsOf(v) = <<>> /\ ElementsOf(v) = <<>>
    BY <2>1, Contents
  <2> QED
    BY <2>1, <2>2, NoneIsMapping, ValuesAre
<1>2. CASE n # 0
  <2>1. n - 1 \in Nat /\ (n - 1) + 1 = n
    BY <1>2
  <2>2. Within(n) = Value[n - 1] /\ v \in Scalar \cup Container(Value[n - 1])
    BY <1>2, <2>1, ValuesAre DEF Within
  <2>3. Value[n - 1] \subseteq AnyValue /\ Value[n] \subseteq AnyValue
    BY <2>1, ValuesAre
  <2>4. /\ PairsOf(v) \in List(GoString \X Within(n)) /\ ElementsOf(v) \in List(Within(n))
        /\ PairsOf(v) \in Mapping(Within(n))
    <3>1. CASE v \in Scalar
      BY <3>1, NoneIsMapping, Contents
    <3>2. CASE v \in Container(Value[n - 1])
      <4>1. v \in Container(Within(n))
        BY <2>2, <3>2
      <4> HIDE DEF Within
      <4> QED
        BY <4>1, Contents
    <3> QED
      BY <2>2, <3>1, <3>2
  <2> QED
    BY <2>2, <2>3, <2>4
<1> QED
  BY <1>1, <1>2

\* What is visited in v: v, and what is visited in what v contains.
LEMMA VisitByHas ==
    ASSUME NEW V, NEW vis, \A w \in V : vis[w] \in Seq(AnyValue), NEW v \in AnyValue,
           PairsOf(v) \in List(GoString \X V), ElementsOf(v) \in List(V)
    PROVE  /\ VisitBy(vis, v) \in Seq(AnyValue)
           /\ \A T : AllIn(VisitBy(vis, v), T) <=>
                       /\ v \in T
                       /\ \A i \in DOMAIN PairsOf(v) : AllIn(vis[PairsOf(v)[i][2]], T)
                       /\ \A i \in DOMAIN ElementsOf(v) : AllIn(vis[ElementsOf(v)[i]], T)
<1> DEFINE a == [i \in DOMAIN PairsOf(v) |-> vis[PairsOf(v)[i][2]]]
           b == [i \in DOMAIN ElementsOf(v) |-> vis[ElementsOf(v)[i]]]
           Q == Seq(AnyValue)
<1>1. /\ Len(PairsOf(v)) \in Nat /\ DOMAIN PairsOf(v) = 1 .. Len(PairsOf(v))
      /\ \A i \in 1 .. Len(PairsOf(v)) : PairsOf(v)[i][2] \in V
  <2> DEFINE s == PairsOf(v)
  <2>1. /\ Len(s) \in Nat /\ DOMAIN s = 1 .. Len(s)
        /\ \A i \in 1 .. Len(s) : s[i] \in GoString \X V
    <3>1. s \in List(GoString \X V)
      OBVIOUS
    <3> HIDE DEF s
    <3> QED BY <3>1, ListHas
  <2> QED
    BY <2>1
<1>2. /\ Len(ElementsOf(v)) \in Nat /\ DOMAIN ElementsOf(v) = 1 .. Len(ElementsOf(v))
      /\ \A i \in 1 .. Len(ElementsOf(v)) : ElementsOf(v)[i] \in V
  BY ListHas
<1>3. a \in Seq(Q) /\ DOMAIN a = DOMAIN PairsOf(v)
  <2>1. \A i \in 1 .. Len(PairsOf(v)) : vis[PairsOf(v)[i][2]] \in Q
    BY <1>1
  <2> QED
    BY <1>1, <2>1, IsASeq
<1>4. b \in Seq(Q) /\ DOMAIN b = DOMAIN ElementsOf(v)
  <2>1. \A i \in 1 .. Len(ElementsOf(v)) : vis[ElementsOf(v)[i]] \in Q
    BY <1>2
  <2> QED
    BY <1>2, <2>1, IsASeq
<1>5. VisitBy(vis, v) = <<v>> \o FlattenSeq(a \o b)
  BY Zenon DEF VisitBy
<1>6. a \o b \in Seq(Q) /\ FlattenSeq(a \o b) \in Q /\ <<v>> \in Q
  <2>1. a \o b \in Seq(Q)
    <3> HIDE DEF a, b, Q
    <3> QED BY <1>3, <1>4, JoinedRest
  <2> DEFINE c == a \o b
  <2>2. c \in Seq(Seq(AnyValue))
    BY <2>1
  <2> HIDE DEF c
  <2>3. FlattenSeq(c) \in Seq(AnyValue)
    BY <2>2, FlattenType
  <2> QED BY <2>1, <2>3 DEF c
<1>7. VisitBy(vis, v) \in Seq(AnyValue)
  <2> DEFINE c == FlattenSeq(a \o b)
             d == <<v>>
  <2>1. c \in Seq(AnyValue) /\ d \in Seq(AnyValue)
    BY <1>6
  <2> HIDE DEF c, d
  <2>2. d \o c \in Seq(AnyValue)
    BY <2>1, JoinedRest
  <2> QED BY <1>5, <2>2, Zenon DEF c, d
<1>8. ASSUME NEW T
      PROVE  AllIn(VisitBy(vis, v), T) <=>
               /\ v \in T
               /\ \A i \in DOMAIN PairsOf(v) : AllIn(vis[PairsOf(v)[i][2]], T)
               /\ \A i \in DOMAIN ElementsOf(v) : AllIn(vis[ElementsOf(v)[i]], T)
  <2> DEFINE c == FlattenSeq(a \o b)
             d == <<v>>
             F == AllIn(c, T)
             all(s) == \A j \in DOMAIN s : AllIn(s[j], T)
  <2>1. AllIn(VisitBy(vis, v), T) <=> AllIn(d, T) /\ AllIn(c, T)
    <3>1. c \in Seq(AnyValue) /\ d \in Seq(AnyValue)
      BY <1>6
    <3> HIDE DEF c, d
    <3>2. AllIn(d \o c, T) <=> AllIn(d, T) /\ AllIn(c, T)
      BY <3>1, AllInJoin
    <3> QED BY <1>5, <3>2, Zenon DEF c, d
  <2>2. AllIn(d, T) <=> v \in T
    BY DEF AllIn
  <2>3. AllIn(c, T) <=> all(a \o b)
    <3> DEFINE s == a \o b
    <3>1. s \in Seq(Seq(AnyValue))
      BY <1>6
    <3> HIDE DEF s
    <3>2. AllIn(FlattenSeq(s), T) <=> all(s)
      BY <3>1, AllInFlatten
    <3> QED BY <3>2, Zenon DEF s
  <2>4. all(a \o b) <=> all(a) /\ all(b)
    <3> DEFINE TT == {s \in Seq(AnyValue) : AllIn(s, T)}
    <3>1. a \in Seq(Seq(AnyValue)) /\ b \in Seq(Seq(AnyValue)) /\ a \o b \in Seq(Seq(AnyValue))
      BY <1>3, <1>4, <1>6
    <3>2. \A s \in Seq(Seq(AnyValue)) : AllIn(s, TT) <=> all(s)
      <4>1. \A s \in Seq(Seq(AnyValue)) : \A j \in DOMAIN s : s[j] \in Seq(AnyValue)
        BY LenProperties, ElementOfSeq
      <4> QED
        BY <4>1 DEF AllIn
    <3> HIDE DEF a, b, TT
    <3>3. AllIn(a \o b, TT) <=> AllIn(a, TT) /\ AllIn(b, TT)
      BY <3>1, AllInJoin
    <3> HIDE DEF all
    <3> QED BY <3>1, <3>2, <3>3
  <2>5. /\ all(a) <=> \A i \in DOMAIN PairsOf(v) : AllIn(vis[PairsOf(v)[i][2]], T)
        /\ all(b) <=> \A i \in DOMAIN ElementsOf(v) : AllIn(vis[ElementsOf(v)[i]], T)
    BY <1>3, <1>4
  <2> HIDE DEF a, b, c, d, all
  <2> QED
    BY <2>1, <2>2, <2>3, <2>4, <2>5
<1> QED
  BY <1>7, <1>8

\* Visit says of a value what VisitBy does with Visit of the values one less deep.
LEMMA VisitEquation ==
    /\ \A n \in Nat : \A v \in Value[n] : Visit[n][v] = VisitBy(Inside(Visit, n), v)
    /\ \A n \in Nat : n # 0 => Inside(Visit, n) = Visit[n - 1]
<1>1. ASSUME NEW n \in Nat, NEW v \in Value[n] PROVE Visit[n][v] = VisitBy(Inside(Visit, n), v)
  <2>1. Visit[n] = VisitStep(n, Inside(Visit, n))
    BY VisitIs, Zenon
  <2> QED
    BY <2>1, Zenon DEF VisitStep
<1> QED
  BY <1>1, Zenon DEF Inside

\* What is visited is a sequence of values, and in T if v and what it contains is.
LEMMA VisitHas ==
    ASSUME NEW n \in Nat, NEW v \in Value[n]
    PROVE  /\ Visit[n][v] \in Seq(AnyValue)
           /\ \A T : AllIn(Visit[n][v], T) <=>
                       /\ v \in T
                       /\ \A i \in DOMAIN PairsOf(v) : AllIn(Inside(Visit, n)[PairsOf(v)[i][2]], T)
                       /\ \A i \in DOMAIN ElementsOf(v) : AllIn(Inside(Visit, n)[ElementsOf(v)[i]], T)
<1> DEFINE N == {m \in Nat : \A w \in Value[m] : Visit[m][w] \in Seq(AnyValue)}
<1>1. ASSUME NEW m \in Nat, m = 0 \/ m - 1 \in N
      PROVE  \A w \in Within(m) : Inside(Visit, m)[w] \in Seq(AnyValue)
  <2>1. CASE m = 0
    BY <2>1 DEF Within
  <2>2. CASE m # 0
    BY <1>1, <2>2, VisitEquation DEF Within
  <2> QED
    BY <2>1, <2>2
<1>2. ASSUME NEW m \in Nat, m = 0 \/ m - 1 \in N, NEW w \in Value[m]
      PROVE  /\ VisitBy(Inside(Visit, m), w) \in Seq(AnyValue)
             /\ \A T : AllIn(VisitBy(Inside(Visit, m), w), T) <=>
                         /\ w \in T
                         /\ \A i \in DOMAIN PairsOf(w) : AllIn(Inside(Visit, m)[PairsOf(w)[i][2]], T)
                         /\ \A i \in DOMAIN ElementsOf(w) : AllIn(Inside(Visit, m)[ElementsOf(w)[i]], T)
  <2> DEFINE vis == Inside(Visit, m)
             V == Within(m)
  <2>1. /\ \A x \in V : vis[x] \in Seq(AnyValue)
        /\ w \in AnyValue /\ PairsOf(w) \in List(GoString \X V) /\ ElementsOf(w) \in List(V)
    BY <1>1, <1>2, WithinIs
  <2> HIDE DEF vis, V
  <2>2. /\ VisitBy(vis, w) \in Seq(AnyValue)
        /\ \A T : AllIn(VisitBy(vis, w), T) <=>
                    /\ w \in T
                    /\ \A i \in DOMAIN PairsOf(w) : AllIn(vis[PairsOf(w)[i][2]], T)
                    /\ \A i \in DOMAIN ElementsOf(w) : AllIn(vis[ElementsOf(w)[i]], T)
    BY <2>1, VisitByHas
  <2> QED BY <2>2 DEF vis
<1>3. ASSUME NEW m \in Nat, m = 0 \/ m - 1 \in N PROVE m \in N
  <2> SUFFICES ASSUME NEW w \in Value[m] PROVE Visit[m][w] \in Seq(AnyValue)
    OBVIOUS
  <2>1. VisitBy(Inside(Visit, m), w) \in Seq(AnyValue)
    BY <1>2, <1>3
  <2> QED
    BY <2>1, VisitEquation
<1>4. Nat \subseteq N
  <2>1. 0 \in N
    BY <1>3
  <2>2. ASSUME NEW m \in Nat, m \in N PROVE m + 1 \in N
    <3>1. m + 1 \in Nat /\ (m + 1) - 1 = m
      OBVIOUS
    <3> QED
      BY <1>3, <2>2, <3>1
  <2> HIDE DEF N
  <2> QED
    BY <2>1, <2>2, SetInduction
<1>5. n = 0 \/ n - 1 \in N
  <2>1. n # 0 => n - 1 \in Nat
    OBVIOUS
  <2> QED
    BY <1>4, <2>1
<1> QED
  BY <1>2, <1>5, VisitEquation

-----------------------------------------------------------------------------
(* What AMF0 reads of some bytes, whatever follows them, with as many      *)
(* nested calls as there are bytes at least.                               *)

\* decodeValue and its loops, one call deeper.
LEMMA Decoding0Steps ==
    ASSUME NEW n \in Nat, n # 0, NEW x \in Seq(Byte)
    PROVE  /\ Decoding0[n].value[At0(x)] = DecodeByMarker0(Decoding0[n - 1], At0(x))
           /\ Decoding0[n].pairs[At0(x)] = DecodePairs0(Decoding0[n - 1], At0(x))
           /\ \A k \in Nat :
                Decoding0[n].elements[k][At0(x)] = DecodeElements(Decoding0[n - 1], At0(x), k)
<1>1. At0(x) \in Decoder0
  BY DEF At0, Decoder0
<1>2. Decoding0[n] = DecodeStep0(n, Inside(Decoding0, n))
  BY Decoding0Is, Zenon
<1>3. Inside(Decoding0, n) = Decoding0[n - 1]
  BY DEF Inside
<1>4. Decoding0[n] = DecodeStep0(n, Decoding0[n - 1])
  BY <1>2, <1>3
<1> DEFINE p == Decoding0[n - 1]
<1> HIDE DEF p
<1>5. /\ DecodeStep0(n, p).value[At0(x)] = DecodeByMarker0(p, At0(x))
      /\ DecodeStep0(n, p).pairs[At0(x)] = DecodePairs0(p, At0(x))
      /\ \A k \in Nat : DecodeStep0(n, p).elements[k][At0(x)] = DecodeElements(p, At0(x), k)
  BY <1>1 DEF DecodeStep0
<1> QED
  BY <1>4, <1>5 DEF p

\* One round of the loop over keys and values, and its end.
LEMMA PairsRound0 ==
    ASSUME NEW inner, NEW d, NEW e, NEW key, ReadUTF8(d, 2) = Ok(e, key), e.ok,
           NEW f, NEW v, NEW g, NEW rest
    PROVE  /\ key = <<>> => DecodePairs0(inner, d) = ReadObjectEnd(e)
           /\ key # <<>> /\ inner.value[e] = Ok(f, v) /\ f.ok /\ inner.pairs[f] = Ok(g, rest) /\ g.ok
                => DecodePairs0(inner, d) = Ok(g, <<<<key, v>>>> \o rest)
<1>1. /\ Ok(e, key).d = e /\ Ok(e, key).val = key
      /\ Ok(f, v).d = f /\ Ok(f, v).val = v
      /\ Ok(g, rest).d = g /\ Ok(g, rest).val = rest
  BY OkHas
<1>2. key = <<>> => DecodePairs0(inner, d) = ReadObjectEnd(e)
  BY <1>1, Zenon DEF DecodePairs0, Bind
<1>3. ASSUME key # <<>>, inner.value[e] = Ok(f, v), f.ok, inner.pairs[f] = Ok(g, rest), g.ok
      PROVE  DecodePairs0(inner, d) = Ok(g, <<<<key, v>>>> \o rest)
  BY <1>1, <1>3, ZenonT(60) DEF DecodePairs0, Bind
<1> QED
  BY <1>2, <1>3

\* One round of the loop over the elements.
LEMMA ElementsRound0 ==
    ASSUME NEW inner, NEW d, NEW k \in Nat, NEW e, NEW v, inner.value[d] = Ok(e, v), e.ok,
           NEW f, NEW rest, NEW j, j = k + 1
    PROVE  inner.elements[k][e] = Ok(f, rest) /\ f.ok
             => DecodeElements(inner, d, j) = Ok(f, <<v>> \o rest)
<1>1. /\ Ok(e, v).d = e /\ Ok(e, v).val = v
      /\ Ok(f, rest).d = f /\ Ok(f, rest).val = rest
      /\ j # 0 /\ j - 1 = k
  BY OkHas
<1> QED
  BY <1>1, ZenonT(60) DEF DecodeElements, Bind

\* From these bytes, and no others, the value x is read; so for pairs and elements.
Reads0(b, x) ==
  /\ b # <<>>
  /\ \A rest \in Seq(Byte) : \A m \in Nat :
       m > Len(b) => Decoding0[m].value[At0(b \o rest)] = Ok(At0(rest), x)
ReadsPairs0(b, xs) ==
  \A rest \in Seq(Byte) : \A m \in Nat :
    m > Len(b) => Decoding0[m].pairs[At0(b \o rest)] = Ok(At0(rest), xs)
ReadsElements0(b, k, xs) ==
  \A rest \in Seq(Byte) : \A m \in Nat :
    m > Len(b) + 1 => Decoding0[m].elements[k][At0(b \o rest)] = Ok(At0(rest), xs)

\* No elements, and one more.
LEMMA ReadsNoElement0 == ReadsElements0(<<>>, 0, <<>>)
<1> SUFFICES ASSUME NEW rest \in Seq(Byte), NEW m \in Nat, m > 1
             PROVE  Decoding0[m].elements[0][At0(<<>> \o rest)] = Ok(At0(rest), <<>>)
  <2>1. Len(<<>>) + 1 = 1
    OBVIOUS
  <2> QED BY <2>1 DEF ReadsElements0
<1>1. <<>> \o rest = rest
  BY JoinNothing
<1>2. Decoding0[m].elements[0][At0(rest)] = DecodeElements(Decoding0[m - 1], At0(rest), 0)
  <2>1. m # 0 /\ 0 \in Nat
    OBVIOUS
  <2> QED BY <2>1, Decoding0Steps
<1> QED
  BY <1>1, <1>2, Zenon DEF DecodeElements

\* An element, then others.
LEMMA ReadsElement0 ==
    ASSUME NEW b \in Seq(Byte), NEW c \in Seq(Byte), NEW x, NEW xs, NEW k \in Nat,
           Reads0(b, x), ReadsElements0(c, k, xs)
    PROVE  ReadsElements0(b \o c, k + 1, <<x>> \o xs)
<1> SUFFICES ASSUME NEW rest \in Seq(Byte), NEW m \in Nat, m > Len(b \o c) + 1
             PROVE  Decoding0[m].elements[k + 1][At0((b \o c) \o rest)] = Ok(At0(rest), <<x>> \o xs)
  BY DEF ReadsElements0
<1>1. (b \o c) \o rest = b \o (c \o rest) /\ b \o (c \o rest) \in Seq(Byte) /\ c \o rest \in Seq(Byte)
  <2>1. Join3(b, c, rest)
    BY JoinThree
  <2> QED
    BY <2>1, Zenon DEF Join3
<1>2. Len(b \o c) = Len(b) + Len(c) /\ Len(b) \in Nat /\ Len(c) \in Nat /\ Len(b) # 0
  <2>1. Join2(b, c)
    BY JoinTwo
  <2> QED
    BY <2>1, EmptySeq DEF Reads0, Join2
<1>3. m - 1 \in Nat /\ m # 0 /\ m - 1 > Len(b) /\ m - 1 > Len(c) + 1 /\ k + 1 \in Nat
  BY <1>2
<1> DEFINE p == Decoding0[m - 1]
           y == b \o (c \o rest)
           z == c \o rest
<1>4. Decoding0[m].elements[k + 1][At0(y)] = DecodeElements(p, At0(y), k + 1)
  <2>1. y \in Seq(Byte)
    BY <1>1
  <2> HIDE DEF y
  <2> QED BY <1>3, <2>1, Decoding0Steps
<1>5. p.value[At0(y)] = Ok(At0(z), x)
  <2>1. z \in Seq(Byte)
    BY <1>1
  <2> HIDE DEF z
  <2>2. Decoding0[m - 1].value[At0(b \o z)] = Ok(At0(z), x)
    BY <1>3, <2>1 DEF Reads0
  <2> QED BY <2>2, Zenon DEF z
<1>6. p.elements[k][At0(z)] = Ok(At0(rest), xs)
  BY <1>3 DEF ReadsElements0
<1>7. At0(z).ok /\ At0(rest).ok
  BY AtHas
<1> HIDE DEF p, y, z
<1>8. DecodeElements(p, At0(y), k + 1) = Ok(At0(rest), <<x>> \o xs)
  <2> DEFINE d == At0(y)
             e == At0(z)
             f == At0(rest)
  <2>1. p.value[d] = Ok(e, x) /\ e.ok /\ p.elements[k][e] = Ok(f, xs) /\ f.ok
    BY <1>5, <1>6, <1>7
  <2> HIDE DEF d, e, f
  <2>2. \A j : j = k + 1 => DecodeElements(p, d, j) = Ok(f, <<x>> \o xs)
    BY <2>1, ElementsRound0
  <2> QED BY <2>2, Zenon DEF d, f
<1> QED
  BY <1>1, <1>4, <1>8 DEF y

\* No pairs but the end, and one more.
LEMMA ReadsNoPair0 == EndBytes \in Seq(Byte) /\ Len(EndBytes) = 3 /\ ReadsPairs0(EndBytes, <<>>)
<1>0. /\ ShortBytes(<<>>) \in Seq(Byte) /\ Len(ShortBytes(<<>>)) = 2
      /\ <<ObjectEnd0>> \in Seq(Byte) /\ Len(<<ObjectEnd0>>) = 1
      /\ <<>> \in Seq(Byte) /\ Len(<<>>) <= MaxShort
  <2>1. Len(<<>>) = 0 /\ <<>> \in Seq(Byte)
    OBVIOUS
  <2>0. Len(<<>>) <= MaxShort
    BY <2>1, MaxShortIs
  <2>2. UInt16(0) \in Seq(Byte) /\ Len(UInt16(0)) = 2
    BY <2>0, <2>1, ShortLength
  <2> DEFINE u == UInt16(0)
  <2> HIDE DEF u
  <2>3. u \in Seq(Byte) => u \o <<>> = u
    BY JoinNothing
  <2>4. ShortBytes(<<>>) = UInt16(0)
    BY <2>1, <2>2, <2>3 DEF ShortBytes, u
  <2> QED
    BY <2>0, <2>1, <2>2, <2>4 DEF ObjectEnd0, Byte
<1>1. EndBytes \in Seq(Byte) /\ Len(EndBytes) = 3
  <2> DEFINE a == ShortBytes(<<>>)
             b == <<ObjectEnd0>>
  <2>1. a \in Seq(Byte) /\ Len(a) = 2 /\ b \in Seq(Byte) /\ Len(b) = 1
    BY <1>0
  <2> HIDE DEF a, b
  <2>2. Join2(a, b)
    BY <2>1, JoinTwo
  <2>3. a \o b \in Seq(Byte) /\ Len(a \o b) = 3
    BY <2>1, <2>2 DEF Join2
  <2> QED BY <2>3, Zenon DEF a, b, EndBytes
<1> SUFFICES ASSUME NEW rest \in Seq(Byte), NEW m \in Nat, m > 3
             PROVE  Decoding0[m].pairs[At0(EndBytes \o rest)] = Ok(At0(rest), <<>>)
  BY <1>1 DEF ReadsPairs0
<1> DEFINE tail == <<ObjectEnd0>> \o rest
           y == EndBytes \o rest
           p == Decoding0[m - 1]
<1>2. tail \in Seq(Byte) /\ y \in Seq(Byte) /\ y = ShortBytes(<<>>) \o tail
  <2> DEFINE a == ShortBytes(<<>>)
             b == <<ObjectEnd0>>
  <2>1. a \in Seq(Byte) /\ b \in Seq(Byte)
    BY <1>0
  <2> HIDE DEF a, b
  <2>2. Join3(a, b, rest)
    BY <2>1, JoinThree
  <2>3. b \o rest \in Seq(Byte) /\ (a \o b) \o rest \in Seq(Byte)
        /\ (a \o b) \o rest = a \o (b \o rest)
    BY <2>2, Zenon DEF Join3
  <2> QED BY <2>3, Zenon DEF a, b, EndBytes
<1>4. ReadUTF8(At0(y), 2) = Ok(At0(tail), <<>>)
  <2> HIDE DEF tail, y
  <2>1. ReadUTF8(At0(ShortBytes(<<>>) \o tail), 2) = Ok(At0(tail), <<>>)
    BY <1>0, <1>2, ReadUTF8Gives
  <2> QED BY <1>2, <2>1, Zenon
<1>5. ReadObjectEnd(At0(tail)) = Ok(At0(rest), <<>>)
  BY ReadObjectEndGives
<1>6. Decoding0[m].pairs[At0(y)] = DecodePairs0(p, At0(y))
  <2>1. m # 0 /\ y \in Seq(Byte)
    BY <1>2
  <2> HIDE DEF tail, y
  <2> QED BY <2>1, Decoding0Steps
<1>7. At0(tail).ok
  BY AtHas
<1> HIDE DEF tail, p, y
<1>8. DecodePairs0(p, At0(y)) = Ok(At0(rest), <<>>)
  BY <1>4, <1>5, <1>7, PairsRound0
<1> QED
  BY <1>1, <1>6, <1>8 DEF y

\* A short string in bytes.
LEMMA ShortBytesType ==
    ASSUME NEW s \in Seq(Byte), Len(s) <= MaxShort
    PROVE  /\ ShortBytes(s) \in Seq(Byte) /\ Len(ShortBytes(s)) = Len(s) + 2 /\ Len(s) \in Nat
           /\ UInt16(Len(s)) \o s = ShortBytes(s)
<1>1. UInt16(Len(s)) \in Seq(Byte) /\ Len(UInt16(Len(s))) = 2 /\ Len(s) \in Nat
  BY ShortLength
<1> DEFINE a == UInt16(Len(s))
<1> HIDE DEF a
<1>2. a \in Seq(Byte) /\ Len(a) = 2
  BY <1>1 DEF a
<1>3. Join2(a, s)
  BY <1>2, JoinTwo
<1>4. a \o s \in Seq(Byte) /\ Len(a \o s) = Len(s) + 2
  BY <1>1, <1>2, <1>3 DEF Join2
<1> QED
  BY <1>1, <1>4, Zenon DEF ShortBytes, a

\* A key and its value, then other pairs.
LEMMA ReadsPair0 ==
    ASSUME NEW key \in Seq(Byte), key # <<>>, Len(key) <= MaxShort,
           NEW b \in Seq(Byte), NEW c \in Seq(Byte), NEW x, NEW xs,
           Reads0(b, x), ReadsPairs0(c, xs)
    PROVE  ReadsPairs0((ShortBytes(key) \o b) \o c, <<<<key, x>>>> \o xs)
<1> DEFINE s == ShortBytes(key)
<1>0. s \in Seq(Byte) /\ Len(s) = Len(key) + 2 /\ Len(key) \in Nat
  BY ShortBytesType
<1> HIDE DEF s
<1>a. SUFFICES ASSUME NEW rest \in Seq(Byte), NEW m \in Nat, m > Len((s \o b) \o c)
      PROVE  Decoding0[m].pairs[At0(((s \o b) \o c) \o rest)] = Ok(At0(rest), <<<<key, x>>>> \o xs)
  BY DEF ReadsPairs0, s
<1> DEFINE tail == c \o rest
           z == b \o tail
           y == s \o z
           p == Decoding0[m - 1]
<1>1. tail \in Seq(Byte) /\ z \in Seq(Byte) /\ y \in Seq(Byte) /\ ((s \o b) \o c) \o rest = y
  <2>1. Join4(s, b, c, rest)
    BY <1>0, JoinFour
  <2> QED
    BY <2>1, Zenon DEF Join4
<1>2. Len((s \o b) \o c) = Len(s) + Len(b) + Len(c) /\ Len(b) \in Nat /\ Len(c) \in Nat
  <2>1. Join3(s, b, c)
    BY <1>0, JoinThree
  <2> QED
    BY <2>1, Zenon DEF Join3
<1>3. m - 1 \in Nat /\ m # 0 /\ m - 1 > Len(b) /\ m - 1 > Len(c)
  <2> DEFINE u == Len((s \o b) \o c)
  <2>1. u = Len(s) + Len(b) + Len(c) /\ m > u
    BY <1>2, <1>a
  <2> HIDE DEF u
  <2> QED BY <1>0, <1>2, <2>1
<1>4. Decoding0[m].pairs[At0(y)] = DecodePairs0(p, At0(y))
  <2> HIDE DEF y
  <2> QED BY <1>1, <1>3, Decoding0Steps
<1>5. ReadUTF8(At0(y), 2) = Ok(At0(z), key)
  <2> HIDE DEF z
  <2>1. ReadUTF8(At0(ShortBytes(key) \o z), 2) = Ok(At0(z), key)
    BY <1>1, ReadUTF8Gives
  <2> QED BY <2>1, Zenon DEF s
<1>6. p.value[At0(z)] = Ok(At0(tail), x)
  <2> HIDE DEF tail
  <2> QED BY <1>1, <1>3 DEF Reads0
<1>7. p.pairs[At0(tail)] = Ok(At0(rest), xs)
  BY <1>3 DEF ReadsPairs0
<1>8. At0(z).ok /\ At0(tail).ok /\ At0(rest).ok
  BY AtHas
<1> HIDE DEF p, y, z, tail
<1>9. DecodePairs0(p, At0(y)) = Ok(At0(rest), <<<<key, x>>>> \o xs)
  BY <1>5, <1>6, <1>7, <1>8, PairsRound0
<1> QED
  BY <1>1, <1>4, <1>9

\* Those that AMF0 can write, and those whose keys it does not lose.
Fit0 == {v \in AnyValue : Encodable0(v)}
Named == {v \in AnyValue : <<>> \notin Keys(v)}

\* f is the encoder e after a value was written in which these are visited, and
\* what was written is read as x.
Carries0(e, f, visited, x) ==
  /\ f \in Encoder0
  /\ f.ok <=> e.ok /\ AllIn(visited, Fit0)
  /\ \E b \in Seq(Byte) : /\ f.out = e.out \o b
                          /\ f.ok /\ AllIn(visited, Named) => Reads0(b, x)

\* enc carries every value of V.
Codec0(V, enc, vis, bec) == \A w \in V : \A e \in Encoder0 : Carries0(e, enc[w][e], vis[w], bec[w])

\* What the i-th of the values should append.
ElementParts0(values, vis, bec) ==
  {p \in (1 .. Len(values)) \X Seq(Byte) :
     AllIn(vis[values[p[1]]], Named) => Reads0(p[2], bec[values[p[1]]])}

\* The parts of the elements are read as the elements.
LEMMA ElementsRead0 ==
    ASSUME NEW k \in Nat, NEW values, Len(values) = k, NEW vis, NEW bec, NEW e, NEW f, f.ok,
           NEW bs, NEW cs, Parts(k, e, f, ElementParts0(values, vis, bec), bs, cs),
           \A i \in 1 .. k : AllIn(vis[values[i]], Named),
           NEW F, F = [j \in 1 .. k |-> F[j]], \A j \in 1 .. k : F[j] = bec[values[j]]
    PROVE  ReadsElements0(cs[0], k, F)
<1> DEFINE P(n) == ReadsElements0(cs[k - n], n, SubSeq(F, (k - n) + 1, k))
           T == {n \in Nat : n <= k => P(n)}
<1>0. /\ cs[k] = <<>>
      /\ \A i \in 0 .. k : cs[i] \in Seq(Byte)
      /\ \A i \in 1 .. k : bs[i] \in Seq(Byte) /\ Reads0(bs[i], F[i])
      /\ \A i \in 0 .. k - 1 : cs[i] = bs[i + 1] \o cs[i + 1]
  <2>1. \A i \in 1 .. k : bs[i] \in Seq(Byte) /\ <<i, bs[i]>> \in ElementParts0(values, vis, bec)
    BY DEF Parts
  <2>2. \A i \in 1 .. k : Reads0(bs[i], bec[values[i]])
    BY <2>1 DEF ElementParts0
  <2> QED
    BY <2>1, <2>2, Zenon DEF Parts
<1>1. 0 \in T
  <2>1. k - 0 = k /\ k \in 0 .. k
    OBVIOUS
  <2>2. SubSeq(F, k + 1, k) = <<>>
    BY <2>1, FirstAndRest
  <2>3. P(0)
    BY <1>0, <2>1, <2>2, ReadsNoElement0
  <2> HIDE DEF P
  <2> QED BY <2>3
<1>2. ASSUME NEW n \in Nat, n \in T PROVE n + 1 \in T
  <2> SUFFICES ASSUME n + 1 <= k PROVE P(n + 1)
    <3> HIDE DEF P
    <3> QED OBVIOUS
  <2> DEFINE i == k - (n + 1)
  <2>1. i \in 0 .. k /\ i \in 0 .. k - 1 /\ i + 1 \in 1 .. k /\ i + 1 \in 0 .. k /\ k - n = i + 1
        /\ (k - n) + 1 = i + 2 /\ i # k
    OBVIOUS
  <2>2. ReadsElements0(cs[k - n], n, SubSeq(F, (k - n) + 1, k))
    BY <1>2
  <2> HIDE DEF P, T, i
  <2>3. ReadsElements0(cs[i + 1], n, SubSeq(F, i + 2, k))
    BY <2>1, <2>2
  <2>4. bs[i + 1] \in Seq(Byte) /\ cs[i + 1] \in Seq(Byte) /\ Reads0(bs[i + 1], F[i + 1])
        /\ cs[i] = bs[i + 1] \o cs[i + 1]
    BY <1>0, <2>1
  <2>5. SubSeq(F, i + 1, k) = <<F[i + 1]>> \o SubSeq(F, i + 2, k)
    BY <2>1, FirstAndRest, ZenonT(60)
  <2>6. ReadsElements0(bs[i + 1] \o cs[i + 1], n + 1, <<F[i + 1]>> \o SubSeq(F, i + 2, k))
    <3> DEFINE b == bs[i + 1]
               c == cs[i + 1]
               x == F[i + 1]
               xs == SubSeq(F, i + 2, k)
    <3>1. b \in Seq(Byte) /\ c \in Seq(Byte) /\ Reads0(b, x) /\ ReadsElements0(c, n, xs)
      BY <2>3, <2>4
    <3> HIDE DEF b, c, x, xs
    <3>2. ReadsElements0(b \o c, n + 1, <<x>> \o xs)
      BY <3>1, ReadsElement0
    <3> QED BY <3>2, Zenon DEF b, c, x, xs
  <2>7. ReadsElements0(cs[i], n + 1, SubSeq(F, i + 1, k))
    BY <2>4, <2>5, <2>6, Zenon
  <2> QED BY <2>7, Zenon DEF P, i
<1>3. k \in T
  <2> HIDE DEF T
  <2> QED BY <1>1, <1>2, SetInduction
<1>4. ReadsElements0(cs[k - k], k, SubSeq(F, (k - k) + 1, k))
  BY <1>3
<1>5. k - k = 0 /\ (k - k) + 1 = 1 /\ 0 \in 0 .. k
  OBVIOUS
<1>6. SubSeq(F, 1, k) = F
  BY <1>5, FirstAndRest
<1> QED
  BY <1>4, <1>5, <1>6

\* A key and a value; what the i-th of the pairs should append.
PairBytes0(b, key, x) ==
  \E c \in Seq(Byte) : b = ShortBytes(key) \o c /\ Reads0(c, x) /\ key # <<>> /\ Len(key) <= MaxShort
PairParts0(pairs, vis, bec) ==
  {p \in (1 .. Len(pairs)) \X Seq(Byte) :
     AllIn(vis[pairs[p[1]][2]], Named) /\ pairs[p[1]][1] # <<>>
       => PairBytes0(p[2], pairs[p[1]][1], bec[pairs[p[1]][2]])}

\* One more pair.
LEMMA ReadsPairBytes0 ==
    ASSUME NEW b, NEW key \in Seq(Byte), NEW x, PairBytes0(b, key, x), NEW c \in Seq(Byte), NEW xs,
           ReadsPairs0(c, xs)
    PROVE  ReadsPairs0(b \o c, <<<<key, x>>>> \o xs)
<1>1. PICK a \in Seq(Byte) : b = ShortBytes(key) \o a /\ Reads0(a, x) /\ key # <<>> /\ Len(key) <= MaxShort
  BY DEF PairBytes0
<1>2. ReadsPairs0((ShortBytes(key) \o a) \o c, <<<<key, x>>>> \o xs)
  BY <1>1, ReadsPair0
<1> QED
  BY <1>1, <1>2, Zenon

\* The parts of the pairs, and the end, are read as the pairs.
LEMMA PairsRead0 ==
    ASSUME NEW k \in Nat, NEW pairs, Len(pairs) = k, NEW vis, NEW bec, NEW e, NEW f, f.ok,
           NEW bs, NEW cs, Parts(k, e, f, PairParts0(pairs, vis, bec), bs, cs),
           \A i \in 1 .. k : /\ AllIn(vis[pairs[i][2]], Named)
                             /\ pairs[i][1] # <<>> /\ pairs[i][1] \in Seq(Byte),
           NEW F, F = [j \in 1 .. k |-> F[j]],
           \A j \in 1 .. k : F[j] = <<pairs[j][1], bec[pairs[j][2]]>>
    PROVE  ReadsPairs0(cs[0] \o EndBytes, F)
<1> DEFINE P(n) == ReadsPairs0(cs[k - n] \o EndBytes, SubSeq(F, (k - n) + 1, k))
           T == {n \in Nat : n <= k => P(n)}
<1>0. /\ cs[k] = <<>>
      /\ \A i \in 0 .. k : cs[i] \in Seq(Byte)
      /\ \A i \in 1 .. k : /\ bs[i] \in Seq(Byte) /\ pairs[i][1] \in Seq(Byte)
                           /\ PairBytes0(bs[i], pairs[i][1], bec[pairs[i][2]])
      /\ \A i \in 0 .. k - 1 : cs[i] = bs[i + 1] \o cs[i + 1]
  <2>1. \A i \in 1 .. k : bs[i] \in Seq(Byte) /\ <<i, bs[i]>> \in PairParts0(pairs, vis, bec)
    BY DEF Parts
  <2>2. \A i \in 1 .. k : PairBytes0(bs[i], pairs[i][1], bec[pairs[i][2]])
    BY <2>1 DEF PairParts0
  <2> QED
    BY <2>1, <2>2, Zenon DEF Parts
<1>a. EndBytes \in Seq(Byte) /\ ReadsPairs0(EndBytes, <<>>)
  BY ReadsNoPair0
<1>1. 0 \in T
  <2>1. k - 0 = k /\ k \in 0 .. k
    OBVIOUS
  <2>2. SubSeq(F, k + 1, k) = <<>>
    BY <2>1, FirstAndRest
  <2>3. <<>> \o EndBytes = EndBytes
    BY <1>a, JoinNothing
  <2>5. ReadsPairs0(cs[k] \o EndBytes, SubSeq(F, k + 1, k))
    BY <1>0, <1>a, <2>2, <2>3, Zenon
  <2>4. P(0)
    BY <2>1, <2>5, Zenon
  <2> HIDE DEF P
  <2> QED BY <2>4
<1>2. ASSUME NEW n \in Nat, n \in T PROVE n + 1 \in T
  <2> SUFFICES ASSUME n + 1 <= k PROVE P(n + 1)
    <3> HIDE DEF P
    <3> QED OBVIOUS
  <2> DEFINE i == k - (n + 1)
  <2>1. i \in 0 .. k /\ i \in 0 .. k - 1 /\ i + 1 \in 1 .. k /\ i + 1 \in 0 .. k /\ k - n = i + 1
        /\ (k - n) + 1 = i + 2 /\ i # k
    OBVIOUS
  <2>2. ReadsPairs0(cs[k - n] \o EndBytes, SubSeq(F, (k - n) + 1, k))
    BY <1>2
  <2> HIDE DEF P, T, i
  <2>3. ReadsPairs0(cs[i + 1] \o EndBytes, SubSeq(F, i + 2, k))
    BY <2>1, <2>2
  <2>4. bs[i + 1] \in Seq(Byte) /\ cs[i + 1] \in Seq(Byte)
        /\ PairBytes0(bs[i + 1], pairs[i + 1][1], bec[pairs[i + 1][2]])
        /\ pairs[i + 1][1] \in Seq(Byte)
        /\ cs[i] = bs[i + 1] \o cs[i + 1]
    BY <1>0, <2>1
  <2>5. SubSeq(F, i + 1, k) = <<F[i + 1]>> \o SubSeq(F, i + 2, k)
    BY <2>1, FirstAndRest, ZenonT(60)
  <2>6. ReadsPairs0(bs[i + 1] \o (cs[i + 1] \o EndBytes),
                    <<<<pairs[i + 1][1], bec[pairs[i + 1][2]]>>>> \o SubSeq(F, i + 2, k))
        /\ (bs[i + 1] \o cs[i + 1]) \o EndBytes = bs[i + 1] \o (cs[i + 1] \o EndBytes)
    <3> DEFINE b == bs[i + 1]
               c == cs[i + 1]
               d == c \o EndBytes
               key == pairs[i + 1][1]
               x == bec[pairs[i + 1][2]]
               xs == SubSeq(F, i + 2, k)
    <3>1. b \in Seq(Byte) /\ c \in Seq(Byte) /\ PairBytes0(b, key, x) /\ ReadsPairs0(d, xs)
          /\ key \in Seq(Byte)
      BY <2>3, <2>4
    <3> HIDE DEF b, c, key, x, xs
    <3>2. Join3(b, c, EndBytes)
      BY <1>a, <3>1, JoinThree
    <3>3. d \in Seq(Byte) /\ (b \o c) \o EndBytes = b \o (c \o EndBytes)
      BY <3>2, Zenon DEF Join3
    <3> HIDE DEF d
    <3>4. ReadsPairs0(b \o d, <<<<key, x>>>> \o xs)
      BY <3>1, <3>3, ReadsPairBytes0
    <3> QED BY <3>3, <3>4, Zenon DEF b, c, d, key, x, xs
  <2>7. F[i + 1] = <<pairs[i + 1][1], bec[pairs[i + 1][2]]>>
    BY <2>1
  <2>8. ReadsPairs0(cs[i] \o EndBytes, SubSeq(F, i + 1, k))
    BY <2>4, <2>5, <2>6, <2>7, Zenon
  <2> QED BY <2>8, Zenon DEF P, i
<1>3. k \in T
  <2> HIDE DEF T
  <2> QED BY <1>1, <1>2, SetInduction
<1>4. ReadsPairs0(cs[k - k] \o EndBytes, SubSeq(F, (k - k) + 1, k))
  BY <1>3
<1>5. k - k = 0 /\ (k - k) + 1 = 1 /\ 0 \in 0 .. k
  OBVIOUS
<1>6. SubSeq(F, 1, k) = F
  BY <1>5, FirstAndRest
<1> QED
  BY <1>4, <1>5, <1>6

\* f is the encoder e after these elements, or these pairs and their end.
ElementsCarry0(e, f, values, vis, bec) ==
  /\ f \in Encoder0
  /\ f.ok <=> e.ok /\ \A i \in DOMAIN values : AllIn(vis[values[i]], Fit0)
  /\ \E b \in Seq(Byte) :
       /\ f.out = e.out \o b
       /\ f.ok /\ (\A i \in DOMAIN values : AllIn(vis[values[i]], Named))
            => ReadsElements0(b, Len(values), EachBecomes(bec, values))
Pairs(bec, pairs) == [i \in DOMAIN pairs |-> <<pairs[i][1], bec[pairs[i][2]]>>]
PairsCarry0(e, f, pairs, vis, bec) ==
  /\ f \in Encoder0
  /\ f.ok <=> /\ e.ok
              /\ \A i \in DOMAIN pairs : Len(pairs[i][1]) <= MaxShort /\ AllIn(vis[pairs[i][2]], Fit0)
  /\ \E b \in Seq(Byte) :
       /\ f.out = e.out \o b
       /\ f.ok /\ (\A i \in DOMAIN pairs : pairs[i][1] # <<>> /\ AllIn(vis[pairs[i][2]], Named))
            => ReadsPairs0(b, Pairs(bec, pairs))

\* encodeValue for each element of an array: what is written is read as the elements.
LEMMA ElementsCarried0 ==
    ASSUME NEW V, NEW enc, NEW vis, NEW bec, Codec0(V, enc, vis, bec), NEW values \in List(V),
           NEW e \in Encoder0
    PROVE  ElementsCarry0(e, InTurn([i \in DOMAIN values |-> enc[values[i]]], e), values, vis, bec)
<1> DEFINE k == Len(values)
           steps == [i \in DOMAIN values |-> enc[values[i]]]
           K == {i \in 1 .. k : AllIn(vis[values[i]], Fit0)}
           R == ElementParts0(values, vis, bec)
           F == EachBecomes(bec, values)
           f == InTurn(steps, e)
<1>1. k \in Nat /\ DOMAIN values = 1 .. k /\ \A i \in 1 .. k : values[i] \in V
  BY ListHas
<1>2. /\ Len(steps) = k /\ F = [j \in 1 .. k |-> F[j]]
      /\ \A i \in 1 .. k : steps[i] = enc[values[i]] /\ F[i] = bec[values[i]]
  BY <1>1 DEF EachBecomes
<1> HIDE DEF steps, F
<1>3. ASSUME NEW i \in 1 .. k, NEW g \in Encoder0
      PROVE  /\ steps[i][g] \in Encoder0
             /\ steps[i][g].ok <=> g.ok /\ i \in K
             /\ \E b \in Seq(Byte) : /\ steps[i][g].out = g.out \o b
                                     /\ steps[i][g].ok => <<i, b>> \in R
  <2>1. Carries0(g, enc[values[i]][g], vis[values[i]], bec[values[i]])
    BY <1>1 DEF Codec0
  <2> DEFINE h == steps[i][g]
  <2>2. Carries0(g, h, vis[values[i]], bec[values[i]])
    BY <1>2, <2>1
  <2> HIDE DEF h
  <2>3. h \in Encoder0 /\ (h.ok <=> g.ok /\ i \in K)
    BY <2>2 DEF Carries0
  <2>4. PICK b \in Seq(Byte) : /\ h.out = g.out \o b
                               /\ h.ok /\ AllIn(vis[values[i]], Named) => Reads0(b, bec[values[i]])
    BY <2>2, Zenon DEF Carries0
  <2>5. h.ok => <<i, b>> \in R
    <3>1. CASE h.ok
      <4>1. AllIn(vis[values[i]], Named) => Reads0(b, bec[values[i]])
        BY <2>4, <3>1
      <4>2. i \in 1 .. Len(values)
        OBVIOUS
      <4> HIDE DEF k
      <4> QED
        BY <4>1, <4>2 DEF ElementParts0
    <3> QED BY <3>1
  <2> HIDE DEF K, R
  <2> QED
    BY <2>3, <2>4, <2>5 DEF h
<1>4. /\ f \in Encoder0
      /\ f.ok <=> e.ok /\ \A i \in 1 .. k : i \in K
      /\ \E bs, cs : Parts(k, e, f, R, bs, cs)
  <2> HIDE DEF k, K, R
  <2>1. Appending0(k, steps, K, R)
    BY <1>3, Zenon DEF Appending0
  <2>2. Turned0(k, e, InTurn(steps, e), K, R)
    BY <1>1, <1>2, <2>1, Turns0
  <2> QED
    BY <2>2, Zenon DEF Turned0
<1>5. (\A i \in 1 .. k : i \in K) <=> \A i \in DOMAIN values : AllIn(vis[values[i]], Fit0)
  BY <1>1
<1>6. PICK bs, cs : Parts(k, e, f, R, bs, cs)
  BY <1>4
<1>7. cs[0] \in Seq(Byte) /\ f.out = e.out \o cs[0]
  <2>1. 0 \in 0 .. k
    BY <1>1
  <2> QED
    BY <1>6, <2>1 DEF Parts
<1>8. ASSUME f.ok, \A i \in DOMAIN values : AllIn(vis[values[i]], Named)
      PROVE  ReadsElements0(cs[0], k, F)
  <2>1. \A i \in 1 .. k : AllIn(vis[values[i]], Named)
    BY <1>1, <1>8
  <2> HIDE DEF f
  <2> QED
    BY <1>1, <1>2, <1>6, <1>8, <2>1, ElementsRead0
<1> HIDE DEF K, R
<1> QED
  BY <1>4, <1>5, <1>7, <1>8 DEF F, steps, ElementsCarry0
\* What WriteShort appends.
LEMMA WriteShortHas ==
    ASSUME NEW g \in Encoder0, NEW s \in Seq(Byte)
    PROVE  /\ WriteShort(g, s) \in Encoder0
           /\ WriteShort(g, s).ok <=> g.ok /\ Len(s) <= MaxShort
           /\ Len(s) <= MaxShort => WriteShort(g, s).out = g.out \o ShortBytes(s)
           /\ ~(Len(s) <= MaxShort) => WriteShort(g, s).out = g.out
<1>1. Len(s) \in Nat /\ MaxShort \in Nat
  BY MaxShortIs
<1>2. CASE Len(s) <= MaxShort
  <2>1. WriteShort(g, s) = Write(g, ShortBytes(s))
    BY <1>1, <1>2 DEF WriteShort, ShortBytes
  <2> DEFINE b == ShortBytes(s)
             w == Write(g, b)
  <2>2. b \in Seq(Byte)
    BY <1>2, ShortBytesType
  <2> HIDE DEF b
  <2>3. w \in Encoder0 /\ w.out = g.out \o b /\ w.ok = g.ok
    BY <2>2, WriteHas0
  <2>4. WriteShort(g, s) = w
    BY <2>1 DEF b
  <2> HIDE DEF w
  <2>5. /\ WriteShort(g, s) \in Encoder0 /\ (WriteShort(g, s).ok <=> g.ok)
        /\ WriteShort(g, s).out = g.out \o b
    BY <2>3, <2>4
  <2> QED
    BY <1>2, <2>5 DEF b
<1>3. CASE ~(Len(s) <= MaxShort)
  <2>1. WriteShort(g, s) = Unsupported(g) /\ <<>> \in Seq(Byte)
    BY <1>1, <1>3 DEF WriteShort
  <2> QED
    BY <1>3, <2>1, WriteHas0, ZenonT(60)
<1> QED
  BY <1>2, <1>3

\* A key and the value after it.
LEMMA PairStep0 ==
    ASSUME NEW g \in Encoder0, NEW key \in Seq(Byte), NEW h, NEW visited, NEW x,
           Carries0(WriteShort(g, key), h, visited, x)
    PROVE  /\ h \in Encoder0
           /\ h.ok <=> g.ok /\ Len(key) <= MaxShort /\ AllIn(visited, Fit0)
           /\ \E b \in Seq(Byte) :
                /\ h.out = g.out \o b
                /\ h.ok /\ AllIn(visited, Named) /\ key # <<>> => PairBytes0(b, key, x)
<1> DEFINE w == WriteShort(g, key)
<1>1. /\ w \in Encoder0
      /\ w.ok <=> g.ok /\ Len(key) <= MaxShort
      /\ Len(key) <= MaxShort => w.out = g.out \o ShortBytes(key)
      /\ ~(Len(key) <= MaxShort) => w.out = g.out
  BY WriteShortHas
<1> HIDE DEF w
<1>2. Carries0(w, h, visited, x)
  BY DEF w
<1>3. h \in Encoder0 /\ (h.ok <=> w.ok /\ AllIn(visited, Fit0))
  BY <1>2 DEF Carries0
<1>4. PICK b \in Seq(Byte) : h.out = w.out \o b /\ (h.ok /\ AllIn(visited, Named) => Reads0(b, x))
  BY <1>2, Zenon DEF Carries0
<1>5. CASE Len(key) <= MaxShort
  <2> DEFINE s == ShortBytes(key)
             o == g.out
  <2>1. s \in Seq(Byte) /\ o \in Seq(Byte)
    BY <1>5, ShortBytesType DEF Encoder0
  <2> HIDE DEF s, o
  <2>2. Join3(o, s, b)
    BY <2>1, JoinThree
  <2>3. s \o b \in Seq(Byte) /\ (o \o s) \o b = o \o (s \o b)
    BY <2>2, Zenon DEF Join3
  <2>4. h.out = g.out \o (s \o b)
    BY <1>1, <1>4, <1>5, <2>3, Zenon DEF o, s
  <2>5. h.ok /\ AllIn(visited, Named) /\ key # <<>> => PairBytes0(s \o b, key, x)
    BY <1>4, <1>5, Zenon DEF PairBytes0, s
  <2> QED
    BY <1>1, <1>3, <1>5, <2>3, <2>4, <2>5
<1>6. CASE ~(Len(key) <= MaxShort)
  BY <1>1, <1>3, <1>4, <1>6
<1> QED
  BY <1>5, <1>6
\* The pairs, and their end.
LEMMA PairsCarried0 ==
    ASSUME NEW V, NEW enc, NEW vis, NEW bec, Codec0(V, enc, vis, bec),
           NEW pairs \in List(GoString \X V), NEW e \in Encoder0
    PROVE  PairsCarry0(e, EncodePairs0(enc, e, pairs), pairs, vis, bec)
<1> DEFINE k == Len(pairs)
           steps == [i \in DOMAIN pairs |->
                       [g \in Encoder0 |-> enc[pairs[i][2]][WriteShort(g, pairs[i][1])]]]
           K == {i \in 1 .. k : Len(pairs[i][1]) <= MaxShort /\ AllIn(vis[pairs[i][2]], Fit0)}
           R == PairParts0(pairs, vis, bec)
           F == Pairs(bec, pairs)
           f == InTurn(steps, e)
<1>1. /\ k \in Nat /\ DOMAIN pairs = 1 .. k
      /\ \A i \in 1 .. k : pairs[i][1] \in Seq(Byte) /\ pairs[i][2] \in V
  <2>1. k \in Nat /\ DOMAIN pairs = 1 .. k /\ \A i \in 1 .. k : pairs[i] \in GoString \X V
    BY ListHas
  <2>2. GoString \subseteq Seq(Byte)
    BY DEF GoString, List
  <2> QED
    BY <2>1, <2>2
<1>2. /\ Len(steps) = k /\ F = [j \in 1 .. k |-> F[j]]
      /\ \A i \in 1 .. k : F[i] = <<pairs[i][1], bec[pairs[i][2]]>>
      /\ \A i \in 1 .. k : \A g \in Encoder0 :
           steps[i][g] = enc[pairs[i][2]][WriteShort(g, pairs[i][1])]
  BY <1>1 DEF Pairs
<1> HIDE DEF steps, F
<1>3. ASSUME NEW i \in 1 .. k, NEW g \in Encoder0
      PROVE  /\ steps[i][g] \in Encoder0
             /\ steps[i][g].ok <=> g.ok /\ i \in K
             /\ \E b \in Seq(Byte) : /\ steps[i][g].out = g.out \o b
                                     /\ steps[i][g].ok => <<i, b>> \in R
  <2> DEFINE h == steps[i][g]
             key == pairs[i][1]
             visited == vis[pairs[i][2]]
             x == bec[pairs[i][2]]
  <2>0. key \in Seq(Byte) /\ pairs[i][2] \in V
    BY <1>1
  <2>1. Carries0(WriteShort(g, key), h, visited, x)
    <3>1. WriteShort(g, key) \in Encoder0
      <4> HIDE DEF key
      <4> QED BY <2>0, WriteShortHas
    <3>2. h = enc[pairs[i][2]][WriteShort(g, key)]
      BY <1>2
    <3>3. Carries0(WriteShort(g, key), enc[pairs[i][2]][WriteShort(g, key)], visited, x)
      <4> HIDE DEF key
      <4> QED BY <2>0, <3>1 DEF Codec0
    <3> HIDE DEF h, key, visited, x
    <3> QED BY <3>2, <3>3
  <2>2. i \in K <=> Len(key) <= MaxShort /\ AllIn(visited, Fit0)
    OBVIOUS
  <2> HIDE DEF h, key, visited, x, K
  <2>3. /\ h \in Encoder0
        /\ h.ok <=> g.ok /\ Len(key) <= MaxShort /\ AllIn(visited, Fit0)
        /\ \E b \in Seq(Byte) :
             /\ h.out = g.out \o b
             /\ h.ok /\ AllIn(visited, Named) /\ key # <<>> => PairBytes0(b, key, x)
    BY <2>0, <2>1, PairStep0
  <2>4. PICK b \in Seq(Byte) :
             /\ h.out = g.out \o b
             /\ h.ok /\ AllIn(visited, Named) /\ key # <<>> => PairBytes0(b, key, x)
    BY <2>3
  <2>5. h.ok => <<i, b>> \in R
    <3> SUFFICES ASSUME h.ok PROVE <<i, b>> \in R
      OBVIOUS
    <3>1. AllIn(visited, Named) /\ key # <<>> => PairBytes0(b, key, x)
      BY <2>4
    <3>2. i \in 1 .. Len(pairs)
      OBVIOUS
    <3> HIDE DEF k
    <3> QED
      BY <3>1, <3>2 DEF PairParts0, visited, key, x
  <2> HIDE DEF R
  <2> QED
    BY <2>2, <2>3, <2>4, <2>5 DEF h
<1>4. /\ f \in Encoder0
      /\ f.ok <=> e.ok /\ \A i \in 1 .. k : i \in K
      /\ \E bs, cs : Parts(k, e, f, R, bs, cs)
  <2> HIDE DEF k, K, R
  <2>1. Appending0(k, steps, K, R)
    BY <1>3, Zenon DEF Appending0
  <2>2. Turned0(k, e, InTurn(steps, e), K, R)
    BY <1>1, <1>2, <2>1, Turns0
  <2> QED
    BY <2>2, Zenon DEF Turned0
<1>5. (\A i \in 1 .. k : i \in K)
        <=> \A i \in DOMAIN pairs : Len(pairs[i][1]) <= MaxShort /\ AllIn(vis[pairs[i][2]], Fit0)
  BY <1>1
<1>6. PICK bs, cs : Parts(k, e, f, R, bs, cs)
  BY <1>4
<1>7. cs[0] \in Seq(Byte) /\ f.out = e.out \o cs[0]
  <2>1. 0 \in 0 .. k
    BY <1>1
  <2> QED
    BY <1>6, <2>1 DEF Parts
<1>8. ASSUME f.ok, \A i \in DOMAIN pairs : pairs[i][1] # <<>> /\ AllIn(vis[pairs[i][2]], Named)
      PROVE  ReadsPairs0(cs[0] \o EndBytes, F)
  <2>1. \A i \in 1 .. k : /\ AllIn(vis[pairs[i][2]], Named)
                          /\ pairs[i][1] # <<>> /\ pairs[i][1] \in Seq(Byte)
    BY <1>1, <1>8
  <2> HIDE DEF f
  <2> QED
    BY <1>1, <1>2, <1>6, <1>8, <2>1, PairsRead0
<1> HIDE DEF K, R
<1> DEFINE g == EncodePairs0(enc, e, pairs)
<1>9. g \in Encoder0 /\ (g.ok <=> f.ok) /\ g.out = f.out \o EndBytes
  <2>1. g = Write(WriteShort(f, <<>>), <<ObjectEnd0>>)
    BY Zenon DEF EncodePairs0, steps
  <2> HIDE DEF f, g
  <2> DEFINE w == WriteShort(f, <<>>)
  <2>2. Len(<<>>) <= MaxShort /\ <<>> \in Seq(Byte) /\ <<ObjectEnd0>> \in Seq(Byte)
    BY MaxShortIs DEF ObjectEnd0, Byte
  <2>3. w \in Encoder0 /\ (w.ok <=> f.ok) /\ w.out = f.out \o ShortBytes(<<>>)
    BY <1>4, <2>2, WriteShortHas
  <2>4. ShortBytes(<<>>) \in Seq(Byte)
    BY <2>2, ShortBytesType
  <2> DEFINE a == ShortBytes(<<>>)
             b == <<ObjectEnd0>>
             o == f.out
  <2>5. a \in Seq(Byte) /\ b \in Seq(Byte) /\ o \in Seq(Byte)
    BY <1>4, <2>2, <2>4 DEF Encoder0
  <2> HIDE DEF w, a, b, o
  <2>6. Write(w, b) \in Encoder0 /\ Write(w, b).out = w.out \o b /\ Write(w, b).ok = w.ok
    BY <2>3, <2>5, WriteHas0
  <2>7. Join3(o, a, b)
    BY <2>5, JoinThree
  <2>8. (o \o a) \o b = o \o (a \o b)
    BY <2>7, Zenon DEF Join3
  <2>9. Write(w, b).out = f.out \o EndBytes
    BY <2>3, <2>6, <2>8, Zenon DEF EndBytes, a, b, o
  <2>10. g = Write(w, b)
    BY <2>1, Zenon DEF w, b
  <2> QED
    BY <2>3, <2>6, <2>9, <2>10
<1>10. cs[0] \o EndBytes \in Seq(Byte) /\ g.out = e.out \o (cs[0] \o EndBytes)
  <2> DEFINE a == cs[0]
             o == e.out
  <2>1. a \in Seq(Byte) /\ EndBytes \in Seq(Byte) /\ o \in Seq(Byte)
    BY <1>7, ReadsNoPair0 DEF Encoder0
  <2> HIDE DEF a, o
  <2>2. Join3(o, a, EndBytes)
    BY <2>1, JoinThree
  <2>3. (o \o a) \o EndBytes = o \o (a \o EndBytes) /\ a \o EndBytes \in Seq(Byte)
    BY <2>2, Zenon DEF Join3
  <2> HIDE DEF f, g
  <2> QED
    BY <1>7, <1>9, <2>3, Zenon DEF a, o
<1> HIDE DEF f, g
<1>11. g.ok <=> /\ e.ok
               /\ \A i \in DOMAIN pairs : Len(pairs[i][1]) <= MaxShort /\ AllIn(vis[pairs[i][2]], Fit0)
  BY <1>4, <1>5, <1>9, Zenon
<1>12. g.ok /\ (\A i \in DOMAIN pairs : pairs[i][1] # <<>> /\ AllIn(vis[pairs[i][2]], Named))
         => ReadsPairs0(cs[0] \o EndBytes, F)
  BY <1>8, <1>9, Zenon
<1>13. PairsCarry0(e, g, pairs, vis, bec)
  BY <1>9, <1>10, <1>11, <1>12, Zenon DEF PairsCarry0, F
<1> QED
  BY <1>13 DEF g

-----------------------------------------------------------------------------
(* What AMF0 reads after each marker, and what it writes for each type.    *)

\* After the marker, x is read from c.
ReadsMarked0(marker, c, x) ==
  \A rest \in Seq(Byte) : \A m \in Nat :
    m > Len(c) => DecodeMarked0(Decoding0[m], At0(c \o rest), marker) = Ok(At0(rest), x)

\* A marker and what is read after it are a value.
LEMMA ReadsWithMarker0 ==
    ASSUME NEW marker \in Byte, NEW c \in Seq(Byte), NEW x, ReadsMarked0(marker, c, x)
    PROVE  <<marker>> \o c \in Seq(Byte) /\ Reads0(<<marker>> \o c, x)
<1> DEFINE a == <<marker>>
<1>0. a \in Seq(Byte) /\ Len(a) = 1
  OBVIOUS
<1> HIDE DEF a
<1>1. a \o c \in Seq(Byte) /\ Len(a \o c) = 1 + Len(c) /\ Len(c) \in Nat
  <2>1. Join2(a, c)
    BY <1>0, JoinTwo
  <2> QED BY <1>0, <2>1 DEF Join2
<1>2. a \o c # <<>>
  <2>1. Len(<<>>) = 0
    OBVIOUS
  <2> DEFINE b == a \o c
  <2>2. b \in Seq(Byte) /\ Len(b) # 0
    BY <1>1
  <2> HIDE DEF b
  <2>3. b # <<>>
    BY <2>1, <2>2
  <2> QED BY <2>3 DEF b
<1>3. ASSUME NEW rest \in Seq(Byte), NEW m \in Nat, m > Len(a \o c)
      PROVE  Decoding0[m].value[At0((a \o c) \o rest)] = Ok(At0(rest), x)
  <2>1. m # 0 /\ m - 1 \in Nat /\ m - 1 > Len(c)
    <3> DEFINE l == Len(a \o c)
    <3>1. l = 1 + Len(c) /\ m > l
      BY <1>1, <1>3
    <3> HIDE DEF l
    <3> QED BY <1>1, <3>1
  <2>2. Join3(a, c, rest)
    BY <1>0, JoinThree
  <2> DEFINE t == c \o rest
  <2>3. (a \o c) \o rest = a \o t /\ t \in Seq(Byte) /\ a \o t \in Seq(Byte)
    BY <2>2, Zenon DEF Join3
  <2>4. DecodeMarked0(Decoding0[m - 1], At0(t), marker) = Ok(At0(rest), x)
    BY <2>1 DEF ReadsMarked0
  <2> HIDE DEF t
  <2>5. DecodeByMarker0(Decoding0[m - 1], At0(a \o t)) = DecodeMarked0(Decoding0[m - 1], At0(t), marker)
    BY <2>3, MarkedGives DEF a
  <2> DEFINE y == a \o t
  <2>6. y \in Seq(Byte)
    BY <2>3
  <2> HIDE DEF y
  <2>7. Decoding0[m].value[At0(y)] = DecodeByMarker0(Decoding0[m - 1], At0(y))
    BY <2>1, <2>6, Decoding0Steps
  <2> QED
    BY <2>3, <2>4, <2>5, <2>7, Zenon DEF y
<1> QED
  BY <1>1, <1>2, <1>3 DEF Reads0, a

\* The markers are different bytes.
LEMMA Markers0 ==
    /\ {Number0, Boolean0, String0, Object0, Null0, Undefined0, EcmaArray0, ObjectEnd0,
        StrictArray0, Date0, LongString0, TypedObject0} \subseteq Byte
    /\ Number0 \notin {Boolean0, String0, Object0, Null0, Undefined0, EcmaArray0, StrictArray0,
                       Date0, LongString0, TypedObject0}
    /\ Boolean0 # Number0
    /\ String0 \notin {Number0, Boolean0}
    /\ Object0 \notin {Number0, Boolean0, String0}
    /\ Null0 \notin {Number0, Boolean0, String0, Object0}
    /\ Undefined0 \notin {Number0, Boolean0, String0, Object0}
    /\ EcmaArray0 \notin {Number0, Boolean0, String0, Object0, Null0, Undefined0}
    /\ StrictArray0 \notin {Number0, Boolean0, String0, Object0, Null0, Undefined0, EcmaArray0}
    /\ Date0 \notin {Number0, Boolean0, String0, Object0, Null0, Undefined0, EcmaArray0, StrictArray0}
    /\ LongString0 \notin {Number0, Boolean0, String0, Object0, Null0, Undefined0, EcmaArray0,
                           StrictArray0, Date0}
    /\ TypedObject0 \notin {Number0, Boolean0, String0, Object0, Null0, Undefined0, EcmaArray0,
                            StrictArray0, Date0, LongString0}
BY DEF Number0, Boolean0, String0, Object0, Null0, Undefined0, EcmaArray0, ObjectEnd0,
       StrictArray0, Date0, LongString0, TypedObject0, Byte

\* What is done by the marker.
LEMMA ByMarker0 ==
    ASSUME NEW inner, NEW d
    PROVE  /\ DecodeMarked0(inner, d, Number0) = Tagged("float64", Take(d, 8))
           /\ DecodeMarked0(inner, d, Boolean0)
                = Bind(Take(d, 1), LAMBDA e, b : Ok(e, <<"bool", b # <<0>>>>))
           /\ DecodeMarked0(inner, d, String0) = Tagged("string", ReadUTF8(d, 2))
           /\ DecodeMarked0(inner, d, Object0) = DecodeMap(inner, d, <<>>)
           /\ DecodeMarked0(inner, d, Null0) = Ok(d, <<"nil">>)
           /\ DecodeMarked0(inner, d, Undefined0) = Ok(d, <<"nil">>)
           /\ DecodeMarked0(inner, d, EcmaArray0) = DecodeEcmaArray(inner, d)
           /\ DecodeMarked0(inner, d, StrictArray0) = DecodeStrictArray(inner, d)
           /\ DecodeMarked0(inner, d, Date0) = DecodeDateValue0(d)
           /\ DecodeMarked0(inner, d, LongString0) = Tagged("string", ReadUTF8(d, 4))
           /\ DecodeMarked0(inner, d, TypedObject0) = DecodeTypedObject(inner, d)
<1>1. DecodeMarked0(inner, d, Number0) = Tagged("float64", Take(d, 8))
  BY Markers0, Zenon DEF DecodeMarked0
<1>2. DecodeMarked0(inner, d, Boolean0)
        = Bind(Take(d, 1), LAMBDA e, b : Ok(e, <<"bool", b # <<0>>>>))
  BY Markers0, Zenon DEF DecodeMarked0
<1>3. DecodeMarked0(inner, d, String0) = Tagged("string", ReadUTF8(d, 2))
  BY Markers0, Zenon DEF DecodeMarked0
<1>4. DecodeMarked0(inner, d, Object0) = DecodeMap(inner, d, <<>>)
  BY Markers0, Zenon DEF DecodeMarked0
<1>5. DecodeMarked0(inner, d, Null0) = Ok(d, <<"nil">>)
  BY Markers0, Zenon DEF DecodeMarked0
<1>6. DecodeMarked0(inner, d, Undefined0) = Ok(d, <<"nil">>)
  BY Markers0, Zenon DEF DecodeMarked0
<1>7. DecodeMarked0(inner, d, EcmaArray0) = DecodeEcmaArray(inner, d)
  BY Markers0, Zenon DEF DecodeMarked0
<1>8. DecodeMarked0(inner, d, StrictArray0) = DecodeStrictArray(inner, d)
  BY Markers0, Zenon DEF DecodeMarked0
<1>9. DecodeMarked0(inner, d, Date0) = DecodeDateValue0(d)
  BY Markers0, Zenon DEF DecodeMarked0
<1>10. DecodeMarked0(inner, d, LongString0) = Tagged("string", ReadUTF8(d, 4))
  BY Markers0, Zenon DEF DecodeMarked0
<1>11. DecodeMarked0(inner, d, TypedObject0) = DecodeTypedObject(inner, d)
  BY Markers0, Zenon DEF DecodeMarked0
<1> QED
  BY <1>1, <1>2, <1>3, <1>4, <1>5, <1>6, <1>7, <1>8, <1>9, <1>10, <1>11, Zenon

\* What has been read gets a tag.
LEMMA TaggedGives ==
    ASSUME NEW r, NEW d, NEW v, r = Ok(d, v), d.ok, NEW tag
    PROVE  Tagged(tag, r) = Ok(d, <<tag, v>>)
<1>1. r.d = d /\ r.val = v
  BY OkHas
<1> QED
  BY <1>1, Zenon DEF Tagged, Bind

\* Eight bytes.
LEMMA BitsAre ==
    ASSUME NEW b \in Bits
    PROVE  b \in Seq(Byte) /\ Len(b) = 8
<1>1. \A i \in 1 .. 8 : b[i] \in Byte
  BY DEF Bits
<1>2. b = [i \in 1 .. 8 |-> b[i]]
  BY DEF Bits
<1> QED
  BY <1>1, <1>2, IsASeq

\* Eight bytes after the marker of a number are that number.
LEMMA ReadsNumber0 ==
    ASSUME NEW b \in Bits
    PROVE  ReadsMarked0(Number0, b, <<"float64", b>>)
<1> SUFFICES ASSUME NEW rest \in Seq(Byte), NEW m \in Nat
             PROVE  DecodeMarked0(Decoding0[m], At0(b \o rest), Number0) = Ok(At0(rest), <<"float64", b>>)
  BY DEF ReadsMarked0
<1> DEFINE d == At0(b \o rest)
<1>1. Take(d, 8) = Ok(At0(rest), b)
  BY BitsAre, TakeGives
<1>2. At0(rest).ok
  BY AtHas
<1> DEFINE r == Take(d, 8)
           f == At0(rest)
<1> HIDE DEF r, f
<1>3. Tagged("float64", r) = Ok(f, <<"float64", b>>)
  BY <1>1, <1>2, TaggedGives DEF r, f
<1> HIDE DEF d
<1>4. DecodeMarked0(Decoding0[m], d, Number0) = Tagged("float64", r)
  BY ByMarker0 DEF r
<1> QED
  BY <1>3, <1>4, Zenon DEF d, f

\* One byte after the marker of a boolean says which.
LEMMA ReadsBoolean0 ==
    ASSUME NEW v \in BOOLEAN
    PROVE  ReadsMarked0(Boolean0, <<IF v THEN 1 ELSE 0>>, <<"bool", v>>)
<1> DEFINE b == <<IF v THEN 1 ELSE 0>>
<1>0. b \in Seq(Byte) /\ Len(b) = 1 /\ (b # <<0>>) = v
  <2>1. CASE v = TRUE
    <3>1. b[1] = 1 /\ <<0>>[1] = 0
      BY <2>1
    <3>2. b \in Seq(Byte) /\ Len(b) = 1
      BY <2>1 DEF Byte
    <3> HIDE DEF b
    <3>3. b # <<0>>
      BY <3>1
    <3>4. (b # <<0>>) = TRUE
      BY <3>3, Zenon
    <3> QED BY <2>1, <3>2, <3>4, Zenon
  <2>2. CASE v = FALSE
    BY <2>2 DEF Byte
  <2> QED BY <2>1, <2>2
<1> HIDE DEF b
<1>a. SUFFICES ASSUME NEW rest \in Seq(Byte), NEW m \in Nat
             PROVE  DecodeMarked0(Decoding0[m], At0(b \o rest), Boolean0) = Ok(At0(rest), <<"bool", v>>)
  BY DEF ReadsMarked0, b
<1> DEFINE d == At0(b \o rest)
           f == At0(rest)
           r == Take(d, 1)
<1>1. r = Ok(f, b)
  BY <1>0, TakeGives
<1>2. f.ok /\ Ok(f, b).d = f /\ Ok(f, b).val = b
  BY AtHas, OkHas
<1>3. DecodeMarked0(Decoding0[m], d, Boolean0) = Bind(r, LAMBDA e, x : Ok(e, <<"bool", x # <<0>>>>))
  <2> HIDE DEF d
  <2> QED BY ByMarker0, Zenon
<1> HIDE DEF d, r, f
<1>4. Bind(r, LAMBDA e, x : Ok(e, <<"bool", x # <<0>>>>)) = Ok(f, <<"bool", b # <<0>>>>)
  BY <1>1, <1>2, Zenon DEF Bind
<1> QED
  BY <1>0, <1>3, <1>4 DEF d, f

\* A string after its marker, short or long.
LEMMA ReadsString0 ==
    ASSUME NEW s \in Seq(Byte)
    PROVE  /\ Len(s) <= MaxShort => ReadsMarked0(String0, ShortBytes(s), <<"string", s>>)
           /\ Len(s) < TwoTo24 => ReadsMarked0(LongString0, LongBytes(s), <<"string", s>>)
<1>1. ASSUME Len(s) <= MaxShort PROVE ReadsMarked0(String0, ShortBytes(s), <<"string", s>>)
  <2> SUFFICES ASSUME NEW rest \in Seq(Byte), NEW m \in Nat
               PROVE  DecodeMarked0(Decoding0[m], At0(ShortBytes(s) \o rest), String0)
                        = Ok(At0(rest), <<"string", s>>)
    BY DEF ReadsMarked0
  <2> DEFINE d == At0(ShortBytes(s) \o rest)
             f == At0(rest)
             r == ReadUTF8(d, 2)
  <2>1. r = Ok(f, s) /\ f.ok
    BY <1>1, ReadUTF8Gives, AtHas
  <2>2. DecodeMarked0(Decoding0[m], d, String0) = Tagged("string", r)
    <3> HIDE DEF d
    <3> QED BY ByMarker0
  <2> HIDE DEF d, f, r
  <2>3. Tagged("string", r) = Ok(f, <<"string", s>>)
    BY <2>1, TaggedGives
  <2> QED
    BY <2>2, <2>3, Zenon DEF d, f
<1>2. ASSUME Len(s) < TwoTo24 PROVE ReadsMarked0(LongString0, LongBytes(s), <<"string", s>>)
  <2> SUFFICES ASSUME NEW rest \in Seq(Byte), NEW m \in Nat
               PROVE  DecodeMarked0(Decoding0[m], At0(LongBytes(s) \o rest), LongString0)
                        = Ok(At0(rest), <<"string", s>>)
    BY DEF ReadsMarked0
  <2> DEFINE d == At0(LongBytes(s) \o rest)
             f == At0(rest)
             r == ReadUTF8(d, 4)
  <2>1. r = Ok(f, s) /\ f.ok
    BY <1>2, ReadUTF8Gives, AtHas
  <2>2. DecodeMarked0(Decoding0[m], d, LongString0) = Tagged("string", r)
    <3> HIDE DEF d
    <3> QED BY ByMarker0
  <2> HIDE DEF d, f, r
  <2>3. Tagged("string", r) = Ok(f, <<"string", s>>)
    BY <2>1, TaggedGives
  <2> QED
    BY <2>2, <2>3, Zenon DEF d, f
<1> QED
  BY <1>1, <1>2

\* Nothing follows the markers of null and undefined.
LEMMA ReadsNil0 ==
    ASSUME NEW marker \in {Null0, Undefined0}
    PROVE  ReadsMarked0(marker, <<>>, <<"nil">>)
<1> SUFFICES ASSUME NEW rest \in Seq(Byte), NEW m \in Nat
             PROVE  DecodeMarked0(Decoding0[m], At0(<<>> \o rest), marker) = Ok(At0(rest), <<"nil">>)
  BY DEF ReadsMarked0
<1>1. <<>> \o rest = rest
  BY JoinNothing
<1>2. DecodeMarked0(Decoding0[m], At0(rest), marker) = Ok(At0(rest), <<"nil">>)
  BY ByMarker0
<1> QED
  BY <1>1, <1>2, Zenon

\* A date is read, and its time zone is skipped.
LEMMA ReadsDate0 ==
    ASSUME NEW ms \in Bits, NEW zone \in [1 .. 2 -> Byte]
    PROVE  ms \o zone \in Seq(Byte) /\ ReadsMarked0(Date0, ms \o zone, <<"time", TimeFrom0(ms)>>)
<1>0. ms \in Seq(Byte) /\ Len(ms) = 8
  BY BitsAre
<1>1. zone \in Seq(Byte) /\ Len(zone) = 2
  <2>1. zone = [i \in 1 .. 2 |-> zone[i]] /\ \A i \in 1 .. 2 : zone[i] \in Byte
    OBVIOUS
  <2> QED BY <2>1, IsASeq
<1>2. ms \o zone \in Seq(Byte)
  BY <1>0, <1>1, JoinTwo DEF Join2
<1> SUFFICES ASSUME NEW rest \in Seq(Byte), NEW m \in Nat
             PROVE  DecodeMarked0(Decoding0[m], At0((ms \o zone) \o rest), Date0)
                      = Ok(At0(rest), <<"time", TimeFrom0(ms)>>)
  BY <1>2 DEF ReadsMarked0
<1>3. Join3(ms, zone, rest)
  BY <1>0, <1>1, JoinThree
<1> DEFINE t == zone \o rest
           d == At0(ms \o t)
           g == At0(t)
           f == At0(rest)
<1>4. (ms \o zone) \o rest = ms \o t /\ t \in Seq(Byte)
  BY <1>3, Zenon DEF Join3
<1>5. Take(d, 8) = Ok(g, ms)
  <2> HIDE DEF t
  <2> QED BY <1>0, <1>4, TakeGives
<1>6. Take(g, 2) = Ok(f, zone)
  BY <1>1, TakeGives
<1>7. g.ok /\ f.ok
  BY AtHas
<1>8. /\ Ok(g, ms).d = g /\ Ok(g, ms).val = ms
      /\ Ok(f, zone).d = f /\ Ok(f, zone).val = zone
  BY OkHas
<1> HIDE DEF d, g, f, t
<1>9. DecodeDateValue0(d) = Ok(f, <<"time", TimeFrom0(ms)>>)
  BY <1>5, <1>6, <1>7, <1>8, Zenon DEF DecodeDateValue0, Bind
<1>10. DecodeMarked0(Decoding0[m], d, Date0) = DecodeDateValue0(d)
  BY ByMarker0
<1> QED
  BY <1>4, <1>9, <1>10, Zenon DEF d, f

\* decodeObject gives the map of the pairs its loop has read.
LEMMA MapGives ==
    ASSUME NEW inner, NEW d, NEW first, NEW f, NEW ps, inner.pairs[d] = Ok(f, ps), f.ok
    PROVE  DecodeMap(inner, d, first) = Ok(f, <<"map", MapOf(first \o ps)>>)
<1>1. Ok(f, ps).d = f /\ Ok(f, ps).val = ps
  BY OkHas
<1> QED
  BY <1>1, Zenon DEF DecodeMap, Bind

\* What DecodePairs0 reads is where it is after one call more.
LEMMA PairsHere0 ==
    ASSUME NEW c \in Seq(Byte), NEW ps, ReadsPairs0(c, ps), NEW rest \in Seq(Byte),
           NEW m \in Nat, m > Len(c), NEW first
    PROVE  DecodeMap(Decoding0[m], At0(c \o rest), first) = Ok(At0(rest), <<"map", MapOf(first \o ps)>>)
<1> DEFINE d == At0(c \o rest)
           f == At0(rest)
           p == Decoding0[m]
<1>1. p.pairs[d] = Ok(f, ps) /\ f.ok
  BY AtHas DEF ReadsPairs0
<1> HIDE DEF d, f, p
<1>2. DecodeMap(p, d, first) = Ok(f, <<"map", MapOf(first \o ps)>>)
  BY <1>1, MapGives
<1> QED
  BY <1>2, Zenon DEF d, f, p

\* Pairs after the marker of an object are its map.
LEMMA ReadsObject0 ==
    ASSUME NEW c \in Seq(Byte), NEW ps, ReadsPairs0(c, ps)
    PROVE  ReadsMarked0(Object0, c, <<"map", MapOf(<<>> \o ps)>>)
<1> SUFFICES ASSUME NEW rest \in Seq(Byte), NEW m \in Nat, m > Len(c)
             PROVE  DecodeMarked0(Decoding0[m], At0(c \o rest), Object0)
                      = Ok(At0(rest), <<"map", MapOf(<<>> \o ps)>>)
  BY DEF ReadsMarked0
<1>1. DecodeMap(Decoding0[m], At0(c \o rest), <<>>) = Ok(At0(rest), <<"map", MapOf(<<>> \o ps)>>)
  <2> DEFINE first == <<>>
  <2> HIDE DEF first
  <2>1. DecodeMap(Decoding0[m], At0(c \o rest), first) = Ok(At0(rest), <<"map", MapOf(first \o ps)>>)
    BY PairsHere0
  <2> QED BY <2>1, Zenon DEF first
<1> DEFINE p == Decoding0[m]
           d == At0(c \o rest)
<1> HIDE DEF p, d
<1>2. DecodeMarked0(p, d, Object0) = DecodeMap(p, d, <<>>)
  BY ByMarker0
<1> QED
  BY <1>1, <1>2, Zenon DEF p, d

\* Four bytes that announce something.
LEMMA CountAndRest ==
    ASSUME NEW n \in Nat, NEW c \in Seq(Byte), NEW rest \in Seq(Byte)
    PROVE  /\ UInt32(n) \o c \in Seq(Byte) /\ Len(UInt32(n) \o c) = Len(c) + 4 /\ Len(c) \in Nat
           /\ c \o rest \in Seq(Byte) /\ (UInt32(n) \o c) \o rest = UInt32(n) \o (c \o rest)
           /\ ReadUInt(At0(UInt32(n) \o (c \o rest)), 4) = Ok(At0(c \o rest), Number(UInt32(n)))
<1> DEFINE a == UInt32(n)
           t == c \o rest
<1>1. a \in Seq(Byte) /\ Len(a) = 4
  BY UInt32Type
<1> HIDE DEF a
<1>2. Join3(a, c, rest) /\ Join2(a, c)
  BY <1>1, JoinThree, JoinTwo
<1>3. t \in Seq(Byte) /\ (a \o c) \o rest = a \o t /\ a \o c \in Seq(Byte)
  BY <1>2, Zenon DEF Join3
<1>4. Len(a \o c) = Len(c) + 4 /\ Len(c) \in Nat
  BY <1>1, <1>2 DEF Join2
<1>5. ReadUInt(At0(a \o t), 4) = Ok(At0(t), Number(a))
  <2> HIDE DEF t
  <2>1. ReadUInt(At0(a \o t), Len(a)) = Ok(At0(t), Number(a))
    BY <1>1, <1>3, ReadUIntGives
  <2> QED BY <1>1, <2>1
<1> QED
  BY <1>3, <1>4, <1>5, Zenon DEF a, t

\* Pairs after a count, which is not used, are a map too.
LEMMA ReadsEcmaArray0 ==
    ASSUME NEW c \in Seq(Byte), NEW ps, ReadsPairs0(c, ps), NEW n \in Nat
    PROVE  /\ UInt32(n) \o c \in Seq(Byte)
           /\ ReadsMarked0(EcmaArray0, UInt32(n) \o c, <<"map", MapOf(<<>> \o ps)>>)
<1>0. UInt32(n) \o c \in Seq(Byte) /\ Len(UInt32(n) \o c) = Len(c) + 4 /\ Len(c) \in Nat
  BY CountAndRest, EmptySeq
<1> SUFFICES ASSUME NEW rest \in Seq(Byte), NEW m \in Nat, m > Len(UInt32(n) \o c)
             PROVE  DecodeMarked0(Decoding0[m], At0((UInt32(n) \o c) \o rest), EcmaArray0)
                      = Ok(At0(rest), <<"map", MapOf(<<>> \o ps)>>)
  BY <1>0 DEF ReadsMarked0
<1>1. m > Len(c)
  BY <1>0
<1> DEFINE p == Decoding0[m]
           d == At0(UInt32(n) \o (c \o rest))
           g == At0(c \o rest)
           f == At0(rest)
           x == <<"map", MapOf(<<>> \o ps)>>
           l == Number(UInt32(n))
<1>2. (UInt32(n) \o c) \o rest = UInt32(n) \o (c \o rest) /\ ReadUInt(d, 4) = Ok(g, l)
  BY CountAndRest
<1>3. DecodeMap(p, g, <<>>) = Ok(f, x)
  <2> DEFINE first == <<>>
  <2> HIDE DEF first
  <2>1. DecodeMap(p, g, first) = Ok(f, <<"map", MapOf(first \o ps)>>)
    BY <1>1, PairsHere0
  <2> QED BY <2>1, Zenon DEF first
<1>4. g.ok /\ Ok(g, l).d = g /\ Ok(g, l).val = l
  BY AtHas, OkHas
<1> HIDE DEF p, d, g, f, x, l
<1>5. DecodeEcmaArray(p, d) = Ok(f, x)
  BY <1>2, <1>3, <1>4, Zenon DEF DecodeEcmaArray, Bind
<1>6. DecodeMarked0(p, d, EcmaArray0) = DecodeEcmaArray(p, d)
  BY ByMarker0
<1> QED
  BY <1>2, <1>5, <1>6, Zenon DEF p, d, f, x

\* As many elements as the count in front says are a slice.
LEMMA ReadsStrictArray0 ==
    ASSUME NEW c \in Seq(Byte), NEW xs, NEW k \in Nat, k < TwoTo24, ReadsElements0(c, k, xs)
    PROVE  /\ UInt32(k) \o c \in Seq(Byte)
           /\ ReadsMarked0(StrictArray0, UInt32(k) \o c, <<"slice", xs>>)
<1>0. UInt32(k) \o c \in Seq(Byte) /\ Len(UInt32(k) \o c) = Len(c) + 4 /\ Len(c) \in Nat
  BY CountAndRest, EmptySeq
<1> SUFFICES ASSUME NEW rest \in Seq(Byte), NEW m \in Nat, m > Len(UInt32(k) \o c)
             PROVE  DecodeMarked0(Decoding0[m], At0((UInt32(k) \o c) \o rest), StrictArray0)
                      = Ok(At0(rest), <<"slice", xs>>)
  BY <1>0 DEF ReadsMarked0
<1>1. m > Len(c) + 1
  BY <1>0
<1> DEFINE p == Decoding0[m]
           d == At0(UInt32(k) \o (c \o rest))
           g == At0(c \o rest)
           f == At0(rest)
           r == p.elements[k][g]
<1>a. Number(UInt32(k)) = k
  BY UInt32Is
<1>2. (UInt32(k) \o c) \o rest = UInt32(k) \o (c \o rest) /\ ReadUInt(d, 4) = Ok(g, k)
  <2>1. ReadUInt(At0(UInt32(k) \o (c \o rest)), 4) = Ok(At0(c \o rest), Number(UInt32(k)))
        /\ (UInt32(k) \o c) \o rest = UInt32(k) \o (c \o rest)
    BY CountAndRest, ZenonT(60)
  <2> QED BY <1>a, <2>1, Zenon
<1>3. r = Ok(f, xs)
  BY <1>1 DEF ReadsElements0
<1>b. g.ok /\ f.ok
  BY AtHas
<1> HIDE DEF g, f
<1>4. g.ok /\ f.ok /\ Ok(g, k).d = g /\ Ok(g, k).val = k
  BY <1>b, OkHas
<1>5. ~(k < 0)
  OBVIOUS
<1> HIDE DEF d, g, f
<1>6. DecodeStrictArray(p, d) = Tagged("slice", r)
  <2> HIDE DEF p
  <2> QED BY <1>2, <1>4, <1>5, Zenon DEF DecodeStrictArray, Bind
<1> HIDE DEF p, r
<1>7. Tagged("slice", r) = Ok(f, <<"slice", xs>>)
  BY <1>3, <1>4, TaggedGives
<1>8. DecodeMarked0(p, d, StrictArray0) = DecodeStrictArray(p, d)
  BY ByMarker0
<1> QED
  BY <1>2, <1>6, <1>7, <1>8, Zenon DEF p, d, f

\* Pairs after a class name are a map that has the class as its first pair.
LEMMA ReadsTypedObject0 ==
    ASSUME NEW c \in Seq(Byte), NEW ps, ReadsPairs0(c, ps), NEW s \in Seq(Byte), Len(s) <= MaxShort
    PROVE  /\ ShortBytes(s) \o c \in Seq(Byte)
           /\ ReadsMarked0(TypedObject0, ShortBytes(s) \o c,
                           <<"map", MapOf(<<<<ClassNameKey, <<"string", s>>>>>> \o ps)>>)
<1> DEFINE a == ShortBytes(s)
<1>a. a \in Seq(Byte) /\ Len(a) = Len(s) + 2 /\ Len(s) \in Nat
  BY ShortBytesType
<1> HIDE DEF a
<1>0. a \o c \in Seq(Byte) /\ Len(a \o c) = Len(a) + Len(c) /\ Len(c) \in Nat
  <2>1. Join2(a, c)
    BY <1>a, JoinTwo
  <2> QED BY <2>1, Zenon DEF Join2
<1> DEFINE x == <<"map", MapOf(<<<<ClassNameKey, <<"string", s>>>>>> \o ps)>>
<1>b. SUFFICES ASSUME NEW rest \in Seq(Byte), NEW m \in Nat, m > Len(a \o c)
      PROVE  DecodeMarked0(Decoding0[m], At0((a \o c) \o rest), TypedObject0) = Ok(At0(rest), x)
  <2> HIDE DEF x
  <2>1. ReadsMarked0(TypedObject0, a \o c, x)
    BY <1>b DEF ReadsMarked0
  <2> QED BY <1>0, <2>1, Zenon DEF a, x
<1>1. m > Len(c)
  <2> DEFINE l == Len(a \o c)
  <2>1. m > l /\ l = Len(a) + Len(c)
    BY <1>0, <1>b
  <2> HIDE DEF l
  <2> QED BY <1>a, <1>0, <2>1
<1> DEFINE p == Decoding0[m]
           t == c \o rest
           d == At0(a \o t)
           g == At0(t)
           f == At0(rest)
<1>c. Join3(a, c, rest)
  BY <1>a, JoinThree
<1>d. (a \o c) \o rest = a \o t /\ t \in Seq(Byte)
  BY <1>c, Zenon DEF Join3
<1>2. ReadUTF8(d, 2) = Ok(g, s)
  <2> HIDE DEF t
  <2> QED BY <1>d, ReadUTF8Gives DEF a
<1>3. DecodeMap(p, g, <<<<ClassNameKey, <<"string", s>>>>>>) = Ok(f, x)
  <2> DEFINE first == <<<<ClassNameKey, <<"string", s>>>>>>
  <2> HIDE DEF first
  <2>1. DecodeMap(p, g, first) = Ok(f, <<"map", MapOf(first \o ps)>>)
    BY <1>1, PairsHere0
  <2> QED BY <2>1, Zenon DEF first
<1>4. g.ok /\ Ok(g, s).d = g /\ Ok(g, s).val = s
  BY AtHas, OkHas
<1> HIDE DEF p, d, g, f, x
<1>5. DecodeTypedObject(p, d) = Ok(f, x)
  BY <1>2, <1>3, <1>4, Zenon DEF DecodeTypedObject, Bind
<1>6. DecodeMarked0(p, d, TypedObject0) = DecodeTypedObject(p, d)
  BY ByMarker0
<1> QED
  BY <1>d, <1>5, <1>6, Zenon DEF p, d, f

\* What is written of a value, by its type.
WrittenByType0(enc, e, v) ==
  /\ v[1] \in {"float64", "AMF0Number"} => EncodeByType0(enc, e, v) = Write(e, <<Number0>> \o v[2])
  /\ v[1] = "int" => EncodeByType0(enc, e, v) = Write(e, <<Number0>> \o Float64[v[2]])
  /\ v[1] \in {"bool", "AMF0Boolean"} =>
       EncodeByType0(enc, e, v) = Write(e, <<Boolean0, IF v[2] THEN 1 ELSE 0>>)
  /\ v[1] \in {"string", "AMF0String"} => EncodeByType0(enc, e, v) = EncodeString0(e, v[2])
  /\ v[1] \in {"map", "AMF0Object"} =>
       EncodeByType0(enc, e, v) = EncodePairs0(enc, Write(e, <<Object0>>), v[2])
  /\ v[1] \in {"slice", "AMF0StrictArray"} =>
       EncodeByType0(enc, e, v) = EncodeStrictArray(enc, e, v[2])
  /\ v[1] \in {"nil", "AMF0Null"} => EncodeByType0(enc, e, v) = Write(e, <<Null0>>)
  /\ v[1] = "AMF0Undefined" => EncodeByType0(enc, e, v) = Write(e, <<Undefined0>>)
  /\ v[1] = "AMF0EcmaArray" =>
       EncodeByType0(enc, e, v)
         = EncodeTypedPairs0(enc, Write(e, <<EcmaArray0>> \o UInt32(v[2].count)), v[2].properties)
  /\ v[1] = "AMF0Date" =>
       EncodeByType0(enc, e, v) = Write(e, <<Date0>> \o v[2].milliseconds \o v[2].timezone)
  /\ v[1] = "AMF0LongString" => EncodeByType0(enc, e, v) = EncodeLongString(e, v[2])
  /\ v[1] = "AMF0TypedObject" =>
       EncodeByType0(enc, e, v)
         = EncodeTypedPairs0(enc, WriteShort(Write(e, <<TypedObject0>>), v[2].className),
                             v[2].properties)
  /\ v[1] \notin Tags0 => EncodeByType0(enc, e, v) = Unsupported(e)

\* EncodeByType0 goes by the type of the value.
LEMMA EncodedByType0 ==
    ASSUME NEW enc, NEW e, NEW v
    PROVE  WrittenByType0(enc, e, v)
<1>1. v[1] \in {"float64", "AMF0Number"} => EncodeByType0(enc, e, v) = Write(e, <<Number0>> \o v[2])
  BY Zenon DEF EncodeByType0
<1>2. v[1] = "int" => EncodeByType0(enc, e, v) = Write(e, <<Number0>> \o Float64[v[2]])
  BY Zenon DEF EncodeByType0
<1>3. v[1] \in {"bool", "AMF0Boolean"} =>
                EncodeByType0(enc, e, v) = Write(e, <<Boolean0, IF v[2] THEN 1 ELSE 0>>)
  BY Zenon DEF EncodeByType0
<1>4. v[1] \in {"string", "AMF0String"} => EncodeByType0(enc, e, v) = EncodeString0(e, v[2])
  BY Zenon DEF EncodeByType0
<1>5. v[1] \in {"map", "AMF0Object"} =>
                EncodeByType0(enc, e, v) = EncodePairs0(enc, Write(e, <<Object0>>), v[2])
  BY Zenon DEF EncodeByType0
<1>6. v[1] \in {"slice", "AMF0StrictArray"} =>
                EncodeByType0(enc, e, v) = EncodeStrictArray(enc, e, v[2])
  BY Zenon DEF EncodeByType0
<1>7. v[1] \in {"nil", "AMF0Null"} => EncodeByType0(enc, e, v) = Write(e, <<Null0>>)
  BY Zenon DEF EncodeByType0
<1>8. v[1] = "AMF0Undefined" => EncodeByType0(enc, e, v) = Write(e, <<Undefined0>>)
  BY Zenon DEF EncodeByType0
<1>9. v[1] = "AMF0EcmaArray" =>
                EncodeByType0(enc, e, v)
                  = EncodeTypedPairs0(enc, Write(e, <<EcmaArray0>> \o UInt32(v[2].count)),
                                      v[2].properties)
  BY Zenon DEF EncodeByType0
<1>10. v[1] = "AMF0Date" =>
                EncodeByType0(enc, e, v) = Write(e, <<Date0>> \o v[2].milliseconds \o v[2].timezone)
  BY Zenon DEF EncodeByType0
<1>11. v[1] = "AMF0LongString" => EncodeByType0(enc, e, v) = EncodeLongString(e, v[2])
  BY Zenon DEF EncodeByType0
<1>12. v[1] = "AMF0TypedObject" =>
                EncodeByType0(enc, e, v)
                  = EncodeTypedPairs0(enc, WriteShort(Write(e, <<TypedObject0>>), v[2].className),
                                      v[2].properties)
  BY Zenon DEF EncodeByType0
<1>13. v[1] \notin Tags0 => EncodeByType0(enc, e, v) = Unsupported(e)
  BY Zenon DEF EncodeByType0, Tags0, GoTags
<1> QED
  BY <1>1, <1>2, <1>3, <1>4, <1>5, <1>6, <1>7, <1>8, <1>9, <1>10, <1>11, <1>12, <1>13, Zenon
     DEF WrittenByType0

\* What it becomes, by its type.
LEMMA BecomesByType0 ==
    ASSUME NEW bec, NEW v
    PROVE  /\ v[1] = "int" => ByType0(bec, v) = <<"float64", Float64[v[2]]>>
           /\ v[1] = "AMF0Number" => ByType0(bec, v) = <<"float64", v[2]>>
           /\ v[1] = "AMF0Boolean" => ByType0(bec, v) = <<"bool", v[2]>>
           /\ v[1] \in {"AMF0String", "AMF0LongString"} => ByType0(bec, v) = <<"string", v[2]>>
           /\ v[1] \in {"AMF0Null", "AMF0Undefined"} => ByType0(bec, v) = <<"nil">>
           /\ v[1] \in {"slice", "AMF0StrictArray"} =>
                ByType0(bec, v) = <<"slice", EachBecomes(bec, v[2])>>
           /\ v[1] \in {"map", "AMF0Object"} => ByType0(bec, v) = <<"map", PairsBecome(bec, v[2])>>
           /\ v[1] = "AMF0EcmaArray" => ByType0(bec, v) = <<"map", PairsBecome(bec, v[2].properties)>>
           /\ v[1] = "AMF0Date" => ByType0(bec, v) = <<"time", TimeFrom0(v[2].milliseconds)>>
           /\ v[1] = "AMF0TypedObject" =>
                ByType0(bec, v)
                  = <<"map", WithClass(v[2].className, PairsBecome(bec, v[2].properties))>>
           /\ v[1] \in {"float64", "bool", "string", "nil"} => ByType0(bec, v) = v
<1>1. v[1] = "int" => ByType0(bec, v) = <<"float64", Float64[v[2]]>>
  BY Zenon DEF ByType0
<1>2. v[1] = "AMF0Number" => ByType0(bec, v) = <<"float64", v[2]>>
  BY Zenon DEF ByType0
<1>3. v[1] = "AMF0Boolean" => ByType0(bec, v) = <<"bool", v[2]>>
  BY Zenon DEF ByType0
<1>4. v[1] \in {"AMF0String", "AMF0LongString"} => ByType0(bec, v) = <<"string", v[2]>>
  BY Zenon DEF ByType0
<1>5. v[1] \in {"AMF0Null", "AMF0Undefined"} => ByType0(bec, v) = <<"nil">>
  BY Zenon DEF ByType0
<1>6. v[1] \in {"slice", "AMF0StrictArray"} =>
                ByType0(bec, v) = <<"slice", EachBecomes(bec, v[2])>>
  BY Zenon DEF ByType0
<1>7. v[1] \in {"map", "AMF0Object"} => ByType0(bec, v) = <<"map", PairsBecome(bec, v[2])>>
  BY Zenon DEF ByType0
<1>8. v[1] = "AMF0EcmaArray" => ByType0(bec, v) = <<"map", PairsBecome(bec, v[2].properties)>>
  BY Zenon DEF ByType0
<1>9. v[1] = "AMF0Date" => ByType0(bec, v) = <<"time", TimeFrom0(v[2].milliseconds)>>
  BY Zenon DEF ByType0
<1>10. v[1] = "AMF0TypedObject" =>
                ByType0(bec, v)
                  = <<"map", WithClass(v[2].className, PairsBecome(bec, v[2].properties))>>
  BY Zenon DEF ByType0
<1>11. v[1] \in {"float64", "bool", "string", "nil"} => ByType0(bec, v) = v
  BY Zenon DEF ByType0
<1> QED
  BY <1>1, <1>2, <1>3, <1>4, <1>5, <1>6, <1>7, <1>8, <1>9, <1>10, <1>11, Zenon

\* Bytes were written, and are read.
LEMMA Written0 ==
    ASSUME NEW e \in Encoder0, NEW b \in Seq(Byte), NEW visited, AllIn(visited, Fit0), NEW x,
           Reads0(b, x)
    PROVE  Carries0(e, Write(e, b), visited, x)
<1> DEFINE f == Write(e, b)
<1>1. f \in Encoder0 /\ f.out = e.out \o b /\ f.ok = e.ok
  BY WriteHas0
<1> HIDE DEF f
<1>2. f.ok <=> e.ok /\ AllIn(visited, Fit0)
  BY <1>1
<1>3. Carries0(e, f, visited, x)
  BY <1>1, <1>2, Zenon DEF Carries0
<1> QED BY <1>3 DEF f

\* A marker was written, and what it marks.
LEMMA WrittenMarked0 ==
    ASSUME NEW e \in Encoder0, NEW marker \in Byte, NEW c \in Seq(Byte), NEW visited,
           AllIn(visited, Fit0), NEW x, ReadsMarked0(marker, c, x)
    PROVE  Carries0(e, Write(e, <<marker>> \o c), visited, x)
<1> DEFINE b == <<marker>> \o c
<1>1. b \in Seq(Byte) /\ Reads0(b, x)
  BY ReadsWithMarker0
<1> HIDE DEF b
<1>2. Carries0(e, Write(e, b), visited, x)
  BY <1>1, Written0
<1> QED BY <1>2 DEF b

\* There is no form for it.
LEMMA Refused0 ==
    ASSUME NEW e \in Encoder0, NEW visited, ~AllIn(visited, Fit0), NEW x
    PROVE  Carries0(e, Unsupported(e), visited, x)
<1> DEFINE f == Unsupported(e)
           b == <<>>
<1>1. b \in Seq(Byte) /\ e.out \o b = e.out
  BY DEF Encoder0
<1>2. f \in Encoder0 /\ f.out = e.out /\ f.ok = FALSE
  BY <1>1, WriteHas0
<1> HIDE DEF f, b
<1>3. f.out = e.out \o b
  BY <1>1, <1>2
<1>4. Carries0(e, f, visited, x)
  BY <1>1, <1>2, <1>3, Zenon DEF Carries0
<1> QED BY <1>4 DEF f

\* There is no form for something in it, found after some of it was written.
LEMMA RefusedLater0 ==
    ASSUME NEW e \in Encoder0, NEW g \in Encoder0, NEW b \in Seq(Byte), g.out = e.out \o b,
           NEW visited, ~AllIn(visited, Fit0), NEW x
    PROVE  Carries0(e, Unsupported(g), visited, x)
<1> DEFINE f == Unsupported(g)
<1>1. f \in Encoder0 /\ f.out = g.out /\ f.ok = FALSE
  BY WriteHas0
<1> HIDE DEF f
<1>2. f.out = e.out \o b
  BY <1>1
<1>3. Carries0(e, f, visited, x)
  BY <1>1, <1>2, Zenon DEF Carries0
<1> QED BY <1>3 DEF f

\* All of a scalar, and what is visited in it: itself.
LEMMA ScalarFits0 ==
    ASSUME NEW v \in Scalar, NEW vis
    PROVE  AllIn(VisitBy(vis, v), Fit0) <=> v[1] \in Tags0
<1>1. v \in AnyValue
  BY ValuesAre
<1>2. PairsOf(v) = <<>> /\ ElementsOf(v) = <<>>
  BY Contents
<1>3. \A S : <<>> \in List(S)
  BY DEF List, TwoTo24, TwoTo21
<1>4. AllIn(VisitBy(vis, v), Fit0) <=> v \in Fit0
  <2>1. \A w \in {} : vis[w] \in Seq(AnyValue)
    OBVIOUS
  <2>2. DOMAIN PairsOf(v) = {} /\ DOMAIN ElementsOf(v) = {}
    BY <1>2
  <2>3. PairsOf(v) \in List(GoString \X {}) /\ ElementsOf(v) \in List({})
    BY <1>2, <1>3
  <2>4. AllIn(VisitBy(vis, v), Fit0) <=>
                       /\ v \in Fit0
                       /\ \A i \in DOMAIN PairsOf(v) : AllIn(vis[PairsOf(v)[i][2]], Fit0)
                       /\ \A i \in DOMAIN ElementsOf(v) : AllIn(vis[ElementsOf(v)[i]], Fit0)
    BY <1>1, <2>1, <2>3, VisitByHas
  <2> QED
    BY <2>2, <2>4
<1>5. Keys(v) = {}
  BY <1>2 DEF Keys
<1>6. v[1] \notin {"AMF0EcmaArray", "AMF0TypedObject"}
  BY DEF Scalar
<1>7. Encodable0(v) <=> v[1] \in Tags0
  BY <1>5, <1>6 DEF Encodable0
<1> QED
  BY <1>1, <1>4, <1>7 DEF Fit0

\* Two bytes of a time zone.
LEMMA ZoneIs ==
    ASSUME NEW zone \in [1 .. 2 -> Byte]
    PROVE  zone \in Seq(Byte) /\ Len(zone) = 2
<1>1. zone = [i \in 1 .. 2 |-> zone[i]] /\ \A i \in 1 .. 2 : zone[i] \in Byte
  OBVIOUS
<1> QED BY <1>1, IsASeq

\* A string is written short or long.
LEMMA StringCarried0 ==
    ASSUME NEW e \in Encoder0, NEW s \in GoString, NEW visited, AllIn(visited, Fit0)
    PROVE  /\ Carries0(e, EncodeString0(e, s), visited, <<"string", s>>)
           /\ Carries0(e, EncodeLongString(e, s), visited, <<"string", s>>)
<1>1. s \in Seq(Byte) /\ Len(s) < TwoTo24 /\ Len(s) \in Nat /\ MaxShort \in Nat
  BY MaxShortIs DEF GoString, List
<1>2. String0 \in Byte /\ LongString0 \in Byte
  BY Markers0
<1>3. Carries0(e, EncodeLongString(e, s), visited, <<"string", s>>)
  <2>1. LongBytes(s) \in Seq(Byte)
    <3> DEFINE u == UInt32(Len(s))
    <3>1. u \in Seq(Byte)
      BY <1>1, UInt32Type
    <3> HIDE DEF u
    <3>2. Join2(u, s)
      BY <1>1, <3>1, JoinTwo
    <3> QED BY <3>2, Zenon DEF Join2, LongBytes, u
  <2>2. ReadsMarked0(LongString0, LongBytes(s), <<"string", s>>)
    BY <1>1, ReadsString0
  <2> DEFINE c == LongBytes(s)
             x == <<"string", s>>
  <2>3. EncodeLongString(e, s) = Write(e, <<LongString0>> \o c)
    <3> DEFINE m == <<LongString0>>
               u == UInt32(Len(s))
    <3>1. m \in Seq(Byte) /\ u \in Seq(Byte)
      BY <1>1, <1>2, UInt32Type
    <3>2. EncodeLongString(e, s) = Write(e, (m \o u) \o s)
      BY Zenon DEF EncodeLongString
    <3> HIDE DEF m, u
    <3>3. Join3(m, u, s)
      BY <1>1, <3>1, JoinThree
    <3>4. (m \o u) \o s = m \o (u \o s)
      BY <3>3, Zenon DEF Join3
    <3> QED BY <3>2, <3>4, Zenon DEF m, u, LongBytes
  <2> HIDE DEF c, x
  <2>4. Carries0(e, Write(e, <<LongString0>> \o c), visited, x)
    BY <1>2, <2>1, <2>2, WrittenMarked0 DEF c, x
  <2> QED BY <2>3, <2>4, Zenon DEF x
<1>4. Carries0(e, EncodeString0(e, s), visited, <<"string", s>>)
  <2>1. CASE Len(s) > MaxShort
    <3>1. EncodeString0(e, s) = EncodeLongString(e, s)
      BY <2>1, Zenon DEF EncodeString0
    <3> QED BY <1>3, <3>1, Zenon
  <2>2. CASE ~(Len(s) > MaxShort)
    <3>0. Len(s) <= MaxShort
      BY <1>1, <2>2
    <3> DEFINE c == ShortBytes(s)
               x == <<"string", s>>
               m == <<String0>>
               o == e.out
               f == Write(e, m)
    <3>1. c \in Seq(Byte) /\ m \in Seq(Byte) /\ o \in Seq(Byte)
      BY <1>1, <1>2, <3>0, ShortBytesType DEF Encoder0
    <3>2. ReadsMarked0(String0, c, x)
      BY <1>1, <3>0, ReadsString0
    <3>3. EncodeString0(e, s) = Write(f, c)
      BY <2>2, Zenon DEF EncodeString0, WriteShort, ShortBytes
    <3>4. Write(f, c) = Write(e, m \o c)
      <4> HIDE DEF m, c, o
      <4>1. Join3(o, m, c)
        BY <3>1, JoinThree
      <4>2. (o \o m) \o c = o \o (m \o c) /\ o \o m \in Seq(Byte)
        BY <4>1, Zenon DEF Join3
      <4> DEFINE y == o \o m
                 z == m \o c
      <4>3. f = [e EXCEPT !.out = y] /\ Write(e, z) = [e EXCEPT !.out = y \o c]
        BY <4>2, Zenon DEF Write, o
      <4>4. f.out = y
        <5> HIDE DEF y
        <5> QED BY <4>3 DEF Encoder0
      <4>5. Write(f, c) = [f EXCEPT !.out = y \o c]
        <5> HIDE DEF f, y
        <5> QED BY <4>4, Zenon DEF Write
      <4> DEFINE t == y \o c
      <4> HIDE DEF y, z, t
      <4>6. [[e EXCEPT !.out = y] EXCEPT !.out = t] = [e EXCEPT !.out = t]
        BY DEF Encoder0
      <4> QED BY <4>3, <4>5, <4>6, Zenon DEF z, t
    <3> HIDE DEF c, x
    <3>5. Carries0(e, Write(e, <<String0>> \o c), visited, x)
      BY <1>2, <3>1, <3>2, WrittenMarked0
    <3> QED BY <3>3, <3>4, <3>5, Zenon DEF x, m
  <2> QED BY <2>1, <2>2
<1> QED BY <1>3, <1>4

\* A scalar is written so that it is read as what it becomes, or not at all.
LEMMA ScalarCarried0 ==
    ASSUME NEW v \in Scalar, NEW e \in Encoder0, NEW enc, NEW vis, NEW bec
    PROVE  Carries0(e, EncodeByType0(enc, e, v), VisitBy(vis, v), ByType0(bec, v))
<1> DEFINE visited == VisitBy(vis, v)
           f == EncodeByType0(enc, e, v)
           x == ByType0(bec, v)
<1>0. WrittenByType0(enc, e, v)
  BY EncodedByType0
<1>1. AllIn(visited, Fit0) <=> v[1] \in Tags0
  BY ScalarFits0
<1>2. <<>> \in Seq(Byte)
  OBVIOUS
<1> HIDE DEF visited
<1>3. CASE v[1] \notin Tags0
  <2>1. f = Unsupported(e)
    BY <1>0, <1>3, Zenon DEF WrittenByType0
  <2> HIDE DEF f, x
  <2>2. Carries0(e, Unsupported(e), visited, x)
    BY <1>1, <1>3, Refused0
  <2> QED BY <2>1, <2>2 DEF f, x, visited
<1>4. SUFFICES ASSUME v[1] \in Tags0 PROVE Carries0(e, f, visited, x)
  BY <1>3 DEF visited
<1>5. AllIn(visited, Fit0)
  BY <1>1, <1>4
<1>6. ASSUME NEW marker \in Byte, NEW c \in Seq(Byte), NEW y, x = y, ReadsMarked0(marker, c, y),
             f = Write(e, <<marker>> \o c)
      PROVE  Carries0(e, f, visited, x)
  <2> HIDE DEF f, x
  <2>1. Carries0(e, Write(e, <<marker>> \o c), visited, y)
    BY <1>5, <1>6, WrittenMarked0
  <2> QED BY <1>6, <2>1
<1>7. CASE v[1] \in {"float64", "AMF0Number"}
  <2>1. v[2] \in Bits
    BY <1>7 DEF Scalar
  <2>2. f = Write(e, <<Number0>> \o v[2])
    BY <1>0, <1>7, Zenon DEF WrittenByType0
  <2>3. x = <<"float64", v[2]>>
    <3>1. CASE v[1] = "float64"
      <4>1. v = <<"float64", v[2]>>
        BY <3>1 DEF Scalar
      <4>2. x = v
        BY <3>1, BecomesByType0
      <4> QED BY <4>1, <4>2, Zenon
    <3>2. CASE v[1] = "AMF0Number"
      BY <3>2, BecomesByType0
    <3> QED BY <1>7, <3>1, <3>2
  <2>4. v[2] \in Seq(Byte) /\ Number0 \in Byte
    BY <2>1, BitsAre, Markers0
  <2>5. ReadsMarked0(Number0, v[2], <<"float64", v[2]>>)
    BY <2>1, ReadsNumber0
  <2> HIDE DEF f, x
  <2> QED BY <1>6, <2>2, <2>3, <2>4, <2>5
<1>8. CASE v[1] = "int"
  <2>1. Float64[v[2]] \in Bits
    <3>1. v[2] \in DOMAIN Float64
      BY <1>8 DEF Scalar
    <3> QED BY <3>1, FloatAssumption
  <2>2. f = Write(e, <<Number0>> \o Float64[v[2]])
    BY <1>0, <1>8, Zenon DEF WrittenByType0
  <2>3. x = <<"float64", Float64[v[2]]>>
    BY <1>8, BecomesByType0
  <2>4. Float64[v[2]] \in Seq(Byte) /\ Number0 \in Byte
    BY <2>1, BitsAre, Markers0
  <2>5. ReadsMarked0(Number0, Float64[v[2]], <<"float64", Float64[v[2]]>>)
    BY <2>1, ReadsNumber0
  <2> HIDE DEF f, x
  <2> QED BY <1>6, <2>2, <2>3, <2>4, <2>5
<1>9. CASE v[1] \in {"bool", "AMF0Boolean"}
  <2>1. v[2] \in BOOLEAN
    BY <1>9 DEF Scalar
  <2> DEFINE c == <<IF v[2] THEN 1 ELSE 0>>
  <2>2. f = Write(e, <<Boolean0>> \o c)
    <3>1. f = Write(e, <<Boolean0, IF v[2] THEN 1 ELSE 0>>)
      BY <1>0, <1>9, Zenon DEF WrittenByType0
    <3>2. <<Boolean0, IF v[2] THEN 1 ELSE 0>> = <<Boolean0>> \o c
      OBVIOUS
    <3> QED BY <3>1, <3>2, Zenon
  <2>3. x = <<"bool", v[2]>>
    <3>1. CASE v[1] = "bool"
      <4>1. v = <<"bool", v[2]>>
        BY <3>1 DEF Scalar
      <4>2. x = v
        BY <3>1, BecomesByType0
      <4> QED BY <4>1, <4>2, Zenon
    <3>2. CASE v[1] = "AMF0Boolean"
      BY <3>2, BecomesByType0
    <3> QED BY <1>9, <3>1, <3>2
  <2>4. c \in Seq(Byte) /\ Boolean0 \in Byte
    BY Markers0 DEF Byte
  <2>5. ReadsMarked0(Boolean0, c, <<"bool", v[2]>>)
    BY <2>1, ReadsBoolean0
  <2> HIDE DEF f, x, c
  <2> QED BY <1>6, <2>2, <2>3, <2>4, <2>5
<1>10. CASE v[1] \in {"string", "AMF0String", "AMF0LongString"}
  <2>1. v[2] \in GoString
    BY <1>10 DEF Scalar
  <2>2. f = EncodeString0(e, v[2]) \/ f = EncodeLongString(e, v[2])
    BY <1>0, <1>10, Zenon DEF WrittenByType0
  <2>3. x = <<"string", v[2]>>
    <3>1. CASE v[1] = "string"
      <4>1. v = <<"string", v[2]>>
        BY <3>1 DEF Scalar
      <4>2. x = v
        BY <3>1, BecomesByType0
      <4> QED BY <4>1, <4>2, Zenon
    <3>2. CASE v[1] \in {"AMF0String", "AMF0LongString"}
      BY <3>2, BecomesByType0
    <3> QED BY <1>10, <3>1, <3>2
  <2> HIDE DEF f, x
  <2>4. /\ Carries0(e, EncodeString0(e, v[2]), visited, <<"string", v[2]>>)
        /\ Carries0(e, EncodeLongString(e, v[2]), visited, <<"string", v[2]>>)
    BY <1>5, <2>1, StringCarried0
  <2> QED BY <2>2, <2>3, <2>4, Zenon
<1>11. CASE v[1] \in {"nil", "AMF0Null", "AMF0Undefined"}
  <2>1. PICK marker \in {Null0, Undefined0} : f = Write(e, <<marker>>)
    BY <1>0, <1>11, Zenon DEF WrittenByType0
  <2>2. x = <<"nil">>
    <3>1. CASE v[1] = "nil"
      <4>1. v = <<"nil">>
        BY <3>1 DEF Scalar
      <4>2. x = v
        BY <3>1, BecomesByType0
      <4> QED BY <4>1, <4>2, Zenon
    <3>2. CASE v[1] \in {"AMF0Null", "AMF0Undefined"}
      BY <3>2, BecomesByType0
    <3> QED BY <1>11, <3>1, <3>2
  <2>3. marker \in Byte /\ <<marker>> = <<marker>> \o <<>>
    BY <2>1, Markers0
  <2>4. ReadsMarked0(marker, <<>>, <<"nil">>)
    BY <2>1, ReadsNil0
  <2> HIDE DEF f, x
  <2>5. f = Write(e, <<marker>> \o <<>>)
    BY <2>1, <2>3, Zenon
  <2> QED BY <1>2, <1>6, <2>2, <2>3, <2>4, <2>5
<1>12. CASE v[1] = "AMF0Date"
  <2>1. v[2].milliseconds \in Bits /\ v[2].timezone \in [1 .. 2 -> Byte]
    BY <1>12 DEF Scalar
  <2> DEFINE ms == v[2].milliseconds
             zone == v[2].timezone
             c == ms \o zone
  <2>2. c \in Seq(Byte) /\ ReadsMarked0(Date0, c, <<"time", TimeFrom0(ms)>>)
    BY <2>1, ReadsDate0
  <2>3. f = Write(e, <<Date0>> \o c)
    <3> DEFINE m == <<Date0>>
    <3>1. m \in Seq(Byte) /\ ms \in Seq(Byte) /\ zone \in Seq(Byte)
      BY <2>1, BitsAre, ZoneIs, Markers0
    <3>2. f = Write(e, (m \o ms) \o zone)
      BY <1>0, <1>12, Zenon DEF WrittenByType0
    <3> HIDE DEF m, ms, zone, f
    <3>3. Join3(m, ms, zone)
      BY <3>1, JoinThree
    <3>4. (m \o ms) \o zone = m \o (ms \o zone)
      BY <3>3, Zenon DEF Join3
    <3> QED BY <3>2, <3>4, Zenon DEF m, ms, zone
  <2>4. x = <<"time", TimeFrom0(ms)>>
    BY <1>12, BecomesByType0
  <2>5. Date0 \in Byte
    BY Markers0
  <2> HIDE DEF f, x, c, ms
  <2> QED BY <1>6, <2>2, <2>3, <2>4, <2>5
<1>13. v[1] \in {"float64", "AMF0Number", "int", "bool", "AMF0Boolean", "string", "AMF0String",
                 "AMF0LongString", "nil", "AMF0Null", "AMF0Undefined", "AMF0Date"}
  BY <1>4 DEF Scalar, Tags0, GoTags
<1> HIDE DEF f, x
<1> QED BY <1>7, <1>8, <1>9, <1>10, <1>11, <1>12, <1>13, Zenon

-----------------------------------------------------------------------------
(* AMF0: arrays and objects, and so every value.                           *)

\* The value of a key is that of the last pair that has it.
LEMMA LastOfKey ==
    ASSUME NEW s, NEW k, NEW i \in DOMAIN s, DOMAIN s \subseteq Nat, s[i][1] = k,
           \A j \in DOMAIN s : s[j][1] = k => j <= i
    PROVE  k \in DOMAIN MapOf(s) /\ MapOf(s)[k] = s[i][2]
<1> DEFINE LastWith(n) == n \in DOMAIN s /\ s[n][1] = k /\ \A j \in DOMAIN s : s[j][1] = k => j <= n
           last == CHOOSE n \in DOMAIN s : s[n][1] = k /\ \A j \in DOMAIN s : s[j][1] = k => j <= n
<1>1. LastWith(i)
  OBVIOUS
<1>2. last \in DOMAIN s /\ s[last][1] = k /\ \A j \in DOMAIN s : s[j][1] = k => j <= last
  BY <1>1, Zenon
<1>3. last <= i /\ i <= last
  <2> HIDE DEF last
  <2> QED BY <1>1, <1>2
<1>4. last = i
  <2> HIDE DEF last
  <2>1. last \in Nat /\ i \in Nat
    BY <1>2
  <2> QED BY <1>3, <2>1
<1>5. k \in {s[n][1] : n \in DOMAIN s}
  OBVIOUS
<1>6. k \in DOMAIN MapOf(s) /\ MapOf(s)[k] = s[last][2]
  BY <1>5, Zenon DEF MapOf
<1> QED BY <1>4, <1>6, Zenon

\* It is a function.
LEMMA MapIsFunction ==
    ASSUME NEW s
    PROVE  MapOf(s) = [k \in DOMAIN MapOf(s) |-> MapOf(s)[k]]
<1> DEFINE S == {s[i][1] : i \in DOMAIN s}
           e(k) == LET last == CHOOSE i \in DOMAIN s :
                           s[i][1] = k /\ \A j \in DOMAIN s : s[j][1] = k => j <= i
                   IN  s[last][2]
           f == [k \in S |-> e(k)]
<1>1. MapOf(s) = f
  BY Zenon DEF MapOf
<1>2. f = [k \in DOMAIN f |-> f[k]]
  <2> HIDE DEF S, e
  <2> QED OBVIOUS
<1> HIDE DEF f
<1> QED BY <1>1, <1>2, Zenon

\* If some pair has a key, one is the last.
LEMMA SomeLast ==
    ASSUME NEW s, NEW n \in Nat, DOMAIN s = 1 .. n, NEW i \in 1 .. n
    PROVE  \E l \in 1 .. n : s[l][1] = s[i][1] /\ \A j \in 1 .. n : s[j][1] = s[i][1] => j <= l
<1> DEFINE T == {m \in Nat : m <= n /\ n - m \in 1 .. n /\ s[n - m][1] = s[i][1]}
<1>1. n - i \in T
  <2>1. n - i \in Nat /\ n - i <= n /\ n - (n - i) = i
    OBVIOUS
  <2> QED BY <2>1
<1>2. PICK m \in T : \A k \in T : m <= k
  <2> HIDE DEF T
  <2>1. T \subseteq Nat
    BY DEF T
  <2> QED BY <1>1, <2>1, LeastNatural
<1>3. n - m \in 1 .. n /\ s[n - m][1] = s[i][1] /\ m \in Nat
  BY <1>2
<1>4. ASSUME NEW j \in 1 .. n, s[j][1] = s[i][1] PROVE j <= n - m
  <2>1. n - j \in Nat /\ n - j <= n /\ n - (n - j) = j
    OBVIOUS
  <2>2. n - j \in T
    BY <1>4, <2>1
  <2>3. m <= n - j
    <3> HIDE DEF T
    <3> QED BY <1>2, <2>2
  <2> QED BY <1>3, <2>3
<1> QED BY <1>3, <1>4

\* What MapOf gives for a key is the value in the last pair that has the key.
LEMMA ValueOfKey ==
    ASSUME NEW s, NEW n \in Nat, DOMAIN s = 1 .. n, NEW k, NEW i \in 1 .. n, s[i][1] = k
    PROVE  \E l \in 1 .. n : /\ s[l][1] = k /\ \A j \in 1 .. n : s[j][1] = k => j <= l
                             /\ MapOf(s)[k] = s[l][2]
<1>1. PICK l \in 1 .. n : s[l][1] = k /\ \A j \in 1 .. n : s[j][1] = k => j <= l
  <2>1. \E l \in 1 .. n : s[l][1] = s[i][1] /\ \A j \in 1 .. n : s[j][1] = s[i][1] => j <= l
    BY SomeLast, ZenonT(60)
  <2> QED BY <2>1
<1>2. l \in DOMAIN s /\ DOMAIN s \subseteq Nat /\ \A j \in DOMAIN s : s[j][1] = k => j <= l
  BY <1>1
<1>3. MapOf(s)[k] = s[l][2]
  BY <1>1, <1>2, LastOfKey
<1> QED BY <1>1, <1>3

\* A function that is a sequence of n.
OfLength(s, n) == s = [i \in 1 .. n |-> s[i]]

\* The class as a first pair is what WithClass adds.
LEMMA ClassFirst ==
    ASSUME NEW s, NEW n \in Nat, OfLength(s, n), NEW c
    PROVE  MapOf(<<<<ClassNameKey, c>>>> \o s)
             = IF ClassNameKey \in DOMAIN MapOf(s) THEN MapOf(s)
               ELSE WithProperty(MapOf(s), ClassNameKey, c)
<1> DEFINE first == <<ClassNameKey, c>>
           q == <<first>> \o s
           f == MapOf(q)
           h == MapOf(s)
           g == IF ClassNameKey \in DOMAIN h THEN h ELSE WithProperty(h, ClassNameKey, c)
<1>1. DOMAIN s = 1 .. n /\ Len(s) = n /\ s \in Seq({s[i] : i \in 1 .. n})
  <2>0. s = [i \in 1 .. n |-> s[i]]
    BY DEF OfLength
  <2>1. \A i \in 1 .. n : s[i] \in {s[j] : j \in 1 .. n}
    OBVIOUS
  <2>2. s \in Seq({s[i] : i \in 1 .. n})
    <3> DEFINE S == {s[j] : j \in 1 .. n}
    <3> HIDE DEF S
    <3>1. [i \in 1 .. n |-> s[i]] \in Seq(S)
      BY <2>1, IsASeq DEF S
    <3> QED BY <2>0, <3>1 DEF S
  <2> QED BY <2>0, <2>2
<1>2. /\ DOMAIN q = 1 .. n + 1 /\ q[1] = first
      /\ \A i \in 1 .. n : q[i + 1] = s[i]
  <2> HIDE DEF first
  <2>1. <<first>> \in Seq({first}) /\ Len(<<first>>) = 1 /\ <<first>>[1] = first
    OBVIOUS
  <2> QED BY <1>1, <2>1
<1>3. first[1] = ClassNameKey /\ first[2] = c
  OBVIOUS
<1> HIDE DEF first, q
<1>4. DOMAIN h = {s[i][1] : i \in 1 .. n}
  BY <1>1 DEF MapOf
<1>5. DOMAIN f = {q[i][1] : i \in 1 .. n + 1}
  BY <1>2 DEF MapOf
<1>6. DOMAIN f = DOMAIN h \cup {ClassNameKey}
  <2>1. ASSUME NEW k \in DOMAIN f PROVE k \in DOMAIN h \cup {ClassNameKey}
    <3>1. PICK i \in 1 .. n + 1 : k = q[i][1]
      BY <1>5, <2>1
    <3>2. CASE i = 1
      BY <1>2, <1>3, <3>1, <3>2
    <3>3. CASE i # 1
      <4>1. i - 1 \in 1 .. n /\ (i - 1) + 1 = i
        BY <3>3
      <4> QED BY <1>2, <1>4, <3>1, <4>1, ZenonT(60)
    <3> QED BY <3>2, <3>3
  <2>2. ASSUME NEW k \in DOMAIN h PROVE k \in DOMAIN f
    <3>1. PICK i \in 1 .. n : k = s[i][1]
      BY <1>4, <2>2
    <3>2. i + 1 \in 1 .. n + 1
      OBVIOUS
    <3> QED BY <1>2, <1>5, <3>1, <3>2
  <2>3. ClassNameKey \in DOMAIN f
    <3>1. 1 \in 1 .. n + 1
      OBVIOUS
    <3> QED BY <1>2, <1>3, <1>5, <3>1
  <2> HIDE DEF f, h
  <2> QED BY <2>1, <2>2, <2>3
<1>7. DOMAIN q \subseteq Nat /\ DOMAIN s \subseteq Nat
  BY <1>1, <1>2
<1>8. ASSUME NEW k \in DOMAIN h PROVE f[k] = h[k]
  <2>1. PICK i \in 1 .. n : k = s[i][1]
    BY <1>4, <1>8
  <2>2. PICK l \in 1 .. n : /\ s[l][1] = k /\ \A j \in 1 .. n : s[j][1] = k => j <= l
                            /\ MapOf(s)[k] = s[l][2]
    <3>1. DOMAIN s = 1 .. n /\ s[i][1] = k
      BY <1>1, <2>1
    <3> HIDE DEF h, f
    <3> QED BY <2>1, <3>1, ValueOfKey, SMTT(40)
  <2>3. h[k] = s[l][2]
    BY <2>2
  <2>4. l + 1 \in DOMAIN q /\ q[l + 1] = s[l]
    BY <1>2
  <2>5. ASSUME NEW j \in DOMAIN q, q[j][1] = k PROVE j <= l + 1
    <3>1. CASE j = 1
      BY <3>1
    <3>2. CASE j # 1
      <4>1. j - 1 \in 1 .. n /\ (j - 1) + 1 = j
        BY <1>2, <3>2
      <4>2. s[j - 1][1] = k
        BY <1>2, <2>5, <4>1
      <4>3. j - 1 <= l
        BY <2>2, <4>1, <4>2
      <4> QED BY <4>1, <4>3
    <3> QED BY <3>1, <3>2
  <2>6. f[k] = q[l + 1][2]
    <3> DEFINE m == l + 1
    <3>1. m \in DOMAIN q /\ q[m][1] = k /\ \A j \in DOMAIN q : q[j][1] = k => j <= m
      BY <2>2, <2>4, <2>5
    <3> HIDE DEF m
    <3>2. MapOf(q)[k] = q[m][2]
      BY <1>7, <3>1, LastOfKey
    <3> QED BY <3>2 DEF m
  <2> HIDE DEF f, h
  <2> QED BY <2>3, <2>4, <2>6
<1>9. ASSUME ClassNameKey \notin DOMAIN h PROVE f[ClassNameKey] = c
  <2>1. ASSUME NEW j \in DOMAIN q, q[j][1] = ClassNameKey PROVE j <= 1
    <3>1. CASE j # 1
      <4>1. j - 1 \in 1 .. n /\ (j - 1) + 1 = j
        BY <1>2, <3>1
      <4>2. s[j - 1][1] = ClassNameKey
        BY <1>2, <2>1, <4>1
      <4> QED BY <1>4, <1>9, <4>1, <4>2
    <3> QED BY <1>2, <3>1
  <2>2. 1 \in DOMAIN q /\ q[1][1] = ClassNameKey /\ q[1][2] = c
    BY <1>2, <1>3
  <2>3. MapOf(q)[ClassNameKey] = q[1][2]
    BY <1>7, <2>1, <2>2, LastOfKey
  <2> QED BY <2>2, <2>3
<1>10. f = [k \in DOMAIN f |-> f[k]] /\ h = [k \in DOMAIN h |-> h[k]]
  BY MapIsFunction, Zenon
<1> HIDE DEF f, h
<1>11. CASE ClassNameKey \in DOMAIN h
  <2>1. DOMAIN f = DOMAIN h
    BY <1>6, <1>11
  <2>2. f = h
    BY <1>8, <1>10, <2>1
  <2> QED BY <1>11, <2>2 DEF f, h, q, first
<1>12. CASE ClassNameKey \notin DOMAIN h
  <2> DEFINE w == WithProperty(h, ClassNameKey, c)
  <2>1. DOMAIN w = DOMAIN f /\ w = [k \in DOMAIN w |-> w[k]]
    BY <1>6 DEF WithProperty
  <2>2. ASSUME NEW k \in DOMAIN f PROVE w[k] = f[k]
    BY <1>6, <1>8, <1>9, <1>12 DEF WithProperty
  <2>3. f = w
    <3> HIDE DEF w
    <3> QED BY <1>10, <2>1, <2>2
  <2> QED BY <1>12, <2>3 DEF f, h, q, first
<1> QED BY <1>11, <1>12

\* Two times writing is writing both.
LEMMA WriteTwice ==
    ASSUME NEW e \in Encoder0, NEW a \in Seq(Byte), NEW b \in Seq(Byte)
    PROVE  Write(Write(e, a), b) = Write(e, a \o b)
<1> DEFINE o == e.out
<1>1. o \in Seq(Byte)
  BY DEF Encoder0
<1> HIDE DEF o
<1>2. Join3(o, a, b)
  BY <1>1, JoinThree
<1>3. (o \o a) \o b = o \o (a \o b) /\ o \o a \in Seq(Byte)
  BY <1>2, Zenon DEF Join3
<1> DEFINE y == o \o a
           z == a \o b
           f == Write(e, a)
<1>4. f = [e EXCEPT !.out = y] /\ Write(e, z) = [e EXCEPT !.out = y \o b]
  BY <1>3, Zenon DEF Write, o
<1>5. f.out = y
  <2> HIDE DEF y, f
  <2> QED BY <1>4 DEF Encoder0
<1>6. Write(f, b) = [f EXCEPT !.out = y \o b]
  <2> HIDE DEF f, y
  <2> QED BY <1>5, Zenon DEF Write
<1> DEFINE t == y \o b
<1> HIDE DEF y, z, t, f
<1>7. [[e EXCEPT !.out = y] EXCEPT !.out = t] = [e EXCEPT !.out = t]
  BY DEF Encoder0
<1> QED BY <1>4, <1>6, <1>7, Zenon DEF z, t, f

\* A header was written, and something after it.
LEMMA After0 ==
    ASSUME NEW e \in Encoder0, NEW marker \in Byte, NEW a \in Seq(Byte), NEW f \in Encoder0,
           NEW b \in Seq(Byte), f.out = Write(e, <<marker>> \o a).out \o b,
           NEW visited, f.ok <=> e.ok /\ AllIn(visited, Fit0), NEW x,
           f.ok /\ AllIn(visited, Named) => ReadsMarked0(marker, a \o b, x)
    PROVE  Carries0(e, f, visited, x)
<1> DEFINE m == <<marker>>
           o == e.out
<1>1. m \in Seq(Byte) /\ o \in Seq(Byte)
  BY DEF Encoder0
<1> HIDE DEF m, o
<1>2. Join3(m, a, b) /\ Join2(m, a)
  BY <1>1, JoinThree, JoinTwo
<1> DEFINE ma == m \o a
           ab == a \o b
<1>3. ma \in Seq(Byte) /\ ab \in Seq(Byte) /\ ma \o b = m \o ab
  <2>1. Join2(a, b)
    BY <1>1, JoinTwo
  <2> QED BY <1>2, <2>1, Zenon DEF Join3, Join2
<1>4. Write(e, ma).out = o \o ma
  <2> HIDE DEF ma
  <2> QED BY <1>3, WriteHas0 DEF o
<1> HIDE DEF ma, ab
<1>5. Join3(o, ma, b)
  BY <1>1, <1>3, JoinThree
<1>6. (o \o ma) \o b = o \o (ma \o b)
  BY <1>5, Zenon DEF Join3
<1>7. f.out = Write(e, ma).out \o b
  BY Zenon DEF ma, m
<1>8. f.out = o \o (m \o ab)
  BY <1>3, <1>4, <1>6, <1>7, Zenon
<1>9. m \o ab \in Seq(Byte)
  <2>1. Join2(m, ab)
    BY <1>1, <1>3, JoinTwo
  <2> QED BY <2>1, Zenon DEF Join2
<1>10. ASSUME f.ok, AllIn(visited, Named) PROVE Reads0(m \o ab, x)
  <2>1. ReadsMarked0(marker, ab, x)
    BY <1>10, Zenon DEF ab
  <2>2. Reads0(<<marker>> \o ab, x)
    BY <1>3, <2>1, ReadsWithMarker0
  <2> QED BY <2>2 DEF m
<1> DEFINE c == m \o ab
<1> HIDE DEF c
<1>11. c \in Seq(Byte) /\ f.out = e.out \o c /\ (f.ok /\ AllIn(visited, Named) => Reads0(c, x))
  BY <1>8, <1>9, <1>10, Zenon DEF c, o
<1> QED BY <1>11, Zenon DEF Carries0

\* Pairs that were written, joined to nothing, and as a map.
LEMMA PairsAre ==
    ASSUME NEW V, NEW pairs \in List(V), NEW bec
    PROVE  /\ OfLength(Pairs(bec, pairs), Len(pairs)) /\ Len(pairs) \in Nat
           /\ MapOf(<<>> \o Pairs(bec, pairs)) = PairsBecome(bec, pairs)
           /\ MapOf(Pairs(bec, pairs)) = PairsBecome(bec, pairs)
<1> DEFINE n == Len(pairs)
           s == Pairs(bec, pairs)
<1>1. n \in Nat /\ DOMAIN pairs = 1 .. n
  BY ListHas
<1>2. s = [i \in 1 .. n |-> <<pairs[i][1], bec[pairs[i][2]]>>]
  BY <1>1, Zenon DEF Pairs
<1> HIDE DEF n
<1>3. OfLength(s, n)
  <2> DEFINE e(i) == <<pairs[i][1], bec[pairs[i][2]]>>
  <2>1. s = [i \in 1 .. n |-> e(i)]
    BY <1>2
  <2> HIDE DEF e, s
  <2>2. s = [i \in 1 .. n |-> s[i]]
    BY <2>1
  <2> QED BY <2>2, Zenon DEF OfLength
<1>4. MapOf(s) = PairsBecome(bec, pairs)
  BY Zenon DEF PairsBecome, Pairs
<1>5. <<>> \o s = s
  <2>0. s = [i \in 1 .. n |-> s[i]]
    BY <1>3, Zenon DEF OfLength
  <2> DEFINE S == {s[j] : j \in 1 .. n}
  <2>1. \A i \in 1 .. n : s[i] \in S
    OBVIOUS
  <2> HIDE DEF S, s
  <2>2. [i \in 1 .. n |-> s[i]] \in Seq(S)
    BY <1>1, <2>1, IsASeq DEF n
  <2>3. s \in Seq(S)
    BY <2>0, <2>2, Zenon
  <2> QED BY <2>3
<1> HIDE DEF s
<1> QED BY <1>1, <1>3, <1>4, <1>5, Zenon DEF s, n

\* Visited in a container: itself, and what is visited in what it contains.
LEMMA ContainerHas ==
    ASSUME NEW W, NEW v \in Container(W), v \in AnyValue, NEW vis, \A w \in W : vis[w] \in Seq(AnyValue)
    PROVE  /\ AllIn(VisitBy(vis, v), Fit0) <=>
                /\ Encodable0(v)
                /\ \A i \in DOMAIN PairsOf(v) : AllIn(vis[PairsOf(v)[i][2]], Fit0)
                /\ \A i \in DOMAIN ElementsOf(v) : AllIn(vis[ElementsOf(v)[i]], Fit0)
           /\ AllIn(VisitBy(vis, v), Named) <=>
                /\ <<>> \notin Keys(v)
                /\ \A i \in DOMAIN PairsOf(v) : AllIn(vis[PairsOf(v)[i][2]], Named)
                /\ \A i \in DOMAIN ElementsOf(v) : AllIn(vis[ElementsOf(v)[i]], Named)
<1>1. PairsOf(v) \in List(GoString \X W) /\ ElementsOf(v) \in List(W)
  BY Contents
<1>2. \A T : AllIn(VisitBy(vis, v), T) <=>
                       /\ v \in T
                       /\ \A i \in DOMAIN PairsOf(v) : AllIn(vis[PairsOf(v)[i][2]], T)
                       /\ \A i \in DOMAIN ElementsOf(v) : AllIn(vis[ElementsOf(v)[i]], T)
  BY <1>1, VisitByHas
<1>3. v \in Fit0 <=> Encodable0(v)
  BY DEF Fit0
<1>4. v \in Named <=> <<>> \notin Keys(v)
  BY DEF Named
<1> QED BY <1>2, <1>3, <1>4, Zenon

\* Pairs are written after a header, and read as x.
LEMMA PropertiesCarried0 ==
    ASSUME NEW W, NEW enc, NEW vis, NEW bec, Codec0(W, enc, vis, bec),
           \A w \in W : vis[w] \in Seq(AnyValue),
           NEW v \in Container(W), v \in AnyValue, ElementsOf(v) = <<>>,
           Encodable0(v) <=> \A k \in Keys(v) : Len(k) <= MaxShort,
           NEW e \in Encoder0, NEW marker \in Byte, NEW a \in Seq(Byte), NEW x,
           \A c \in Seq(Byte) :
             ReadsPairs0(c, Pairs(bec, PairsOf(v))) => ReadsMarked0(marker, a \o c, x)
    PROVE  Carries0(e, EncodePairs0(enc, Write(e, <<marker>> \o a), PairsOf(v)), VisitBy(vis, v), x)
<1> DEFINE pairs == PairsOf(v)
           visited == VisitBy(vis, v)
           g == Write(e, <<marker>> \o a)
           f == EncodePairs0(enc, g, pairs)
<1>1. pairs \in List(GoString \X W)
  BY Contents
<1>2. g \in Encoder0 /\ g.ok = e.ok
  <2> DEFINE m == <<marker>>
  <2>1. m \in Seq(Byte)
    OBVIOUS
  <2> HIDE DEF m
  <2>2. Join2(m, a)
    BY <2>1, JoinTwo
  <2> DEFINE c == m \o a
  <2>3. c \in Seq(Byte)
    BY <2>2, Zenon DEF Join2
  <2> HIDE DEF c
  <2>4. Write(e, c) \in Encoder0 /\ Write(e, c).ok = e.ok
    BY <2>3, WriteHas0
  <2> QED BY <2>4, Zenon DEF c, m
<1> HIDE DEF g
<1>3. PairsCarry0(g, f, pairs, vis, bec)
  <2> HIDE DEF pairs
  <2> QED BY <1>1, <1>2, PairsCarried0
<1>4. /\ f \in Encoder0
      /\ f.ok <=> /\ g.ok
                  /\ \A i \in DOMAIN pairs : Len(pairs[i][1]) <= MaxShort /\ AllIn(vis[pairs[i][2]], Fit0)
  BY <1>3, Zenon DEF PairsCarry0
<1>5. PICK b \in Seq(Byte) :
       /\ f.out = g.out \o b
       /\ f.ok /\ (\A i \in DOMAIN pairs : pairs[i][1] # <<>> /\ AllIn(vis[pairs[i][2]], Named))
            => ReadsPairs0(b, Pairs(bec, pairs))
  BY <1>3, Zenon DEF PairsCarry0
<1>6. DOMAIN ElementsOf(v) = {}
  OBVIOUS
<1>7. Keys(v) = {pairs[i][1] : i \in DOMAIN pairs}
  BY Zenon DEF Keys
<1>8. /\ AllIn(visited, Fit0) <=>
                /\ Encodable0(v)
                /\ \A i \in DOMAIN pairs : AllIn(vis[pairs[i][2]], Fit0)
                /\ \A i \in DOMAIN ElementsOf(v) : AllIn(vis[ElementsOf(v)[i]], Fit0)
      /\ AllIn(visited, Named) <=>
                /\ <<>> \notin Keys(v)
                /\ \A i \in DOMAIN pairs : AllIn(vis[pairs[i][2]], Named)
                /\ \A i \in DOMAIN ElementsOf(v) : AllIn(vis[ElementsOf(v)[i]], Named)
  BY ContainerHas
<1> HIDE DEF visited, f, pairs
<1>9. AllIn(visited, Fit0) <=>
        \A i \in DOMAIN pairs : Len(pairs[i][1]) <= MaxShort /\ AllIn(vis[pairs[i][2]], Fit0)
  <2>1. Encodable0(v) <=> \A i \in DOMAIN pairs : Len(pairs[i][1]) <= MaxShort
    <3> HIDE DEF pairs
    <3> QED BY <1>7, Zenon
  <2> QED BY <1>6, <1>8, <2>1, Zenon
<1>10. AllIn(visited, Named) =>
         \A i \in DOMAIN pairs : pairs[i][1] # <<>> /\ AllIn(vis[pairs[i][2]], Named)
  BY <1>7, <1>8
<1>11. f.ok <=> e.ok /\ AllIn(visited, Fit0)
  BY <1>2, <1>4, <1>9, Zenon
<1>12. f.ok /\ AllIn(visited, Named) => ReadsMarked0(marker, a \o b, x)
  BY <1>5, <1>10, Zenon DEF pairs
<1>13. f.out = Write(e, <<marker>> \o a).out \o b
  BY <1>5, Zenon DEF g
<1>14. Carries0(e, f, visited, x)
  BY <1>4, <1>11, <1>12, <1>13, After0
<1> QED BY <1>14, Zenon DEF f, visited, pairs, g

\* So are the elements of an array.
LEMMA ArrayCarried0 ==
    ASSUME NEW W, NEW enc, NEW vis, NEW bec, Codec0(W, enc, vis, bec),
           \A w \in W : vis[w] \in Seq(AnyValue),
           NEW v \in Container(W), v \in AnyValue, v[1] \in {"slice", "AMF0StrictArray"},
           NEW e \in Encoder0
    PROVE  Carries0(e, EncodeStrictArray(enc, e, v[2]), VisitBy(vis, v),
                    <<"slice", EachBecomes(bec, v[2])>>)
<1> DEFINE values == ElementsOf(v)
           visited == VisitBy(vis, v)
           k == Len(values)
           a == UInt32(k)
           g == Write(e, <<StrictArray0>> \o a)
           f == InTurn([i \in DOMAIN values |-> enc[values[i]]], g)
           xs == EachBecomes(bec, values)
           x == <<"slice", xs>>
<1>0. values = v[2] /\ PairsOf(v) = <<>>
  BY DEF ElementsOf, PairsOf
<1>1. values \in List(W)
  BY Contents
<1>a. k \in Nat /\ k < TwoTo24
  <2> HIDE DEF values
  <2> QED BY <1>1, ListHas
<1>b. a \in Seq(Byte) /\ StrictArray0 \in Byte
  BY <1>a, UInt32Type, Markers0
<1>c. EncodeStrictArray(enc, e, v[2]) = f
  BY <1>0, Zenon DEF EncodeStrictArray
<1> HIDE DEF a
<1>2. g \in Encoder0 /\ g.ok = e.ok
  <2> DEFINE m == <<StrictArray0>>
  <2>1. m \in Seq(Byte)
    BY <1>b
  <2> HIDE DEF m
  <2>2. Join2(m, a)
    BY <1>b, <2>1, JoinTwo
  <2> DEFINE c == m \o a
  <2>3. c \in Seq(Byte)
    BY <2>2, Zenon DEF Join2
  <2> HIDE DEF c
  <2>4. Write(e, c) \in Encoder0 /\ Write(e, c).ok = e.ok
    BY <2>3, WriteHas0
  <2> QED BY <2>4, Zenon DEF c, m
<1> HIDE DEF g
<1>3. ElementsCarry0(g, f, values, vis, bec)
  <2> HIDE DEF values
  <2> QED BY <1>1, <1>2, ElementsCarried0
<1>4. /\ f \in Encoder0
      /\ f.ok <=> g.ok /\ \A i \in DOMAIN values : AllIn(vis[values[i]], Fit0)
  BY <1>3, Zenon DEF ElementsCarry0
<1>5. PICK b \in Seq(Byte) :
       /\ f.out = g.out \o b
       /\ f.ok /\ (\A i \in DOMAIN values : AllIn(vis[values[i]], Named))
            => ReadsElements0(b, k, xs)
  BY <1>3, Zenon DEF ElementsCarry0
<1>6. Encodable0(v) /\ Keys(v) = {} /\ DOMAIN PairsOf(v) = {}
  <2>1. Keys(v) = {} /\ DOMAIN PairsOf(v) = {}
    BY <1>0 DEF Keys
  <2> QED BY <2>1 DEF Encodable0, Tags0, GoTags
<1>8. /\ AllIn(visited, Fit0) <=>
                /\ Encodable0(v)
                /\ \A i \in DOMAIN PairsOf(v) : AllIn(vis[PairsOf(v)[i][2]], Fit0)
                /\ \A i \in DOMAIN values : AllIn(vis[values[i]], Fit0)
      /\ AllIn(visited, Named) <=>
                /\ <<>> \notin Keys(v)
                /\ \A i \in DOMAIN PairsOf(v) : AllIn(vis[PairsOf(v)[i][2]], Named)
                /\ \A i \in DOMAIN values : AllIn(vis[values[i]], Named)
  BY ContainerHas
<1> HIDE DEF visited, f, values, xs
<1>11. f.ok <=> e.ok /\ AllIn(visited, Fit0)
  BY <1>2, <1>4, <1>6, <1>8
<1>12. f.ok /\ AllIn(visited, Named) => ReadsMarked0(StrictArray0, a \o b, x)
  <2> SUFFICES ASSUME f.ok, AllIn(visited, Named) PROVE ReadsMarked0(StrictArray0, a \o b, x)
    OBVIOUS
  <2>1. ReadsElements0(b, k, xs)
    BY <1>5, <1>6, <1>8, Zenon
  <2> HIDE DEF k
  <2>2. ReadsMarked0(StrictArray0, UInt32(k) \o b, <<"slice", xs>>)
    BY <1>a, <1>5, <2>1, ReadsStrictArray0
  <2> QED BY <2>2 DEF a
<1>13. f.out = Write(e, <<StrictArray0>> \o a).out \o b
  BY <1>5, Zenon DEF g
<1> HIDE DEF x, k
<1>14. Carries0(e, f, visited, x)
  BY <1>b, <1>4, <1>5, <1>11, <1>12, <1>13, After0
<1>15. x = <<"slice", EachBecomes(bec, v[2])>>
  BY <1>0, Zenon DEF x, xs
<1> HIDE DEF f
<1> QED BY <1>c, <1>14, <1>15, Zenon DEF visited

\* A class name that is too long.
LEMMA LongClassCarried0 ==
    ASSUME NEW W, NEW enc, NEW vis, NEW bec, Codec0(W, enc, vis, bec),
           NEW v, ~AllIn(VisitBy(vis, v), Fit0), NEW pairs \in List(GoString \X W),
           NEW e \in Encoder0, NEW class \in Seq(Byte), ~(Len(class) <= MaxShort), NEW x
    PROVE  Carries0(e, EncodePairs0(enc, WriteShort(Write(e, <<TypedObject0>>), class), pairs),
                    VisitBy(vis, v), x)
<1> DEFINE visited == VisitBy(vis, v)
           m == <<TypedObject0>>
           a == <<>>
           w == Write(e, m)
           g == WriteShort(w, class)
           f == EncodePairs0(enc, g, pairs)
<1>0. m \in Seq(Byte) /\ a \in Seq(Byte) /\ m \o a = m /\ TypedObject0 \in Byte
  BY Markers0
<1> HIDE DEF m, a
<1>1. w \in Encoder0 /\ w.out = e.out \o m
  BY <1>0, WriteHas0
<1> HIDE DEF w
<1>2. g \in Encoder0 /\ ~g.ok /\ g.out = w.out
  BY <1>1, WriteShortHas
<1> HIDE DEF g
<1>3. PairsCarry0(g, f, pairs, vis, bec)
  BY <1>2, PairsCarried0
<1>4. f \in Encoder0 /\ ~f.ok
  BY <1>2, <1>3, Zenon DEF PairsCarry0
<1>5. PICK b \in Seq(Byte) : f.out = g.out \o b
  BY <1>3, Zenon DEF PairsCarry0
<1> HIDE DEF f, visited
<1>6. f.out = Write(e, <<TypedObject0>> \o a).out \o b
  <2>1. Write(e, m \o a) = w
    BY <1>0, Zenon DEF w
  <2> QED BY <1>2, <1>5, <2>1, Zenon DEF m
<1>7. ~AllIn(visited, Fit0)
  BY DEF visited
<1>8. f.ok <=> e.ok /\ AllIn(visited, Fit0)
  BY <1>4, <1>7, Zenon
<1>9. f.ok /\ AllIn(visited, Named) => ReadsMarked0(TypedObject0, a \o b, x)
  BY <1>4, Zenon
<1>10. Carries0(e, f, visited, x)
  BY <1>0, <1>4, <1>5, <1>6, <1>8, <1>9, After0
<1> QED BY <1>10, Zenon DEF visited, f, g, w, m

\* A container whose values are carried is carried.
LEMMA ContainerCarried0 ==
    ASSUME NEW W, NEW enc, NEW vis, NEW bec, Codec0(W, enc, vis, bec),
           \A w \in W : vis[w] \in Seq(AnyValue),
           NEW v \in Container(W), v \in AnyValue, NEW e \in Encoder0
    PROVE  Carries0(e, EncodeByType0(enc, e, v), VisitBy(vis, v), ByType0(bec, v))
<1> DEFINE visited == VisitBy(vis, v)
           f == EncodeByType0(enc, e, v)
           x == ByType0(bec, v)
<1>0. WrittenByType0(enc, e, v)
  BY EncodedByType0
<1>1. PairsOf(v) \in List(GoString \X W)
  BY Contents
<1>2. v[1] \in {"slice", "AMF0StrictArray", "map", "AMF0Object", "AMF3Object", "AMF3Array",
                "AMF0EcmaArray", "AMF0TypedObject"}
  BY DEF Container
<1>3. CASE v[1] \in {"AMF3Object", "AMF3Array"}
  <2>1. v[1] \notin Tags0
    BY <1>3 DEF Tags0, GoTags
  <2>2. f = Unsupported(e)
    BY <1>0, <2>1, Zenon DEF WrittenByType0
  <2>3. ~Encodable0(v)
    BY <2>1 DEF Encodable0
  <2>4. AllIn(visited, Fit0) => Encodable0(v)
    BY ContainerHas
  <2> HIDE DEF f, x, visited
  <2>5. Carries0(e, Unsupported(e), visited, x)
    BY <2>3, <2>4, Refused0
  <2> QED BY <2>2, <2>5, Zenon DEF visited, f, x
<1>4. CASE v[1] \in {"slice", "AMF0StrictArray"}
  <2>1. f = EncodeStrictArray(enc, e, v[2])
    BY <1>0, <1>4, Zenon DEF WrittenByType0
  <2>2. x = <<"slice", EachBecomes(bec, v[2])>>
    BY <1>4, BecomesByType0
  <2>3. Carries0(e, EncodeStrictArray(enc, e, v[2]), VisitBy(vis, v), <<"slice", EachBecomes(bec, v[2])>>)
    BY <1>4, ArrayCarried0
  <2> HIDE DEF f, x
  <2> QED BY <2>1, <2>2, <2>3, Zenon DEF f, x
<1>5. SUFFICES ASSUME v[1] \in {"map", "AMF0Object", "AMF0EcmaArray", "AMF0TypedObject"}
               PROVE  Carries0(e, f, visited, x)
  BY <1>2, <1>3, <1>4, Zenon
<1>6. ElementsOf(v) = <<>>
  BY <1>5 DEF ElementsOf
<1>7. /\ v[1] \in {"map", "AMF0Object"} =>
           (Encodable0(v) <=> \A k \in Keys(v) : Len(k) <= MaxShort)
      /\ v[1] = "AMF0EcmaArray" =>
           (Encodable0(v) <=> /\ \A k \in Keys(v) : Len(k) <= MaxShort
                              /\ OfAMF0Types(v[2].properties))
  BY <1>5, Zenon DEF Encodable0, Tags0, GoTags
<1> DEFINE ps == Pairs(bec, PairsOf(v))
<1>8. /\ MapOf(<<>> \o ps) = PairsBecome(bec, PairsOf(v))
      /\ MapOf(ps) = PairsBecome(bec, PairsOf(v))
      /\ OfLength(ps, Len(PairsOf(v))) /\ Len(PairsOf(v)) \in Nat
  BY <1>1, PairsAre
<1>9. {Object0, EcmaArray0, TypedObject0} \subseteq Byte
  BY Markers0
<1> HIDE DEF ps
<1>10. CASE v[1] \in {"map", "AMF0Object"}
  <2>1. PairsOf(v) = v[2]
    BY <1>10 DEF PairsOf
  <2> DEFINE a == <<>>
             m == <<Object0>>
             y == <<"map", MapOf(<<>> \o ps)>>
  <2>2. m \o a = m /\ a \in Seq(Byte) /\ \A c \in Seq(Byte) : a \o c = c
    BY <1>9
  <2>3. f = EncodePairs0(enc, Write(e, m), v[2])
    BY <1>0, <1>10, Zenon DEF WrittenByType0
  <2>4. x = <<"map", PairsBecome(bec, v[2])>>
    BY <1>10, BecomesByType0
  <2>5. x = y
    BY <1>8, <2>1, <2>4, Zenon
  <2> HIDE DEF f, x, a, m, visited
  <2>6. \A c \in Seq(Byte) : ReadsPairs0(c, ps) => ReadsMarked0(Object0, a \o c, y)
    <3>1. ASSUME NEW c \in Seq(Byte), ReadsPairs0(c, ps) PROVE ReadsMarked0(Object0, c, y)
      BY <3>1, ReadsObject0
    <3> HIDE DEF y
    <3> QED BY <2>2, <3>1, Zenon
  <2> HIDE DEF y
  <2>7. Carries0(e, EncodePairs0(enc, Write(e, <<Object0>> \o a), PairsOf(v)), VisitBy(vis, v), y)
    BY <1>6, <1>7, <1>9, <1>10, <2>2, <2>6, PropertiesCarried0 DEF ps
  <2> QED BY <2>1, <2>2, <2>3, <2>5, <2>7, Zenon DEF m, visited
<1>11. CASE v[1] = "AMF0EcmaArray"
  <2>1. PairsOf(v) = v[2].properties /\ v[2].count \in Nat
    BY <1>11 DEF PairsOf, Container
  <2> DEFINE n == v[2].count
             a == UInt32(n)
             y == <<"map", MapOf(<<>> \o ps)>>
  <2>2. a \in Seq(Byte)
    BY <2>1, UInt32Type
  <2>3. f = EncodeTypedPairs0(enc, Write(e, <<EcmaArray0>> \o a), v[2].properties)
    BY <1>0, <1>11, Zenon DEF WrittenByType0
  <2>4. x = <<"map", PairsBecome(bec, v[2].properties)>>
    BY <1>11, BecomesByType0
  <2>5. x = y
    BY <1>8, <2>1, <2>4, Zenon
  <2>6. n \in Nat
    BY <2>1
  <2> HIDE DEF f, x, visited, n
  <2>7. \A c \in Seq(Byte) : ReadsPairs0(c, ps) => ReadsMarked0(EcmaArray0, a \o c, y)
    <3> SUFFICES ASSUME NEW c \in Seq(Byte), ReadsPairs0(c, ps) PROVE ReadsMarked0(EcmaArray0, a \o c, y)
      OBVIOUS
    <3> QED BY <2>6, ReadsEcmaArray0
  <2> HIDE DEF y, a
  <2>8. CASE OfAMF0Types(v[2].properties)
    <3>1. Encodable0(v) <=> \A k \in Keys(v) : Len(k) <= MaxShort
      BY <1>7, <1>11, <2>8, Zenon
    <3>2. Carries0(e, EncodePairs0(enc, Write(e, <<EcmaArray0>> \o a), PairsOf(v)), VisitBy(vis, v), y)
      BY <1>6, <1>9, <2>2, <2>7, <3>1, PropertiesCarried0 DEF ps
    <3>3. f = EncodePairs0(enc, Write(e, <<EcmaArray0>> \o a), v[2].properties)
      BY <2>3, <2>8, Zenon DEF EncodeTypedPairs0
    <3> QED BY <2>1, <2>5, <3>2, <3>3, Zenon DEF visited
  <2>9. CASE ~OfAMF0Types(v[2].properties)
    <3> DEFINE m == <<EcmaArray0>>
               b == m \o a
               g == Write(e, b)
    <3>1. b \in Seq(Byte)
      <4>1. m \in Seq(Byte)
        BY <1>9
      <4> HIDE DEF m
      <4>2. Join2(m, a)
        BY <2>2, <4>1, JoinTwo
      <4> QED BY <4>2, Zenon DEF Join2
    <3>2. f = Unsupported(g)
      BY <2>3, <2>9, Zenon DEF EncodeTypedPairs0
    <3> HIDE DEF b
    <3>3. g \in Encoder0 /\ g.out = e.out \o b
      BY <3>1, WriteHas0
    <3>4. ~Encodable0(v)
      BY <1>7, <1>11, <2>9, Zenon
    <3>5. AllIn(VisitBy(vis, v), Fit0) => Encodable0(v)
      BY ContainerHas
    <3>6. ~AllIn(visited, Fit0)
      BY <3>4, <3>5, Zenon DEF visited
    <3> HIDE DEF g
    <3>7. Carries0(e, Unsupported(g), visited, y)
      BY <3>1, <3>3, <3>6, RefusedLater0
    <3> QED BY <2>5, <3>2, <3>7, Zenon
  <2> QED BY <2>8, <2>9
<1>12. CASE v[1] = "AMF0TypedObject"
  <2>1. PairsOf(v) = v[2].properties /\ v[2].className \in Seq(Byte)
    BY <1>12 DEF PairsOf, Container, GoString, List
  <2> DEFINE class == v[2].className
             m == <<TypedObject0>>
             first == <<<<ClassNameKey, <<"string", class>>>>>>
             y == <<"map", MapOf(first \o ps)>>
             a == ShortBytes(class)
  <2>u. f = EncodeTypedPairs0(enc, WriteShort(Write(e, m), class), v[2].properties)
    BY <1>0, <1>12, Zenon DEF WrittenByType0
  <2>3. x = <<"map", WithClass(class, PairsBecome(bec, v[2].properties))>>
    BY <1>12, BecomesByType0
  <2>e. Encodable0(v) <=> /\ \A k \in Keys(v) : Len(k) <= MaxShort
                          /\ Len(class) <= MaxShort
                          /\ OfAMF0Types(v[2].properties)
    BY <1>12, Zenon DEF Encodable0, Tags0
  <2>5. class \in Seq(Byte)
    BY <2>1
  <2> HIDE DEF class, f, x
  <2>6. x = y
    <3> DEFINE c == <<"string", class>>
               n == Len(PairsOf(v))
    <3>1. n \in Nat /\ OfLength(ps, n)
      BY <1>8
    <3> HIDE DEF n, c
    <3>2. MapOf(<<<<ClassNameKey, c>>>> \o ps)
             = IF ClassNameKey \in DOMAIN MapOf(ps) THEN MapOf(ps)
               ELSE WithProperty(MapOf(ps), ClassNameKey, c)
      BY <3>1, ClassFirst
    <3>3. MapOf(<<<<ClassNameKey, c>>>> \o ps) = WithClass(class, MapOf(ps))
      BY <3>2, Zenon DEF WithClass, c
    <3> QED BY <1>8, <2>1, <2>3, <3>3, Zenon DEF c
  <2> HIDE DEF visited
  <2>d. CASE ~OfAMF0Types(v[2].properties)
    <3> DEFINE w == Write(e, m)
               g == WriteShort(w, class)
    <3>0. m \in Seq(Byte)
      BY <1>9
    <3> HIDE DEF m
    <3>1. w \in Encoder0 /\ w.out = e.out \o m
      BY <3>0, WriteHas0
    <3> HIDE DEF w
    <3>2. \E b \in Seq(Byte) : g \in Encoder0 /\ g.out = e.out \o b
      <4>1. CASE Len(class) <= MaxShort
        <5>1. a \in Seq(Byte)
          BY <2>5, <4>1, ShortBytesType
        <5>2. g = Write(w, a)
          <6>1. ~(Len(class) > MaxShort)
            BY <2>5, <4>1, MaxShortIs
          <6> QED BY <6>1, Zenon DEF WriteShort, ShortBytes
        <5> HIDE DEF g, a
        <5>3. g \in Encoder0 /\ g.out = w.out \o a
          BY <3>1, <5>1, <5>2, WriteHas0
        <5> DEFINE o == e.out
        <5>4. o \in Seq(Byte)
          BY DEF Encoder0
        <5>5. w.out = o \o m
          BY <3>1
        <5> HIDE DEF o
        <5>6. Join3(o, m, a)
          BY <3>0, <5>1, <5>4, JoinThree
        <5>7. (o \o m) \o a = o \o (m \o a)
          BY <5>6, Zenon DEF Join3
        <5>8. Join2(m, a)
          BY <3>0, <5>1, JoinTwo
        <5>9. m \o a \in Seq(Byte)
          BY <5>8, Zenon DEF Join2
        <5> QED BY <5>3, <5>5, <5>7, <5>9, Zenon DEF o
      <4>2. CASE ~(Len(class) <= MaxShort)
        <5>1. g \in Encoder0 /\ g.out = w.out
          BY <2>5, <3>1, <4>2, WriteShortHas
        <5> QED BY <3>0, <3>1, <5>1, Zenon
      <4> QED BY <4>1, <4>2
    <3>3. f = Unsupported(g)
      BY <2>u, <2>d, Zenon DEF EncodeTypedPairs0, w, m
    <3>4. AllIn(VisitBy(vis, v), Fit0) => Encodable0(v)
      BY ContainerHas
    <3>5. ~AllIn(visited, Fit0)
      BY <2>e, <2>d, <3>4, Zenon DEF visited
    <3> HIDE DEF g, y
    <3>6. Carries0(e, Unsupported(g), visited, y)
      BY <3>2, <3>5, RefusedLater0
    <3> QED BY <2>6, <3>3, <3>6, Zenon
  <2> SUFFICES ASSUME OfAMF0Types(v[2].properties) PROVE Carries0(e, f, visited, x)
    BY <2>d
  <2>2. f = EncodePairs0(enc, WriteShort(Write(e, m), class), v[2].properties)
    BY <2>u, Zenon DEF EncodeTypedPairs0
  <2>4. Encodable0(v) <=> (\A k \in Keys(v) : Len(k) <= MaxShort) /\ Len(class) <= MaxShort
    BY <2>e, Zenon
  <2>7. CASE Len(class) <= MaxShort
    <3>1. a \in Seq(Byte)
      BY <2>5, <2>7, ShortBytesType
    <3>2. \A c \in Seq(Byte) : ReadsPairs0(c, ps) => ReadsMarked0(TypedObject0, a \o c, y)
      <4> SUFFICES ASSUME NEW c \in Seq(Byte), ReadsPairs0(c, ps)
                   PROVE  ReadsMarked0(TypedObject0, a \o c, y)
        OBVIOUS
      <4> QED BY <2>5, <2>7, ReadsTypedObject0
    <3>3. WriteShort(Write(e, m), class) = Write(e, m \o a)
      <4>1. m \in Seq(Byte)
        BY <1>9
      <4>2. ~(Len(class) > MaxShort)
        BY <2>5, <2>7, MaxShortIs
      <4> HIDE DEF m, a
      <4>3. WriteShort(Write(e, m), class) = Write(Write(e, m), a)
        BY <4>2, Zenon DEF WriteShort, a, ShortBytes
      <4>4. Write(Write(e, m), a) = Write(e, m \o a)
        BY <3>1, <4>1, WriteTwice
      <4> QED BY <4>3, <4>4
    <3> HIDE DEF y, a
    <3>4. Encodable0(v) <=> \A k \in Keys(v) : Len(k) <= MaxShort
      BY <2>4, <2>7
    <3>5. Carries0(e, EncodePairs0(enc, Write(e, <<TypedObject0>> \o a), PairsOf(v)), VisitBy(vis, v), y)
      BY <1>6, <1>9, <3>1, <3>2, <3>4, PropertiesCarried0 DEF ps
    <3> QED BY <2>1, <2>2, <2>6, <3>3, <3>5, Zenon DEF visited
  <2>8. CASE ~(Len(class) <= MaxShort)
    <3>1. AllIn(VisitBy(vis, v), Fit0) => Encodable0(v)
      BY ContainerHas
    <3>2. ~AllIn(VisitBy(vis, v), Fit0)
      BY <2>4, <2>8, <3>1
    <3> HIDE DEF y
    <3>3. Carries0(e, EncodePairs0(enc, WriteShort(Write(e, <<TypedObject0>>), class), PairsOf(v)),
                   VisitBy(vis, v), y)
      BY <1>1, <2>5, <2>8, <3>2, LongClassCarried0
    <3> QED BY <2>1, <2>2, <2>6, <3>3, Zenon DEF visited
  <2> QED BY <2>7, <2>8
<1> HIDE DEF f, x, visited
<1> QED BY <1>5, <1>10, <1>11, <1>12, Zenon

\* AMF0Encoder writes every value, however deep, so that decodeValue reads what it
\* becomes and not a byte more, whatever follows, if no key in it is empty; and it
\* fails exactly if something in the value has no form in AMF0.
THEOREM ValueCarried0 ==
    \A n \in Nat : Codec0(Value[n], EncodeValue0[n], Visit[n], Becomes0[n])
<1> DEFINE P(n) == Codec0(Value[n], EncodeValue0[n], Visit[n], Becomes0[n])
           T == {n \in Nat : P(n)}
<1>1. ASSUME NEW n \in Nat, n # 0 => P(n - 1) PROVE P(n)
  <2> SUFFICES ASSUME NEW v \in Value[n], NEW e \in Encoder0
               PROVE  Carries0(e, EncodeValue0[n][v][e], Visit[n][v], Becomes0[n][v])
    BY Zenon DEF Codec0
  <2> DEFINE enc == Inside(EncodeValue0, n)
             vis == Inside(Visit, n)
             bec == Inside(Becomes0, n)
             W == Within(n)
  <2>1. EncodeValue0[n][v][e] = EncodeByType0(enc, e, v)
    <3>1. EncodeValue0[n] = EncodeStep0(n, enc)
      BY EncodeValue0Is, Zenon
    <3> HIDE DEF enc
    <3>2. EncodeStep0(n, enc)[v] = [g \in Encoder0 |-> EncodeByType0(enc, g, v)]
      BY Zenon DEF EncodeStep0
    <3>3. [g \in Encoder0 |-> EncodeByType0(enc, g, v)][e] = EncodeByType0(enc, e, v)
      BY Zenon
    <3> QED BY <3>1, <3>2, <3>3, Zenon
  <2>2. Visit[n][v] = VisitBy(vis, v)
    <3>1. Visit[n] = VisitStep(n, vis)
      BY VisitIs, Zenon
    <3> HIDE DEF vis
    <3> QED BY <3>1, Zenon DEF VisitStep
  <2>3. Becomes0[n][v] = ByType0(bec, v)
    <3>1. Becomes0[n] = BecomeStep0(n, bec)
      BY Becomes0Is, Zenon
    <3> HIDE DEF bec
    <3> QED BY <3>1, Zenon DEF BecomeStep0
  <2>4. v \in AnyValue /\ v \in Scalar \cup Container(W)
    BY WithinIs
  <2>5. CASE v \in Scalar
    <3> HIDE DEF enc, vis, bec
    <3>1. Carries0(e, EncodeByType0(enc, e, v), VisitBy(vis, v), ByType0(bec, v))
      BY <2>5, ScalarCarried0
    <3> QED BY <2>1, <2>2, <2>3, <3>1, Zenon
  <2>6. CASE v \in Container(W)
    <3>1. \A w \in W : vis[w] \in Seq(AnyValue)
      <4>1. CASE n = 0
        BY <4>1 DEF Within
      <4>2. CASE n # 0
        <5>1. W = Value[n - 1] /\ vis = Visit[n - 1]
          BY <4>2, Zenon DEF Within, Inside
        <5>2. n - 1 \in Nat
          BY <4>2
        <5> QED BY <5>1, <5>2, VisitHas
      <4> QED BY <4>1, <4>2
    <3>2. Codec0(W, enc, vis, bec)
      <4>1. CASE n = 0
        BY <4>1 DEF Within, Codec0
      <4>2. CASE n # 0
        <5>1. W = Value[n - 1] /\ vis = Visit[n - 1] /\ enc = EncodeValue0[n - 1] /\ bec = Becomes0[n - 1]
          BY <4>2, Zenon DEF Within, Inside
        <5> QED BY <1>1, <4>2, <5>1, Zenon
      <4> QED BY <4>1, <4>2
    <3> HIDE DEF enc, vis, bec, W
    <3>3. Carries0(e, EncodeByType0(enc, e, v), VisitBy(vis, v), ByType0(bec, v))
      BY <2>4, <2>6, <3>1, <3>2, ContainerCarried0
    <3> QED BY <2>1, <2>2, <2>3, <3>3, Zenon
  <2> QED BY <2>4, <2>5, <2>6
<1> HIDE DEF P
<1>2. 0 \in T
  BY <1>1
<1>3. ASSUME NEW n \in Nat, n \in T PROVE n + 1 \in T
  <2>1. n + 1 \in Nat /\ (n + 1) - 1 = n /\ P(n)
    BY <1>3
  <2>2. P(n + 1)
    <3> DEFINE m == n + 1
    <3>1. m \in Nat /\ m - 1 = n /\ (m # 0 => P(m - 1))
      BY <2>1
    <3> HIDE DEF m
    <3>2. P(m)
      BY <1>1, <3>1
    <3> QED BY <3>2 DEF m
  <2> QED BY <2>1, <2>2
<1>4. Nat \subseteq T
  <2> HIDE DEF T
  <2> QED BY <1>2, <1>3, SetInduction
<1> QED BY <1>4 DEF P

-----------------------------------------------------------------------------
(* That readU29 undoes writeU29, whatever follows on the stream, and what  *)
(* it makes of the numbers that are no integers of 29 bits with a sign.    *)

\* A group of bytes from which a reader can tell where it ends.
SaysItsEnd(w) ==
  \/ Len(w) = 1 /\ w[1] < 128
  \/ Len(w) = 2 /\ w[1] >= 128 /\ w[2] < 128
  \/ Len(w) = 3 /\ w[1] >= 128 /\ w[2] >= 128 /\ w[3] < 128
  \/ Len(w) = 4 /\ w[1] >= 128 /\ w[2] >= 128 /\ w[3] >= 128

\* A run of bytes that says where it ends is read to there and no further.
LEMMA SelfDelimiting ==
  ASSUME NEW w \in Seq(Byte), NEW rest \in Seq(Byte),
         SaysItsEnd(w)
  PROVE  /\ U29Length(w \o rest) = Len(w)
         /\ \A i \in 1 .. Len(w) : (w \o rest)[i] = w[i]
<1> USE DEF SaysItsEnd
<1> DEFINE s == w \o rest
<1>1. Len(s) \in Nat /\ Len(s) >= Len(w) /\ \A i \in 1 .. Len(w) : s[i] = w[i]
  OBVIOUS
<1>2. \A i \in 1 .. Len(w) : w[i] \in Int
  <2>1. \A i \in 1 .. Len(w) : w[i] \in Byte  BY ElementOfSeq
  <2>2. \A b \in Byte : b \in Int  BY DEF Byte
  <2> QED  BY <2>1, <2>2
<1> HIDE DEF s
<1>3. U29Length(s) = Len(w)
  <2>1. CASE Len(w) = 1
    <3>1. s[1] < 128  BY <1>1, <2>1
    <3> QED  BY <1>1, <2>1, <3>1 DEF U29Length, EndsAt
  <2>2. CASE Len(w) = 2
    <3>1. s[1] >= 128 /\ s[2] < 128  BY <1>1, <2>2
    <3>2. s[1] \in Int  BY <1>1, <1>2, <2>2
    <3> QED  BY <1>1, <2>2, <3>1, <3>2 DEF U29Length, EndsAt
  <2>3. CASE Len(w) = 3
    <3>1. s[1] >= 128 /\ s[2] >= 128 /\ s[3] < 128  BY <1>1, <2>3
    <3>2. s[1] \in Int /\ s[2] \in Int  BY <1>1, <1>2, <2>3
    <3> QED  BY <1>1, <2>3, <3>1, <3>2 DEF U29Length, EndsAt
  <2>4. CASE Len(w) = 4
    <3>1. s[1] >= 128 /\ s[2] >= 128 /\ s[3] >= 128  BY <1>1, <2>4
    <3>2. s[1] \in Int /\ s[2] \in Int /\ s[3] \in Int  BY <1>1, <1>2, <2>4, SMTT(40)
    <3> QED  BY <1>1, <2>4, <3>1, <3>2 DEF U29Length, EndsAt
  <2> QED  BY <2>1, <2>2, <2>3, <2>4
<1> QED  BY <1>1, <1>3 DEF s

\* The number a group of bytes stands for, as readU29 puts it together.
GroupValue(w) ==
  IF Len(w) = 1 THEN w[1]
  ELSE IF Len(w) = 2 THEN (w[1] % 128) * 128 + w[2]
  ELSE IF Len(w) = 3
  THEN (w[1] % 128) * TwoTo14 + (w[2] % 128) * 128 + w[3]
  ELSE SignExtend((w[1] % 128) * (TwoTo14 * 256) + (w[2] % 128) * (128 * 256)
                    + (w[3] % 128) * 256 + w[4])

\* The number that is read is the one the group stands for (readU29, amf3.go).
LEMMA ReadsTheGroup ==
  ASSUME NEW w \in Seq(Byte), NEW rest \in Seq(Byte),
         SaysItsEnd(w)
  PROVE  /\ U29Length(w \o rest) = Len(w)
         /\ ReadU29(w \o rest) = GroupValue(w)
<1> DEFINE s == w \o rest
<1>0. Len(w) \in 1 .. 4
  BY DEF SaysItsEnd
<1>1. U29Length(s) = Len(w) /\ \A i \in 1 .. Len(w) : s[i] = w[i]
  BY SelfDelimiting
<1> HIDE DEF s
<1>2. ReadU29(s) = GroupValue(w)
  <2>1. CASE Len(w) = 1  BY <1>1, <2>1 DEF ReadU29, GroupValue
  <2>2. CASE Len(w) = 2  BY <1>1, <2>2 DEF ReadU29, GroupValue
  <2>3. CASE Len(w) = 3  BY <1>1, <2>3 DEF ReadU29, GroupValue
  <2>4. CASE Len(w) = 4  BY <1>1, <2>4 DEF ReadU29, GroupValue
  <2> QED  BY <1>0, <2>1, <2>2, <2>3, <2>4
<1> QED  BY <1>1, <1>2 DEF s

----------------------------------------------------------------------------
(* Seven bits at a time.                                                   *)

\* Seven bits with the eighth set are a byte that says there is more.
LEMMA SevenBits ==
  ASSUME NEW v \in Nat, NEW unit \in Nat \ {0}
  PROVE  /\ Seven(v, unit) \in 0 .. 127
         /\ More(Seven(v, unit)) \in 128 .. 255
         /\ More(Seven(v, unit)) % 128 = Seven(v, unit)
<1>1. v \div unit \in Nat
  OBVIOUS
<1>2. \A x \in Nat : x % 128 \in 0 .. 127 /\ ((x % 128) + 128) % 128 = x % 128
  OBVIOUS
<1> QED  BY <1>1, <1>2 DEF Seven, More

\* Quotient and remainder by 128 make the number again.
LEMMA Divide ==
  ASSUME NEW v \in Nat, NEW unit \in Nat \ {0}
  PROVE  /\ v \div unit \in Nat
         /\ v % unit \in Nat /\ v % unit < unit
         /\ v = (v \div unit) * unit + (v % unit)
OBVIOUS

\* Dividing by 128 or by 256 and then by more divides by the product.
LEMMA Divide7And7 ==
  ASSUME NEW v \in Nat, NEW q \in Nat, NEW p \in Nat, NEW a \in Nat, NEW b \in Nat,
         v = q * 128 + a, a < 128, q = p * 128 + b, b < 128
  PROVE  v \div TwoTo14 = p
BY DEF TwoTo14

\* The last eight bits, and seven above them.
LEMMA Divide8And7 ==
  ASSUME NEW v \in Nat, NEW q \in Nat, NEW p \in Nat, NEW a \in Nat, NEW b \in Nat,
         v = q * 256 + a, a < 256, q = p * 128 + b, b < 128
  PROVE  v \div (128 * 256) = p
OBVIOUS

\* The last eight bits, and fourteen above them.
LEMMA Divide8And14 ==
  ASSUME NEW v \in Nat, NEW q \in Nat, NEW p \in Nat, NEW a \in Nat, NEW b \in Nat,
         v = q * 256 + a, a < 256, q = p * TwoTo14 + b, b < TwoTo14
  PROVE  v \div (TwoTo14 * 256) = p
BY DEF TwoTo14

\* Numbers of at most fourteen bits, in two groups of seven.
LEMMA TwoGroups ==
  ASSUME NEW v \in Nat, v < TwoTo14
  PROVE  Seven(v, 128) * 128 + Seven(v, 1) = v
BY DEF Seven, TwoTo14

\* q and p are what is left of v after one group and after two.
LEMMA ThreeGroupsOf ==
  ASSUME NEW v \in Nat, v < TwoTo21,
         NEW q, q = v \div 128, NEW p, p = q \div 128
  PROVE  Seven(v, TwoTo14) * TwoTo14 + Seven(v, 128) * 128 + Seven(v, 1) = v
<1>1. v = q * 128 + (v % 128) /\ q \in Nat /\ v % 128 \in Nat /\ v % 128 < 128
  BY Divide
<1>2. q = p * 128 + (q % 128) /\ p \in Nat /\ q % 128 \in Nat /\ q % 128 < 128
  BY <1>1, Divide
<1>3. v \div TwoTo14 = p
  BY <1>1, <1>2, Divide7And7
<1>4. p < 128
  BY <1>1, <1>2 DEF TwoTo21
<1>5. Seven(v, TwoTo14) = p
  BY <1>2, <1>3, <1>4 DEF Seven
<1>6. Seven(v, 128) = q % 128 /\ Seven(v, 1) = v % 128
  BY DEF Seven
<1> QED  BY <1>1, <1>2, <1>5, <1>6 DEF TwoTo14

\* Numbers of at most twenty-one bits, in three groups of seven.
LEMMA ThreeGroups ==
  ASSUME NEW v \in Nat, v < TwoTo21
  PROVE  Seven(v, TwoTo14) * TwoTo14 + Seven(v, 128) * 128 + Seven(v, 1) = v
BY ThreeGroupsOf

\* Numbers of at most twenty-nine bits, in three groups of seven and one of eight.
LEMMA FourGroupsOf ==
  ASSUME NEW v \in Nat, v < TwoTo29, NEW q, q = v \div 256
  PROVE  Seven(v, TwoTo14 * 256) * (TwoTo14 * 256) + Seven(v, 128 * 256) * (128 * 256)
           + Seven(v, 256) * 256 + (v % 256) = v
<1>1. v = q * 256 + (v % 256) /\ q \in Nat /\ v % 256 \in Nat /\ v % 256 < 256
  BY Divide
<1>2. q < TwoTo21
  BY <1>1 DEF TwoTo29, TwoTo21
<1>3. v \div (128 * 256) = q \div 128
  <2>1. /\ q = (q \div 128) * 128 + (q % 128)
        /\ q \div 128 \in Nat /\ q % 128 \in Nat /\ q % 128 < 128
    BY <1>1, Divide
  <2> QED  BY <1>1, <2>1, Divide8And7
<1>4. v \div (TwoTo14 * 256) = q \div TwoTo14
  <2>1. /\ q = (q \div TwoTo14) * TwoTo14 + (q % TwoTo14)
        /\ q \div TwoTo14 \in Nat
        /\ q % TwoTo14 \in Nat /\ q % TwoTo14 < TwoTo14
    BY <1>1 DEF TwoTo14
  <2> QED  BY <1>1, <2>1, Divide8And14
<1>5. /\ Seven(v, TwoTo14 * 256) = Seven(q, TwoTo14)
      /\ Seven(v, 128 * 256) = Seven(q, 128)
      /\ Seven(v, 256) = Seven(q, 1)
  BY <1>1, <1>3, <1>4 DEF Seven
<1>6. Seven(q, TwoTo14) * TwoTo14 + Seven(q, 128) * 128 + Seven(q, 1) = q
  BY <1>1, <1>2, ThreeGroups
<1>7. TwoTo14 \in Nat \ {0} /\ 128 \in Nat \ {0} /\ 1 \in Nat \ {0}
  BY DEF TwoTo14
<1>8. /\ Seven(q, TwoTo14) \in Nat
      /\ Seven(q, 128) \in Nat
      /\ Seven(q, 1) \in Nat
  <2> DEFINE InSeven(u) == Seven(q, u) \in 0 .. 127
  <2>1. \A u \in Nat \ {0} : InSeven(u)
    <3>1. q \in Nat  BY <1>1
    <3>2. ASSUME NEW u \in Nat \ {0} PROVE Seven(q, u) \in 0 .. 127
      BY <3>1, SevenBits, ZenonT(60)
    <3> QED  BY <3>2
  <2> HIDE DEF InSeven
  <2>2. InSeven(TwoTo14) /\ InSeven(128) /\ InSeven(1)
    BY <1>7, <2>1, Zenon
  <2> QED  BY <2>2 DEF InSeven
<1> QED  BY <1>1, <1>5, <1>6, <1>8 DEF TwoTo14

\* The same, of the quotients that writeU29 shifts out.
LEMMA FourGroups ==
  ASSUME NEW v \in Nat, v < TwoTo29
  PROVE  Seven(v, TwoTo14 * 256) * (TwoTo14 * 256) + Seven(v, 128 * 256) * (128 * 256)
           + Seven(v, 256) * 256 + (v % 256) = v
BY FourGroupsOf

----------------------------------------------------------------------------
(* What writeU29 writes.                                                   *)

\* The numbers in three and in four bytes.
Of3(a, b, c) == (a % 128) * TwoTo14 + (b % 128) * 128 + c
Of4(a, b, c, e) ==
  (a % 128) * (TwoTo14 * 256) + (b % 128) * (128 * 256) + (c % 128) * 256 + e

\* What writeU29 writes in two bytes is a group of two that stands for the number.
LEMMA TwoBytes ==
  ASSUME NEW a \in 128 .. 255, NEW b \in 0 .. 127, NEW w, w = <<a, b>>
  PROVE  w \in Seq(Byte) /\ SaysItsEnd(w) /\ GroupValue(w) = (a % 128) * 128 + b
BY DEF Byte, SaysItsEnd, GroupValue

\* What it writes in three bytes.
LEMMA ThreeBytes ==
  ASSUME NEW a \in 128 .. 255, NEW b \in 128 .. 255, NEW c \in 0 .. 127,
         NEW w, w = <<a, b, c>>
  PROVE  /\ w \in Seq(Byte) /\ SaysItsEnd(w)
         /\ GroupValue(w) = Of3(a, b, c)
BY DEF Byte, SaysItsEnd, GroupValue, Of3

StandsFor(w, r) == w \in Seq(Byte) /\ SaysItsEnd(w) /\ GroupValue(w) = r

\* What it writes in four bytes.
LEMMA FourBytes ==
  ASSUME NEW a \in 128 .. 255, NEW b \in 128 .. 255, NEW c \in 128 .. 255,
         NEW e \in 0 .. 255
  PROVE  StandsFor(<<a, b, c, e>>, SignExtend(Of4(a, b, c, e)))
<1> DEFINE w == <<a, b, c, e>>
<1>1. /\ w \in Seq(Byte) /\ Len(w) = 4
      /\ w[1] = a /\ w[2] = b /\ w[3] = c /\ w[4] = e
  BY DEF Byte
<1> HIDE DEF w
<1>2. SaysItsEnd(w) /\ GroupValue(w) = SignExtend(Of4(a, b, c, e))
  BY <1>1 DEF SaysItsEnd, GroupValue, Of4
<1>3. StandsFor(w, SignExtend(Of4(a, b, c, e)))  BY <1>1, <1>2 DEF StandsFor
<1> QED  BY <1>3 DEF w

\* Whatever writeU29 writes says where it ends and stands for the number.
LEMMA WritesAGroup ==
  ASSUME NEW x \in Int
  PROVE  /\ WriteU29(x) \in Seq(Byte)
         /\ SaysItsEnd(WriteU29(x))
         /\ GroupValue(WriteU29(x)) = SignExtend(x % TwoTo29)
<1> DEFINE v == x % TwoTo29
           w == WriteU29(x)
           Goal == w \in Seq(Byte) /\ SaysItsEnd(w) /\ GroupValue(w) = SignExtend(v)
<1>1. v \in Nat /\ v < TwoTo29
  BY DEF TwoTo29
<1>2. /\ TwoTo14 \in Nat \ {0} /\ TwoTo14 * 256 \in Nat \ {0}
      /\ 128 * 256 \in Nat \ {0} /\ 1 \in Nat \ {0}
      /\ 128 \in Nat \ {0} /\ 256 \in Nat \ {0}
  BY DEF TwoTo14
<1>3. \A u \in Nat \ {0} : /\ Seven(v, u) \in 0 .. 127
                            /\ More(Seven(v, u)) \in 128 .. 255
                            /\ More(Seven(v, u)) % 128 = Seven(v, u)
  BY <1>1, SevenBits
<1>4. ASSUME v < 128 PROVE Goal
  <2>1. w = <<v>>  BY <1>4 DEF WriteU29
  <2>2. SignExtend(v) = v  BY <1>1, <1>4 DEF SignExtend, TwoTo28
  <2> HIDE DEF v, w
  <2>3. w \in Seq(Byte) /\ Len(w) = 1 /\ w[1] = v  BY <1>1, <1>4, <2>1 DEF Byte
  <2>4. SaysItsEnd(w)  BY <1>4, <2>3 DEF SaysItsEnd
  <2> QED  BY <2>2, <2>3, <2>4 DEF GroupValue
<1>5. ASSUME v >= 128, v < TwoTo14 PROVE Goal
  <2> DEFINE a == More(Seven(v, 128))
             b == Seven(v, 1)
  <2>1. w = <<a, b>>  BY <1>1, <1>5 DEF WriteU29
  <2>2. SignExtend(v) = v  BY <1>1, <1>5 DEF SignExtend, TwoTo14, TwoTo28
  <2>3. (a % 128) * 128 + b = v  BY <1>1, <1>2, <1>3, <1>5, TwoGroups
  <2>4. a \in 128 .. 255 /\ b \in 0 .. 127  BY <1>2, <1>3
  <2> HIDE DEF v, w, a, b
  <2> QED  BY <2>1, <2>2, <2>3, <2>4, TwoBytes, ZenonT(60)
<1>6. ASSUME v >= TwoTo14, v < TwoTo21 PROVE Goal
  <2> DEFINE a == More(Seven(v, TwoTo14))
             b == More(Seven(v, 128))
             c == Seven(v, 1)
  <2>1. w = <<a, b, c>>  BY <1>1, <1>6 DEF WriteU29, TwoTo14
  <2>2. SignExtend(v) = v  BY <1>1, <1>6 DEF SignExtend, TwoTo21, TwoTo28
  <2>3. Of3(a, b, c) = v  BY <1>1, <1>2, <1>3, <1>6, ThreeGroups DEF Of3
  <2>4. a \in 128 .. 255 /\ b \in 128 .. 255 /\ c \in 0 .. 127  BY <1>2, <1>3
  <2> HIDE DEF v, w, a, b, c
  <2>5. /\ w \in Seq(Byte) /\ SaysItsEnd(w)
        /\ GroupValue(w) = Of3(a, b, c)
    BY <2>1, <2>4, ThreeBytes, ZenonT(60)
  <2>6. GroupValue(w) = v  BY ONLY <2>3, <2>5, Zenon
  <2> QED  BY <2>2, <2>5, <2>6
<1>7. ASSUME v >= TwoTo21 PROVE Goal
  <2> DEFINE a == More(Seven(v, TwoTo14 * 256))
             b == More(Seven(v, 128 * 256))
             c == More(Seven(v, 256))
             e == v % 256
  <2>1. w = <<a, b, c, e>>
    BY <1>1, <1>7 DEF WriteU29, TwoTo14, TwoTo21
  <2>2. Of4(a, b, c, e) = v  BY <1>1, <1>2, <1>3, FourGroups DEF Of4
  <2>3. a \in 128 .. 255 /\ b \in 128 .. 255 /\ c \in 128 .. 255  BY <1>2, <1>3
  <2>4. e \in 0 .. 255  BY <1>1
  <2> HIDE DEF v, w, a, b, c, e
  <2>5. StandsFor(<<a, b, c, e>>, SignExtend(Of4(a, b, c, e)))
    BY <2>3, <2>4, FourBytes, ZenonT(60)
  <2>6. StandsFor(w, SignExtend(v))  BY ONLY <2>1, <2>2, <2>5, Zenon
  <2> QED  BY <2>6 DEF StandsFor
<1> HIDE DEF v
<1>8. Goal  BY <1>1, <1>4, <1>5, <1>6, <1>7 DEF TwoTo14, TwoTo21
<1> QED  BY <1>8 DEF v

----------------------------------------------------------------------------
(* What a reader gets of what a writer wrote.                              *)

\* What writeU29 wrote of 29 bits, readU29 reads.
LEMMA ReadsWhatIsWritten ==
  ASSUME NEW x \in Int, NEW rest \in Seq(Byte)
  PROVE  /\ U29Length(WriteU29(x) \o rest) = Len(WriteU29(x))
         /\ ReadU29(WriteU29(x) \o rest) = SignExtend(x % TwoTo29)
<1> DEFINE w == WriteU29(x)
<1>1. w \in Seq(Byte) /\ SaysItsEnd(w) /\ GroupValue(w) = SignExtend(x % TwoTo29)
  BY WritesAGroup
<1> HIDE DEF w
<1>2. U29Length(w \o rest) = Len(w) /\ ReadU29(w \o rest) = GroupValue(w)
  BY <1>1, ReadsTheGroup
<1> QED  BY <1>1, <1>2 DEF w

\* Every integer of 29 bits with a sign comes back as itself, and the reader
\* stops where the writer did: encodeInteger and decodeInteger, and every
\* length and reference below 2^28.
THEOREM U29RoundTrip ==
  ASSUME NEW x \in Int, -TwoTo28 <= x, x < TwoTo28, NEW rest \in Seq(Byte)
  PROVE  /\ U29Length(WriteU29(x) \o rest) = Len(WriteU29(x))
         /\ ReadU29(WriteU29(x) \o rest) = x
<1>1. SignExtend(x % TwoTo29) = x
  <2>1. CASE x >= 0
    <3>1. x % TwoTo29 = x  BY <2>1 DEF TwoTo28, TwoTo29
    <3> QED  BY <3>1 DEF SignExtend, TwoTo28
  <2>2. CASE x < 0
    <3>1. x % TwoTo29 = x + TwoTo29  BY <2>2 DEF TwoTo28, TwoTo29
    <3> QED  BY <2>2, <3>1 DEF SignExtend, TwoTo28, TwoTo29
  <2> QED  BY <2>1, <2>2
<1> QED  BY <1>1, ReadsWhatIsWritten

\* A length or a reference of 2^28 or more, which writeU29 takes, comes back
\* negative: readU29 extends the sign of what has none.
THEOREM U29LosesTopBit ==
  ASSUME NEW x \in Int, TwoTo28 <= x, x < TwoTo29, NEW rest \in Seq(Byte)
  PROVE  ReadU29(WriteU29(x) \o rest) = x - TwoTo29 /\ x - TwoTo29 < 0
<1>1. x % TwoTo29 = x
  BY DEF TwoTo28, TwoTo29
<1>2. SignExtend(x) = x - TwoTo29
  BY DEF SignExtend
<1>3. x - TwoTo29 < 0
  BY DEF TwoTo29
<1> QED  BY <1>1, <1>2, <1>3, ReadsWhatIsWritten

-----------------------------------------------------------------------------
(* The values of a command, one after the other.                           *)

\* Decoders each of which is left by the one before when it has read a value: the
\* values are F, and the last reads no more.
Chain(encoding, n, D, F) ==
  /\ \A i \in 0 .. n : D[i] \in Decoder(encoding) /\ D[i].ok
  /\ \A i \in 1 .. n : Decode(encoding, D[i - 1]) = Ok(D[i], F[i])
                       /\ Len(D[i].in) < Len(D[i - 1].in)
  /\ ~Decode(encoding, D[n]).d.ok

\* The bytes that a decoder has left have a length.
LEMMA DecoderHas ==
    ASSUME NEW encoding \in Encodings, NEW d \in Decoder(encoding)
    PROVE  Len(d.in) \in Nat /\ d.in \in Seq(Byte)
BY DEF Decoder, Decoder0, Decoder3

\* The loop over the arguments takes one, or ends.
LEMMA ArgumentsSteps ==
    ASSUME NEW encoding \in Encodings, NEW d \in Decoder(encoding), NEW m \in Nat
    PROVE  /\ m = 0 => Arguments[m][encoding][d] = <<>>
           /\ m # 0 => Arguments[m][encoding][d]
                         = ArgumentsFrom(Arguments[m - 1][encoding], encoding, d)
<1>1. Arguments[m] = ArgumentsStep(m, Inside(Arguments, m))
  BY ArgumentsIs, Zenon
<1> DEFINE p == Inside(Arguments, m)
<1>2. m # 0 => p = Arguments[m - 1]
  BY DEF Inside
<1> HIDE DEF p
<1>3. ArgumentsStep(m, p)[encoding][d]
        = IF m = 0 THEN <<>> ELSE ArgumentsFrom(p[encoding], encoding, d)
  BY DEF ArgumentsStep
<1> QED
  BY <1>1, <1>2, <1>3 DEF p

\* One round of the loop.
LEMMA ArgumentsRound ==
    ASSUME NEW next, NEW encoding, NEW d
    PROVE  /\ ~Decode(encoding, d).d.ok => ArgumentsFrom(next, encoding, d) = <<>>
           /\ \A e, x : Decode(encoding, d) = Ok(e, x) /\ e.ok
                => ArgumentsFrom(next, encoding, d) = <<x>> \o next[e]
<1>1. ~Decode(encoding, d).d.ok => ArgumentsFrom(next, encoding, d) = <<>>
  BY Zenon DEF ArgumentsFrom
<1>2. ASSUME NEW e, NEW x, Decode(encoding, d) = Ok(e, x), e.ok
      PROVE  ArgumentsFrom(next, encoding, d) = <<x>> \o next[e]
  <2> DEFINE r == Decode(encoding, d)
  <2>1. r.d = e /\ r.val = x
    BY <1>2, OkHas
  <2> HIDE DEF r
  <2> QED
    BY <1>2, <2>1, Zenon DEF ArgumentsFrom, r
<1> QED
  BY <1>1, <1>2

\* The loop reads what there is.
LEMMA ArgumentsOfChain ==
    ASSUME NEW encoding \in Encodings, NEW n \in Nat, NEW D, NEW F, OfLength(F, n),
           Chain(encoding, n, D, F), NEW i \in 0 .. n
    PROVE  AdditionalArgs(encoding, D[i]) = SubSeq(F, i + 1, n)
<1> DEFINE Gives(j) == \A m \in Nat : m >= Len(D[j].in) =>
                         Arguments[m][encoding][D[j]] = SubSeq(F, j + 1, n)
           T == {l \in Nat : l <= n => Gives(n - l)}
<1>0. \A j \in 0 .. n : Len(D[j].in) \in Nat /\ D[j] \in Decoder(encoding) /\ D[j].ok
  BY DecoderHas DEF Chain
<1>b. \A j \in 0 .. n :
        /\ j = n => SubSeq(F, j + 1, n) = <<>>
        /\ j # n => SubSeq(F, j + 1, n) = <<F[j + 1]>> \o SubSeq(F, j + 2, n)
  BY FirstAndRest, ZenonT(60) DEF OfLength
<1>1. 0 \in T
  <2>1. n - 0 = n /\ n \in 0 .. n
    OBVIOUS
  <2>2. ASSUME NEW m \in Nat
        PROVE  Arguments[m][encoding][D[n]] = SubSeq(F, n + 1, n)
    <3>1. SubSeq(F, n + 1, n) = <<>>
      BY <1>b, <2>1
    <3>2. ~Decode(encoding, D[n]).d.ok
      BY DEF Chain
    <3>3. ArgumentsFrom(Arguments[m - 1][encoding], encoding, D[n]) = <<>>
      BY <3>2, ArgumentsRound
    <3> QED
      BY <1>0, <2>1, <3>1, <3>3, ArgumentsSteps
  <2>3. Gives(n)
    BY <2>2
  <2> HIDE DEF Gives
  <2> QED
    BY <2>1, <2>3
<1>2. ASSUME NEW l \in Nat, l \in T PROVE l + 1 \in T
  <2> SUFFICES ASSUME l + 1 <= n PROVE Gives(n - (l + 1))
    <3> HIDE DEF Gives
    <3> QED OBVIOUS
  <2> DEFINE j == n - (l + 1)
             k == j + 1
  <2>1. j \in 0 .. n /\ k \in 0 .. n /\ k \in 1 .. n /\ n - l = k /\ k - 1 = j /\ j # n
        /\ j + 2 = k + 1 /\ j + 1 = k
    OBVIOUS
  <2>2. Gives(k)
    <3>1. l <= n => Gives(n - l)
      BY <1>2
    <3>2. l <= n
      OBVIOUS
    <3> HIDE DEF Gives, k
    <3> QED BY <2>1, <3>1, <3>2
  <2> SUFFICES Gives(j)
    <3> HIDE DEF Gives
    <3> QED OBVIOUS
  <2> SUFFICES ASSUME NEW m \in Nat, m >= Len(D[j].in)
               PROVE  Arguments[m][encoding][D[j]] = SubSeq(F, j + 1, n)
    <3> HIDE DEF j
    <3> QED OBVIOUS
  <2> HIDE DEF j, k
  <2>3. Decode(encoding, D[j]) = Ok(D[k], F[k]) /\ Len(D[k].in) < Len(D[j].in)
    BY <2>1 DEF Chain
  <2>a. /\ Len(D[j].in) \in Nat /\ D[j] \in Decoder(encoding)
        /\ Len(D[k].in) \in Nat /\ D[k].ok
    BY <1>0, <2>1
  <2> DEFINE a == Len(D[j].in)
             b == Len(D[k].in)
  <2>b. a \in Nat /\ b \in Nat /\ b < a /\ m >= a
    BY <2>a, <2>3
  <2>c. m # 0 /\ m - 1 \in Nat /\ m - 1 >= b
    <3> HIDE DEF a, b
    <3> QED BY <2>b
  <2>4. m # 0 /\ m - 1 \in Nat /\ m - 1 >= Len(D[k].in)
    BY <2>c
  <2>5. Arguments[m - 1][encoding][D[k]] = SubSeq(F, k + 1, n)
    BY <2>2, <2>4
  <2>6. Arguments[m][encoding][D[j]] = ArgumentsFrom(Arguments[m - 1][encoding], encoding, D[j])
    BY <2>a, <2>4, ArgumentsSteps
  <2> DEFINE next == Arguments[m - 1][encoding]
  <2> HIDE DEF next
  <2>7. ArgumentsFrom(next, encoding, D[j]) = <<F[k]>> \o next[D[k]]
    BY <2>a, <2>3, ArgumentsRound, Zenon
  <2>8. SubSeq(F, j + 1, n) = <<F[j + 1]>> \o SubSeq(F, j + 2, n)
    BY <1>b, <2>1
  <2> QED
    BY <2>1, <2>5, <2>6, <2>7, <2>8 DEF next
<1>3. Nat \subseteq T
  <2> HIDE DEF T
  <2> QED BY <1>1, <1>2, SetInduction
<1>4. Gives(i)
  <2>1. n - i \in Nat /\ n - (n - i) = i /\ n - i <= n
    OBVIOUS
  <2>2. n - i \in T
    BY <1>3, <2>1
  <2> HIDE DEF Gives
  <2> QED
    BY <2>1, <2>2
<1>5. Len(D[i].in) \in Nat /\ Len(D[i].in) >= Len(D[i].in)
  BY <1>0
<1>6. Arguments[Len(D[i].in)][encoding][D[i]] = SubSeq(F, i + 1, n)
  BY <1>4, <1>5, Zenon
<1> QED
  BY <1>6, Zenon DEF AdditionalArgs

\* A command is parsed of three values at least, and all that follow.
LEMMA ParsedOfChain ==
    ASSUME NEW encoding \in Encodings, NEW n \in Nat, NEW D, NEW F, OfLength(F, n),
           Chain(encoding, n, D, F), NEW data, NewDecoder(encoding, data) = D[0]
    PROVE  /\ n < 3 => ParseCommand(encoding, data) = Refused
           /\ n >= 3 => ParseCommand(encoding, data)
                          = IF F[1][1] # "string" \/ F[2][1] # "float64" THEN Refused
                            ELSE Command(F[1][2], F[2][2], F[3], SubSeq(F, 4, n))
<1>0. \A j \in 0 .. n : D[j].ok
  BY DEF Chain
<1>1. ~Decode(encoding, D[n]).d.ok
  BY DEF Chain
<1>2. /\ 1 <= n => Decode(encoding, D[0]) = Ok(D[1], F[1]) /\ D[1].ok
      /\ 2 <= n => Decode(encoding, D[1]) = Ok(D[2], F[2]) /\ D[2].ok
      /\ 3 <= n => Decode(encoding, D[2]) = Ok(D[3], F[3]) /\ D[3].ok
  <2>1. \A i \in 1 .. n : Decode(encoding, D[i - 1]) = Ok(D[i], F[i]) /\ D[i].ok
    BY <1>0 DEF Chain
  <2>2. /\ 1 <= n => 1 \in 1 .. n /\ 1 - 1 = 0
        /\ 2 <= n => 2 \in 1 .. n /\ 2 - 1 = 1
        /\ 3 <= n => 3 \in 1 .. n /\ 3 - 1 = 2
    OBVIOUS
  <2> QED
    BY <2>1, <2>2
<1> DEFINE head == ReadHead(encoding, data)
           one == Decode(encoding, D[0])
           two == Decode(encoding, D[1])
           three == Decode(encoding, D[2])
<1>3. head = IF ~one.d.ok THEN one
             ELSE Bind(Decode(encoding, one.d), LAMBDA e, t :
                    Bind(Decode(encoding, e), LAMBDA f, o : Ok(f, <<one.val, t, o>>)))
  BY Zenon DEF ReadHead, Bind
<1> HIDE DEF head
<1>4. ASSUME n < 3 PROVE ~head.d.ok
  <2>1. CASE n = 0
    BY <1>1, <1>3, <2>1, Zenon
  <2>2. CASE n = 1
    <3>1. one.d = D[1] /\ D[1].ok
      BY <1>2, <2>2, OkHas
    <3>2. ~two.d.ok
      BY <1>1, <2>2
    <3>3. head = two
      BY <1>3, <3>1, <3>2, Zenon DEF Bind
    <3> QED BY <3>2, <3>3
  <2>3. CASE n = 2
    <3>1. one.d = D[1] /\ D[1].ok /\ two.d = D[2] /\ D[2].ok
      BY <1>2, <2>3, OkHas
    <3>2. ~three.d.ok
      BY <1>1, <2>3
    <3>3. head = three
      BY <1>3, <3>1, <3>2, Zenon DEF Bind
    <3> QED BY <3>2, <3>3
  <2> QED
    BY <1>4, <2>1, <2>2, <2>3
<1>5. n < 3 => ParseCommand(encoding, data) = Refused
  BY <1>4, Zenon DEF ParseCommand, CommandOf, head
<1>6. ASSUME n >= 3
      PROVE  ParseCommand(encoding, data)
               = IF F[1][1] # "string" \/ F[2][1] # "float64" THEN Refused
                 ELSE Command(F[1][2], F[2][2], F[3], SubSeq(F, 4, n))
  <2> DEFINE x == F[1]
             y == F[2]
             z == F[3]
             values == <<x, y, z>>
  <2>1. /\ one.d = D[1] /\ D[1].ok /\ two.d = D[2] /\ D[2].ok /\ three.d = D[3] /\ D[3].ok
        /\ one.val = x /\ two.val = y /\ three.val = z
    BY <1>2, <1>6, OkHas
  <2>2. head = Ok(D[3], <<x, y, z>>)
    <3> HIDE DEF x, y, z
    <3> QED BY <1>3, <2>1, Zenon DEF Bind
  <2>3. head.d = D[3] /\ head.val = values
    BY <2>2, OkHas
  <2>4. values[1] = x /\ values[2] = y /\ values[3] = z
    OBVIOUS
  <2>5. AdditionalArgs(encoding, D[3]) = SubSeq(F, 4, n)
    <3>1. 3 \in 0 .. n /\ 3 + 1 = 4
      BY <1>6
    <3>2. AdditionalArgs(encoding, D[3]) = SubSeq(F, 3 + 1, n)
      BY <3>1, ArgumentsOfChain, Zenon
    <3> QED BY <3>1, <3>2
  <2> HIDE DEF values, x, y, z
  <2>6. CommandOf(encoding, head)
          = IF x[1] # "string" \/ y[1] # "float64" THEN Refused
            ELSE Command(x[2], y[2], z, AdditionalArgs(encoding, D[3]))
    BY <2>1, <2>3, <2>4, Zenon DEF CommandOf
  <2> QED
    BY <2>5, <2>6 DEF ParseCommand, head, x, y, z
<1> QED
  BY <1>5, <1>6

\* The decoder of an encoding that has these bytes left, and these tables if it
\* has any.
At(encoding, x, s, o) == IF encoding = 3 THEN At3(x, s, o) ELSE At0(x)

\* The bytes b are read as x, whatever follows, and nothing is read of less than b.
ReadsOne(encoding, b, s, o, t, p, x) ==
  /\ b # <<>>
  /\ \A rest \in Seq(Byte) :
       Decode(encoding, At(encoding, b \o rest, s, o)) = Ok(At(encoding, rest, t, p), x)
  /\ \A y, z \in Seq(Byte) :
       y \o z = b /\ z # <<>> => ~Decode(encoding, At(encoding, y, s, o)).d.ok

\* Of the bytes y as many of xs are read as are all there.
ReadsFrom(encoding, y, all, s, o, xs) ==
  \E n \in 0 .. Len(xs) : \E D :
    /\ Chain(encoding, n, D, xs) /\ D[0] = At(encoding, y, s, o)
    /\ all => n = Len(xs)
ReadsAll(encoding, b, s, o, xs) ==
  \A y, z \in Seq(Byte) : y \o z = b => ReadsFrom(encoding, y, z = <<>>, s, o, xs)

\* Decoders are decoders.
AtTypes(encoding, s, o) == \A y \in Seq(Byte) : At(encoding, y, s, o) \in Decoder(encoding)

\* Those bytes are what it has left.
LEMMA AtIs ==
    ASSUME NEW encoding, NEW x, NEW s, NEW o
    PROVE  At(encoding, x, s, o).in = x /\ At(encoding, x, s, o).ok
BY DEF At, At0, At3

\* What is read before a chain.
InFront(encoding, n, D, xs, d, x, ys) ==
  /\ Decode(encoding, d) = Ok(D[0], x) /\ Len(D[0].in) < Len(d.in)
  /\ ys[1] = x /\ \A i \in 1 .. n : ys[i + 1] = xs[i]
ChainFrom(encoding, n, d, ys) == \E E : Chain(encoding, n, E, ys) /\ E[0] = d

\* One more in front of a chain.
LEMMA LongerChain ==
    ASSUME NEW encoding, NEW n \in Nat, NEW D, NEW xs, Chain(encoding, n, D, xs),
           NEW d \in Decoder(encoding), d.ok, NEW x, NEW ys,
           InFront(encoding, n, D, xs, d, x, ys)
    PROVE  ChainFrom(encoding, n + 1, d, ys)
<1>0. /\ Decode(encoding, d) = Ok(D[0], x) /\ Len(D[0].in) < Len(d.in)
      /\ ys[1] = x /\ \A i \in 1 .. n : ys[i + 1] = xs[i]
  BY Zenon DEF InFront
<1> DEFINE E == [i \in 0 .. n + 1 |-> IF i = 0 THEN d ELSE D[i - 1]]
<1>1. E[0] = d /\ \A i \in 1 .. n + 1 : E[i] = D[i - 1]
  OBVIOUS
<1> HIDE DEF E
<1>2. \A i \in 0 .. n + 1 : E[i] \in Decoder(encoding) /\ E[i].ok
  <2>1. \A i \in 0 .. n : D[i] \in Decoder(encoding) /\ D[i].ok
    BY DEF Chain
  <2>2. \A i \in 0 .. n + 1 : i = 0 \/ (i \in 1 .. n + 1 /\ i - 1 \in 0 .. n)
    OBVIOUS
  <2> QED
    BY <1>1, <2>1, <2>2
<1>3. ASSUME NEW i \in 1 .. n + 1
      PROVE  Decode(encoding, E[i - 1]) = Ok(E[i], ys[i]) /\ Len(E[i].in) < Len(E[i - 1].in)
  <2>1. CASE i = 1
    BY <1>0, <1>1, <2>1
  <2>2. CASE i # 1
    <3> DEFINE j == i - 1
    <3>1. j \in 1 .. n /\ j \in 1 .. n + 1 /\ i = j + 1
      BY <2>2
    <3>2. E[i] = D[j] /\ E[j] = D[j - 1] /\ ys[i] = xs[j]
      BY <1>0, <1>1, <3>1
    <3> HIDE DEF j
    <3>3. Decode(encoding, D[j - 1]) = Ok(D[j], xs[j]) /\ Len(D[j].in) < Len(D[j - 1].in)
      BY <3>1 DEF Chain
    <3> QED
      BY <3>2, <3>3 DEF j
  <2> QED
    BY <2>1, <2>2
<1>4. ~Decode(encoding, E[n + 1]).d.ok
  <2>1. n + 1 \in 1 .. n + 1 /\ (n + 1) - 1 = n
    OBVIOUS
  <2>2. E[n + 1] = D[n]
    BY <1>1, <2>1
  <2> QED
    BY <2>2 DEF Chain
<1>5. Chain(encoding, n + 1, E, ys)
  BY <1>2, <1>3, <1>4 DEF Chain
<1> QED
  BY <1>1, <1>5, Zenon DEF ChainFrom

\* A chain that reads nothing.
LEMMA NoChain ==
    ASSUME NEW encoding, NEW d \in Decoder(encoding), d.ok, ~Decode(encoding, d).d.ok, NEW xs
    PROVE  \E D : Chain(encoding, 0, D, xs) /\ D[0] = d
<1> DEFINE D == [i \in 0 .. 0 |-> d]
<1>1. D[0] = d /\ (\A i \in 0 .. 0 : D[i] = d) /\ \A i \in 1 .. 0 : FALSE
  OBVIOUS
<1> HIDE DEF D
<1>2. Chain(encoding, 0, D, xs)
  BY <1>1 DEF Chain
<1> QED
  BY <1>1, <1>2

\* Three sequences of anything joined.
JoinedThree(S, a, b, c) ==
  (a \o b) \o c = a \o (b \o c) /\ a \o b \in Seq(S) /\ b \o c \in Seq(S)

\* Three sequences of anything joined.
LEMMA JoinAny ==
    ASSUME NEW S, NEW a \in Seq(S), NEW b \in Seq(S), NEW c \in Seq(S)
    PROVE  JoinedThree(S, a, b, c)
BY JoinAssociative DEF JoinedThree

\* The same sequence, cut in two ways.
SameJoin(y, z, b, c) == y \o z = b \o c
CutsCross(y, z, b, c) ==
  \/ \E u \in Seq(Byte) : y = b \o u /\ u \o z = c
  \/ \E u \in Seq(Byte) : y \o u = b /\ u # <<>>

\* A cut is in the first part of a join or in the second.
LEMMA TwoCuts ==
    ASSUME NEW b \in Seq(Byte), NEW c \in Seq(Byte), NEW y \in Seq(Byte), NEW z \in Seq(Byte),
           SameJoin(y, z, b, c)
    PROVE  CutsCross(y, z, b, c)
<1> DEFINE s == y \o z
<1>0. Len(y) \in Nat /\ Len(z) \in Nat /\ Len(b) \in Nat /\ Len(c) \in Nat
  BY LenProperties
<1>1. /\ s \in Seq(Byte) /\ Len(s) = Len(y) + Len(z) /\ Len(s) = Len(b) + Len(c)
      /\ \A i \in 1 .. Len(y) : s[i] = y[i]
      /\ \A i \in 1 .. Len(z) : s[i + Len(y)] = z[i]
      /\ \A i \in 1 .. Len(b) : s[i] = b[i]
      /\ \A i \in 1 .. Len(c) : s[i + Len(b)] = c[i]
  <2>1. /\ s \in Seq(Byte) /\ Len(s) = Len(y) + Len(z)
        /\ \A i \in 1 .. Len(y) + Len(z) : s[i] = IF i <= Len(y) THEN y[i] ELSE z[i - Len(y)]
    BY ConcatProperties
  <2>2. /\ Len(s) = Len(b) + Len(c)
        /\ \A i \in 1 .. Len(b) + Len(c) : s[i] = IF i <= Len(b) THEN b[i] ELSE c[i - Len(b)]
    <3>1. /\ Len(b \o c) = Len(b) + Len(c)
          /\ \A i \in 1 .. Len(b) + Len(c) : (b \o c)[i] = IF i <= Len(b) THEN b[i] ELSE c[i - Len(b)]
      BY ConcatProperties
    <3> QED BY <3>1 DEF SameJoin
  <2> HIDE DEF s
  <2>3. \A i \in 1 .. Len(z) : s[i + Len(y)] = z[i]
    <3> SUFFICES ASSUME NEW i \in 1 .. Len(z) PROVE s[i + Len(y)] = z[i]
      OBVIOUS
    <3>1. i + Len(y) \in 1 .. Len(y) + Len(z) /\ ~(i + Len(y) <= Len(y)) /\ (i + Len(y)) - Len(y) = i
      BY <1>0
    <3> QED BY <2>1, <3>1
  <2>4. \A i \in 1 .. Len(c) : s[i + Len(b)] = c[i]
    <3> SUFFICES ASSUME NEW i \in 1 .. Len(c) PROVE s[i + Len(b)] = c[i]
      OBVIOUS
    <3>1. i + Len(b) \in 1 .. Len(b) + Len(c) /\ ~(i + Len(b) <= Len(b)) /\ (i + Len(b)) - Len(b) = i
      BY <1>0
    <3> QED BY <2>2, <3>1
  <2>5. \A i \in 1 .. Len(y) : s[i] = y[i]
    BY <1>0, <2>1
  <2>6. \A i \in 1 .. Len(b) : s[i] = b[i]
    BY <1>0, <2>2
  <2> QED
    BY <2>1, <2>2, <2>3, <2>4, <2>5, <2>6, Zenon
<1> HIDE DEF s
<1>2. CASE Len(b) <= Len(y)
  <2> DEFINE n == Len(y) - Len(b)
             u == [i \in 1 .. n |-> y[i + Len(b)]]
  <2>1. n \in Nat /\ \A i \in 1 .. n : i + Len(b) \in 1 .. Len(y)
    BY <1>0, <1>2
  <2>2. \A i \in 1 .. Len(y) : y[i] \in Byte
    BY ElementOfSeq
  <2>3. u \in Seq(Byte) /\ Len(u) = n /\ \A i \in 1 .. n : u[i] = y[i + Len(b)]
    BY <2>1, <2>2, IsASeq
  <2> HIDE DEF u
  <2>4. y = b \o u
    <3>1. /\ b \o u \in Seq(Byte) /\ Len(b \o u) = Len(b) + Len(u)
          /\ \A i \in 1 .. Len(b) + Len(u) : (b \o u)[i] = IF i <= Len(b) THEN b[i] ELSE u[i - Len(b)]
      BY <2>3, ConcatProperties
    <3>2. Len(b \o u) = Len(y)
      BY <1>0, <2>3, <3>1
    <3>3. ASSUME NEW i \in 1 .. Len(y) PROVE y[i] = (b \o u)[i]
      <4>0. i \in 1 .. Len(b) + Len(u)
        BY <1>0, <2>3
      <4>1. CASE i <= Len(b)
        <5>1. i \in 1 .. Len(b)
          BY <1>0, <4>1
        <5> QED BY <1>1, <3>1, <4>0, <4>1, <5>1
      <4>2. CASE ~(i <= Len(b))
        <5>1. i - Len(b) \in 1 .. n /\ (i - Len(b)) + Len(b) = i
          BY <1>0, <4>2
        <5> HIDE DEF n
        <5> QED BY <2>3, <3>1, <4>0, <4>2, <5>1
      <4> QED BY <4>1, <4>2
    <3> QED
      BY <3>1, <3>2, <3>3, SeqEqual
  <2>5. u \o z = c
    <3>0. JoinedThree(Byte, b, u, z)
      BY <2>3, JoinAny, Zenon
    <3>1. (b \o u) \o z = b \o (u \o z) /\ u \o z \in Seq(Byte)
      BY <3>0, Zenon DEF JoinedThree
    <3>2. b \o (u \o z) = b \o c
      <4>1. y \o z = b \o c
        BY Zenon DEF SameJoin
      <4> QED BY <2>4, <3>1, <4>1, Zenon
    <3> QED
      BY <3>1, <3>2, JoinCancels
  <2> QED
    BY <2>3, <2>4, <2>5, Zenon DEF CutsCross
<1>3. CASE ~(Len(b) <= Len(y))
  <2> DEFINE n == Len(b) - Len(y)
             u == [i \in 1 .. n |-> b[i + Len(y)]]
  <2>1. n \in Nat /\ n # 0 /\ \A i \in 1 .. n : i + Len(y) \in 1 .. Len(b)
    BY <1>0, <1>3
  <2>2. \A i \in 1 .. Len(b) : b[i] \in Byte
    BY ElementOfSeq
  <2>3. u \in Seq(Byte) /\ Len(u) = n /\ \A i \in 1 .. n : u[i] = b[i + Len(y)]
    BY <2>1, <2>2, IsASeq
  <2> HIDE DEF u
  <2>4. y \o u = b
    <3>1. /\ y \o u \in Seq(Byte) /\ Len(y \o u) = Len(y) + Len(u)
          /\ \A i \in 1 .. Len(y) + Len(u) : (y \o u)[i] = IF i <= Len(y) THEN y[i] ELSE u[i - Len(y)]
      BY <2>3, ConcatProperties
    <3>2. Len(y \o u) = Len(b)
      BY <1>0, <2>3, <3>1
    <3>3. ASSUME NEW i \in 1 .. Len(b) PROVE b[i] = (y \o u)[i]
      <4>0. i \in 1 .. Len(y) + Len(u)
        BY <1>0, <2>3
      <4>1. CASE i <= Len(y)
        <5>1. i \in 1 .. Len(y)
          BY <1>0, <4>1
        <5> QED BY <1>1, <3>1, <4>0, <4>1, <5>1
      <4>2. CASE ~(i <= Len(y))
        <5>1. i - Len(y) \in 1 .. n /\ (i - Len(y)) + Len(y) = i
          BY <1>0, <4>2
        <5> HIDE DEF n
        <5> QED BY <2>3, <3>1, <4>0, <4>2, <5>1
      <4> QED BY <4>1, <4>2
    <3> QED
      BY <3>1, <3>2, <3>3, SeqEqual
  <2>5. u # <<>>
    BY <2>1, <2>3, EmptySeq
  <2> QED
    BY <2>3, <2>4, <2>5, Zenon DEF CutsCross
<1> QED
  BY <1>2, <1>3

\* A value, then others.
LEMMA ReadsAllOne ==
    ASSUME NEW encoding, NEW b \in Seq(Byte), NEW c \in Seq(Byte),
           NEW s, NEW o, NEW t, NEW p, NEW x, NEW xs, NEW k \in Nat, Len(xs) = k,
           AtTypes(encoding, s, o),
           ReadsOne(encoding, b, s, o, t, p, x), ReadsAll(encoding, c, t, p, xs),
           NEW ys, Len(ys) = k + 1, ys[1] = x, \A i \in 1 .. k : ys[i + 1] = xs[i]
    PROVE  ReadsAll(encoding, b \o c, s, o, ys)
<1> SUFFICES ASSUME NEW y \in Seq(Byte), NEW z \in Seq(Byte), SameJoin(y, z, b, c)
             PROVE  ReadsFrom(encoding, y, z = <<>>, s, o, ys)
  BY DEF ReadsAll, SameJoin
<1> DEFINE d == At(encoding, y, s, o)
<1>1. d \in Decoder(encoding) /\ d.ok /\ d.in = y
  BY AtIs DEF AtTypes
<1>2. ASSUME NEW u \in Seq(Byte), y = b \o u, u \o z = c
      PROVE  ReadsFrom(encoding, y, z = <<>>, s, o, ys)
  <2> DEFINE e == At(encoding, u, t, p)
             last == z = <<>>
  <2>1. Decode(encoding, d) = Ok(e, x)
    BY <1>2, Zenon DEF ReadsOne
  <2>2. e.in = u
    BY AtIs
  <2>3. Len(u) < Len(y)
    <3>1. Len(y) = Len(b) + Len(u) /\ Len(b) \in Nat /\ Len(u) \in Nat
      BY <1>2, JoinTwo, Zenon DEF Join2
    <3>2. Len(b) # 0
      BY EmptySeq DEF ReadsOne
    <3> QED BY <3>1, <3>2
  <2>10. ReadsFrom(encoding, u, last, t, p, xs)
    BY <1>2, Zenon DEF ReadsAll
  <2> HIDE DEF e, last
  <2>4. PICK n \in 0 .. Len(xs) : \E D : /\ Chain(encoding, n, D, xs)
                                       /\ D[0] = At(encoding, u, t, p)
                                       /\ (last => n = Len(xs))
    BY <2>10, Zenon DEF ReadsFrom
  <2>11. PICK D : Chain(encoding, n, D, xs) /\ D[0] = e /\ (last => n = Len(xs))
    BY <2>4, Zenon DEF e
  <2>12. n \in 0 .. k
    <3>1. n \in 0 .. Len(xs) /\ Len(xs) = k
      OBVIOUS
    <3> QED BY <3>1, Zenon
  <2>13. last => n = k
    <3>1. (last => n = Len(xs)) /\ Len(xs) = k
      BY <2>11
    <3> QED BY <3>1, Zenon
  <2>5. n \in Nat /\ \A i \in 1 .. n : i \in 1 .. k
    BY <2>12
  <2>14. \A i \in 1 .. n : ys[i + 1] = xs[i]
    BY <2>5, Zenon
  <2>15. Len(D[0].in) < Len(d.in) /\ Decode(encoding, d) = Ok(D[0], x)
    <3> HIDE DEF d
    <3>1. D[0].in = u /\ d.in = y
      BY <1>1, <2>2, <2>11, Zenon
    <3>2. Len(D[0].in) < Len(d.in)
      BY <2>3, <3>1, Zenon
    <3> QED
      BY <2>1, <2>11, <3>2, Zenon
  <2> HIDE DEF d
  <2>6. PICK E : Chain(encoding, n + 1, E, ys) /\ E[0] = d
    <3>1. InFront(encoding, n, D, xs, d, x, ys)
      <4>1. ys[1] = x
        OBVIOUS
      <4> QED BY <2>14, <2>15, <4>1, Zenon DEF InFront
    <3>2. ChainFrom(encoding, n + 1, d, ys)
      BY <1>1, <2>11, <2>5, <3>1, LongerChain, Zenon
    <3> QED BY <3>2, Zenon DEF ChainFrom
  <2>7. n + 1 \in 0 .. k + 1 /\ (last => n + 1 = k + 1)
    BY <2>12, <2>13
  <2>8. n + 1 \in 0 .. Len(ys) /\ (last => n + 1 = Len(ys))
    <3>1. Len(ys) = k + 1
      OBVIOUS
    <3> QED BY <2>7, <3>1, Zenon
  <2> QED
    BY <2>6, <2>8, Zenon DEF ReadsFrom, d, last
<1>3. ASSUME NEW u \in Seq(Byte), y \o u = b, u # <<>>
      PROVE  ReadsFrom(encoding, y, z = <<>>, s, o, ys)
  <2>1. ~Decode(encoding, d).d.ok
    BY <1>3, Zenon DEF ReadsOne
  <2> HIDE DEF d
  <2>2. PICK D : Chain(encoding, 0, D, ys) /\ D[0] = d
    BY <1>1, <2>1, NoChain, ZenonT(60)
  <2>3. z # <<>>
    <3> SUFFICES ASSUME z = <<>> PROVE FALSE
      OBVIOUS
    <3>1. Len(y) = Len(b) + Len(c) /\ Len(b) \in Nat /\ Len(c) \in Nat
      <4>1. y \o z = y
        BY JoinNothing
      <4>2. Len(b \o c) = Len(b) + Len(c) /\ Len(b) \in Nat /\ Len(c) \in Nat
        BY JoinTwo, Zenon DEF Join2
      <4>3. y \o z = b \o c
        BY Zenon DEF SameJoin
      <4> QED BY <4>1, <4>2, <4>3
    <3>2. Len(b) = Len(y) + Len(u) /\ Len(y) \in Nat /\ Len(u) \in Nat
      BY <1>3, JoinTwo, Zenon DEF Join2
    <3>3. Len(u) # 0
      BY <1>3, EmptySeq
    <3> QED BY <3>1, <3>2, <3>3
  <2>4. 0 \in 0 .. Len(ys)
    OBVIOUS
  <2> QED
    BY <2>2, <2>3, <2>4 DEF ReadsFrom, d
<1>4. CutsCross(y, z, b, c)
  BY TwoCuts, Zenon
<1> QED
  BY <1>2, <1>3, <1>4, Zenon DEF CutsCross

\* Nothing is read of nothing.
LEMMA ReadsAllNone ==
    ASSUME NEW encoding, NEW s, NEW o, AtTypes(encoding, s, o),
           ~Decode(encoding, At(encoding, <<>>, s, o)).d.ok
    PROVE  ReadsAll(encoding, <<>>, s, o, <<>>)
<1> SUFFICES ASSUME NEW y \in Seq(Byte), NEW z \in Seq(Byte), y \o z = <<>>
             PROVE  ReadsFrom(encoding, y, z = <<>>, s, o, <<>>)
  BY DEF ReadsAll
<1>1. y = <<>>
  <2>1. Len(y) + Len(z) = 0 /\ Len(y) \in Nat /\ Len(z) \in Nat
    BY JoinTwo, EmptySeq DEF Join2
  <2> QED BY <2>1, EmptySeq
<1> DEFINE d == At(encoding, y, s, o)
<1>2. d \in Decoder(encoding) /\ d.ok /\ ~Decode(encoding, d).d.ok
  BY <1>1, AtIs DEF AtTypes
<1> HIDE DEF d
<1>3. PICK D : Chain(encoding, 0, D, <<>>) /\ D[0] = d
  BY <1>2, NoChain
<1>4. 0 \in 0 .. Len(<<>>) /\ Len(<<>>) = 0
  OBVIOUS
<1> QED
  BY <1>3, <1>4 DEF ReadsFrom, d

-----------------------------------------------------------------------------
(* What AMF3 reads of some bytes, whatever follows them, from its tables   *)
(* and to its tables.                                                      *)

StringTable == Seq(Seq(Byte))
ObjectTable == Seq(Tabled)

\* A decoder of typed bytes and tables.
LEMMA AtType3 ==
    ASSUME NEW x \in Seq(Byte), NEW s \in StringTable, NEW o \in ObjectTable
    PROVE  At3(x, s, o) \in Decoder3
BY DEF At3, Decoder3, StringTable, ObjectTable

\* decodeAMF3Value and its loops, one call deeper.
LEMMA Decoding3Steps ==
    ASSUME NEW n \in Nat, n # 0, NEW d \in Decoder3
    PROVE  /\ Decoding3[n].value[d] = DecodeByMarker3(Decoding3[n - 1], d)
           /\ Decoding3[n].pairs[d] = DecodePairs3(Decoding3[n - 1], d)
           /\ \A k \in Nat : Decoding3[n].dense[k][d] = DecodeDense(Decoding3[n - 1], d, k)
<1>2. Decoding3[n] = DecodeStep3(n, Inside(Decoding3, n))
  BY Decoding3Is, Zenon
<1>3. Inside(Decoding3, n) = Decoding3[n - 1]
  BY DEF Inside
<1>4. Decoding3[n] = DecodeStep3(n, Decoding3[n - 1])
  BY <1>2, <1>3
<1> DEFINE p == Decoding3[n - 1]
<1> HIDE DEF p
<1>5. /\ DecodeStep3(n, p).value[d] = DecodeByMarker3(p, d)
      /\ DecodeStep3(n, p).pairs[d] = DecodePairs3(p, d)
      /\ \A k \in Nat : DecodeStep3(n, p).dense[k][d] = DecodeDense(p, d, k)
  BY DEF DecodeStep3
<1> QED
  BY <1>4, <1>5 DEF p

\* One round of the loop over keys and values, and its end.
LEMMA PairsRound3 ==
    ASSUME NEW inner, NEW d, NEW e, NEW key, ReadStringWithReference(d) = Ok(e, key), e.ok,
           NEW f, NEW v, NEW g, NEW rest
    PROVE  /\ key = <<>> => DecodePairs3(inner, d) = Ok(e, <<>>)
           /\ key # <<>> /\ inner.value[e] = Ok(f, v) /\ f.ok /\ inner.pairs[f] = Ok(g, rest) /\ g.ok
                => DecodePairs3(inner, d) = Ok(g, <<<<key, v>>>> \o rest)
<1>1. /\ Ok(e, key).d = e /\ Ok(e, key).val = key
      /\ Ok(f, v).d = f /\ Ok(f, v).val = v
      /\ Ok(g, rest).d = g /\ Ok(g, rest).val = rest
  BY OkHas
<1>2. key = <<>> => DecodePairs3(inner, d) = Ok(e, <<>>)
  BY <1>1, Zenon DEF DecodePairs3, Bind
<1>3. ASSUME key # <<>>, inner.value[e] = Ok(f, v), f.ok, inner.pairs[f] = Ok(g, rest), g.ok
      PROVE  DecodePairs3(inner, d) = Ok(g, <<<<key, v>>>> \o rest)
  BY <1>1, <1>3, ZenonT(60) DEF DecodePairs3, Bind
<1> QED
  BY <1>2, <1>3

\* One round of the loop over the dense part.
LEMMA DenseRound3 ==
    ASSUME NEW inner, NEW d, NEW k \in Nat, NEW e, NEW v, inner.value[d] = Ok(e, v), e.ok,
           NEW f, NEW rest, NEW j, j = k + 1
    PROVE  inner.dense[k][e] = Ok(f, rest) /\ f.ok
             => DecodeDense(inner, d, j) = Ok(f, <<v>> \o rest)
<1>1. /\ Ok(e, v).d = e /\ Ok(e, v).val = v
      /\ Ok(f, rest).d = f /\ Ok(f, rest).val = rest
      /\ j # 0 /\ j - 1 = k
  BY OkHas
<1> QED
  BY <1>1, Zenon DEF DecodeDense, Bind

\* From these bytes, and no others, with tables s and o, the value x is read, and
\* the tables become t and p; so for strings, pairs and dense elements.
Reads3(b, s, o, t, p, x) ==
  /\ b # <<>>
  /\ \A rest \in Seq(Byte) : \A m \in Nat :
       m > Len(b) => Decoding3[m].value[At3(b \o rest, s, o)] = Ok(At3(rest, t, p), x)
ReadsPairs3(b, s, o, t, p, xs) ==
  \A rest \in Seq(Byte) : \A m \in Nat :
    m > Len(b) => Decoding3[m].pairs[At3(b \o rest, s, o)] = Ok(At3(rest, t, p), xs)
ReadsDense3(b, s, o, t, p, k, xs) ==
  \A rest \in Seq(Byte) : \A m \in Nat :
    m > Len(b) + 1 => Decoding3[m].dense[k][At3(b \o rest, s, o)] = Ok(At3(rest, t, p), xs)
ReadsString3(b, s, t, x) ==
  /\ b # <<>>
  /\ \A rest \in Seq(Byte) : \A o \in ObjectTable :
       ReadStringWithReference(At3(b \o rest, s, o)) = Ok(At3(rest, t, o), x)

\* No element, and one more.
LEMMA ReadsNoDense3 ==
    ASSUME NEW s \in StringTable, NEW o \in ObjectTable
    PROVE  ReadsDense3(<<>>, s, o, s, o, 0, <<>>)
<1> SUFFICES ASSUME NEW rest \in Seq(Byte), NEW m \in Nat, m > 1
             PROVE  Decoding3[m].dense[0][At3(<<>> \o rest, s, o)] = Ok(At3(rest, s, o), <<>>)
  <2>1. Len(<<>>) + 1 = 1
    OBVIOUS
  <2> QED BY <2>1 DEF ReadsDense3
<1>1. <<>> \o rest = rest
  BY JoinNothing
<1>2. Decoding3[m].dense[0][At3(rest, s, o)] = DecodeDense(Decoding3[m - 1], At3(rest, s, o), 0)
  <2>1. m # 0 /\ 0 \in Nat
    OBVIOUS
  <2>2. At3(rest, s, o) \in Decoder3
    BY AtType3
  <2> QED BY <2>1, <2>2, Decoding3Steps
<1> QED
  BY <1>1, <1>2, Zenon DEF DecodeDense

\* An element, then others.
LEMMA ReadsOneDense3 ==
    ASSUME NEW b \in Seq(Byte), NEW c \in Seq(Byte), NEW x, NEW xs, NEW k \in Nat,
           NEW s \in StringTable, NEW o \in ObjectTable, NEW t \in StringTable,
           NEW p \in ObjectTable, NEW u, NEW q,
           Reads3(b, s, o, t, p, x), ReadsDense3(c, t, p, u, q, k, xs)
    PROVE  ReadsDense3(b \o c, s, o, u, q, k + 1, <<x>> \o xs)
<1> SUFFICES ASSUME NEW rest \in Seq(Byte), NEW m \in Nat, m > Len(b \o c) + 1
             PROVE  Decoding3[m].dense[k + 1][At3((b \o c) \o rest, s, o)]
                      = Ok(At3(rest, u, q), <<x>> \o xs)
  BY DEF ReadsDense3
<1>1. (b \o c) \o rest = b \o (c \o rest) /\ b \o (c \o rest) \in Seq(Byte) /\ c \o rest \in Seq(Byte)
  <2>1. Join3(b, c, rest)
    BY JoinThree
  <2> QED
    BY <2>1, Zenon DEF Join3
<1>2. Len(b \o c) = Len(b) + Len(c) /\ Len(b) \in Nat /\ Len(c) \in Nat /\ Len(b) # 0
  <2>1. Join2(b, c)
    BY JoinTwo
  <2> QED
    BY <2>1, EmptySeq DEF Reads3, Join2
<1>3. m - 1 \in Nat /\ m # 0 /\ m - 1 > Len(b) /\ m - 1 > Len(c) + 1 /\ k + 1 \in Nat
  BY <1>2
<1> DEFINE i == Decoding3[m - 1]
           y == b \o (c \o rest)
           z == c \o rest
           d == At3(y, s, o)
           e == At3(z, t, p)
           f == At3(rest, u, q)
<1>4. Decoding3[m].dense[k + 1][d] = DecodeDense(i, d, k + 1)
  <2>1. y \in Seq(Byte)
    BY <1>1
  <2> HIDE DEF y
  <2>2. d \in Decoder3
    BY <2>1, AtType3
  <2> HIDE DEF d
  <2> QED BY <1>3, <2>2, Decoding3Steps
<1>5. i.value[d] = Ok(e, x)
  <2>1. z \in Seq(Byte)
    BY <1>1
  <2> HIDE DEF z
  <2>2. Decoding3[m - 1].value[At3(b \o z, s, o)] = Ok(At3(z, t, p), x)
    BY <1>3, <2>1 DEF Reads3
  <2> QED BY <2>2, Zenon DEF z
<1>6. i.dense[k][e] = Ok(f, xs)
  BY <1>3 DEF ReadsDense3
<1>7. e.ok /\ f.ok
  BY AtHas
<1>8. (b \o c) \o rest = y
  BY <1>1
<1> HIDE DEF i, y, z, d, e, f
<1>9. DecodeDense(i, d, k + 1) = Ok(f, <<x>> \o xs)
  <2>1. i.value[d] = Ok(e, x) /\ e.ok /\ i.dense[k][e] = Ok(f, xs) /\ f.ok
    BY <1>5, <1>6, <1>7
  <2> DEFINE j == k + 1
  <2>2. j = k + 1 /\ k \in Nat
    OBVIOUS
  <2> HIDE DEF j
  <2>3. DecodeDense(i, d, j) = Ok(f, <<x>> \o xs)
    BY <2>1, <2>2, DenseRound3, Z3T(40)
  <2> QED BY <2>3 DEF j
<1>10. Decoding3[m].dense[k + 1][d] = Ok(f, <<x>> \o xs)
  BY <1>4, <1>9
<1> QED
  BY <1>10, <1>8, Zenon DEF d, f

\* No pairs but the empty key, and one more.
LEMMA ReadsNoPair3 ==
    ASSUME NEW b \in Seq(Byte), NEW s \in StringTable, NEW o \in ObjectTable, NEW t \in StringTable,
           ReadsString3(b, s, t, <<>>)
    PROVE  ReadsPairs3(b, s, o, t, o, <<>>)
<1> SUFFICES ASSUME NEW rest \in Seq(Byte), NEW m \in Nat, m > Len(b)
             PROVE  Decoding3[m].pairs[At3(b \o rest, s, o)] = Ok(At3(rest, t, o), <<>>)
  BY DEF ReadsPairs3
<1> DEFINE y == b \o rest
           d == At3(y, s, o)
           e == At3(rest, t, o)
           i == Decoding3[m - 1]
<1>1. y \in Seq(Byte)
  BY JoinedRest
<1>2. Decoding3[m].pairs[d] = DecodePairs3(i, d)
  <2>1. m # 0
    OBVIOUS
  <2> HIDE DEF y
  <2>2. d \in Decoder3
    BY <1>1, AtType3
  <2> HIDE DEF d
  <2> QED BY <2>1, <2>2, Decoding3Steps
<1>3. ReadStringWithReference(d) = Ok(e, <<>>)
  BY DEF ReadsString3
<1>4. e.ok
  BY AtHas
<1> HIDE DEF y, d, e, i
<1>5. DecodePairs3(i, d) = Ok(e, <<>>)
  BY <1>3, <1>4, PairsRound3, ZenonT(60)
<1>6. Decoding3[m].pairs[d] = Ok(e, <<>>)
  BY <1>2, <1>5
<1> QED
  BY <1>6, Zenon DEF d, e, y

\* A key and its value, then other pairs.
LEMMA ReadsOnePair3 ==
    ASSUME NEW a \in Seq(Byte), NEW key, key # <<>>,
           NEW b \in Seq(Byte), NEW c \in Seq(Byte), NEW x, NEW xs,
           NEW r \in StringTable, NEW s \in StringTable, NEW t \in StringTable, NEW u,
           NEW o \in ObjectTable, NEW p \in ObjectTable, NEW q,
           ReadsString3(a, r, s, key), Reads3(b, s, o, t, p, x), ReadsPairs3(c, t, p, u, q, xs)
    PROVE  ReadsPairs3((a \o b) \o c, r, o, u, q, <<<<key, x>>>> \o xs)
<1>a. SUFFICES ASSUME NEW rest \in Seq(Byte), NEW m \in Nat, m > Len((a \o b) \o c)
      PROVE  Decoding3[m].pairs[At3(((a \o b) \o c) \o rest, r, o)]
               = Ok(At3(rest, u, q), <<<<key, x>>>> \o xs)
  BY DEF ReadsPairs3
<1> DEFINE tail == c \o rest
           z == b \o tail
           y == a \o z
           i == Decoding3[m - 1]
           d == At3(y, r, o)
           e == At3(z, s, o)
           f == At3(tail, t, p)
           g == At3(rest, u, q)
<1>1. tail \in Seq(Byte) /\ z \in Seq(Byte) /\ y \in Seq(Byte) /\ ((a \o b) \o c) \o rest = y
  <2>1. Join4(a, b, c, rest)
    BY JoinFour
  <2> QED
    BY <2>1, Zenon DEF Join4
<1>2. /\ Len((a \o b) \o c) = Len(a) + Len(b) + Len(c)
      /\ Len(a) \in Nat /\ Len(b) \in Nat /\ Len(c) \in Nat
  <2>1. Join3(a, b, c)
    BY JoinThree
  <2> QED
    BY <2>1, Zenon DEF Join3
<1>0. Len(a) # 0
  BY EmptySeq DEF ReadsString3
<1>3. m - 1 \in Nat /\ m # 0 /\ m - 1 > Len(b) /\ m - 1 > Len(c)
  <2> DEFINE l == Len((a \o b) \o c)
  <2>1. l = Len(a) + Len(b) + Len(c) /\ m > l
    BY <1>2, <1>a
  <2> HIDE DEF l
  <2> QED BY <1>0, <1>2, <2>1
<1>4. Decoding3[m].pairs[d] = DecodePairs3(i, d)
  <2> HIDE DEF y
  <2>2. d \in Decoder3
    BY <1>1, AtType3
  <2> HIDE DEF d
  <2> QED BY <1>3, <2>2, Decoding3Steps
<1>5. ReadStringWithReference(d) = Ok(e, key)
  <2> HIDE DEF z
  <2> QED BY <1>1 DEF ReadsString3
<1>6. i.value[e] = Ok(f, x)
  <2> HIDE DEF tail
  <2> QED BY <1>1, <1>3 DEF Reads3
<1>7. i.pairs[f] = Ok(g, xs)
  BY <1>3 DEF ReadsPairs3
<1>8. e.ok /\ f.ok /\ g.ok
  BY AtHas
<1> HIDE DEF i, y, z, tail, d, e, f, g
<1>9. DecodePairs3(i, d) = Ok(g, <<<<key, x>>>> \o xs)
  BY <1>5, <1>6, <1>7, <1>8, PairsRound3
<1>10. Decoding3[m].pairs[d] = Ok(g, <<<<key, x>>>> \o xs)
  BY <1>4, <1>9
<1> QED
  BY <1>1, <1>10, Zenon DEF d, g

\* Powers of two.
LEMMA Powers == /\ TwoTo24 \in Nat /\ TwoTo28 \in Nat /\ 2 * TwoTo24 + 2 < TwoTo28
                /\ TwoTo24 > 11
BY DEF TwoTo24, TwoTo21, TwoTo28

\* A decoder that has read n bytes more.
LEMMA SkipGives ==
    ASSUME NEW a \in Seq(Byte), NEW rest \in Seq(Byte), NEW s, NEW o, NEW n, n = Len(a)
    PROVE  [At3(a \o rest, s, o) EXCEPT !.in = SubSeq(@, n + 1, Len(@))] = At3(rest, s, o)
<1> DEFINE y == a \o rest
<1>1. SubSeq(y, n + 1, Len(y)) = rest
  BY JoinedRest
<1>2. At3(y, s, o).in = y
  <2> HIDE DEF y
  <2> QED BY DEF At3
<1> HIDE DEF y
<1>3. [At3(y, s, o) EXCEPT !.in = rest] = At3(rest, s, o)
  BY OnlyIn3
<1>4. [At3(y, s, o) EXCEPT !.in = SubSeq(y, n + 1, Len(y))] = At3(rest, s, o)
  BY <1>1, <1>3
<1>5. [At3(y, s, o) EXCEPT !.in = SubSeq(@, n + 1, Len(@))]
        = [At3(y, s, o) EXCEPT !.in = SubSeq(y, n + 1, Len(y))]
  BY <1>2
<1> QED
  BY <1>4, <1>5 DEF y

\* Every number of 29 bits is read back.
LEMMA ReadNumberGives ==
    ASSUME NEW n \in Int, -TwoTo28 <= n, n < TwoTo28
    PROVE  /\ WriteU29(n) \in Seq(Byte) /\ WriteU29(n) # <<>>
           /\ \A rest \in Seq(Byte) : \A s, o :
                ReadNumber(At3(WriteU29(n) \o rest, s, o)) = Ok(At3(rest, s, o), n)
<1> DEFINE a == WriteU29(n)
<1>1. a \in Seq(Byte) /\ SaysItsEnd(a)
  BY WritesAGroup
<1>2. Len(a) # 0 /\ a # <<>>
  BY <1>1 DEF SaysItsEnd
<1>3. ASSUME NEW rest \in Seq(Byte), NEW s, NEW o
      PROVE  ReadNumber(At3(a \o rest, s, o)) = Ok(At3(rest, s, o), n)
  <2>1. U29Length(a \o rest) = Len(a) /\ ReadU29(a \o rest) = n
    BY U29RoundTrip
  <2> DEFINE y == a \o rest
             d == At3(y, s, o)
             k == Len(a)
  <2>2. d.in = y
    <3> HIDE DEF y
    <3> QED BY DEF At3
  <2>3. [d EXCEPT !.in = SubSeq(@, k + 1, Len(@))] = At3(rest, s, o)
    <3>1. \A l : l = Len(a) => [At3(a \o rest, s, o) EXCEPT !.in = SubSeq(@, l + 1, Len(@))] = At3(rest, s, o)
      <4> HIDE DEF a
      <4> QED BY <1>1, SkipGives, SMTT(40)
    <3> HIDE DEF a
    <3> QED BY <3>1, Zenon
  <2>4. U29Length(y) = k /\ ReadU29(y) = n /\ k # 0
    BY <1>2, <2>1
  <2> HIDE DEF y, d, k, a
  <2>5. [d EXCEPT !.in = SubSeq(@, U29Length(@) + 1, Len(@))]
          = [d EXCEPT !.in = SubSeq(@, k + 1, Len(@))]
    BY <2>2, <2>4
  <2>6. ReadNumber(d) = Ok(At3(rest, s, o), n)
    BY <2>2, <2>3, <2>4, <2>5, Zenon DEF ReadNumber
  <2> QED
    BY <2>6, Zenon DEF d, y
<1> QED
  BY <1>1, <1>2, <1>3, Zenon DEF a

\* Where a table has x, if it has.
LEMMA IndexIs ==
    ASSUME NEW S, NEW table \in Seq(S), NEW x
    PROVE  /\ IndexOf(table, x) \in -1 .. Len(table) - 1
           /\ IndexOf(table, x) >= 0 => table[IndexOf(table, x) + 1] = x
           /\ ~(IndexOf(table, x) >= 0) => \A i \in DOMAIN table : table[i] # x
<1> DEFINE I == {i \in 1 .. Len(table) : table[i] = x}
<1>1. IndexOf(table, x) = (IF I # {} THEN Min(I) ELSE 0) - 1
  BY DEF IndexOf, SelectInSeq
<1>2. I \in SUBSET Nat /\ Len(table) \in Nat /\ DOMAIN table = 1 .. Len(table)
  OBVIOUS
<1>3. CASE I # {}
  <2>1. \E n \in I : \A m \in I : n <= m
    <3> HIDE DEF I
    <3> QED BY <1>2, <1>3, LeastNatural
  <2>2. Min(I) \in I
    <3> HIDE DEF I
    <3> QED BY <2>1 DEF Min
  <2>3. IndexOf(table, x) = Min(I) - 1
    BY <1>1, <1>3
  <2> DEFINE k == Min(I)
  <2>4. k \in 1 .. Len(table) /\ table[k] = x
    BY <2>2
  <2> HIDE DEF k
  <2>5. (k - 1) + 1 = k /\ k - 1 \in -1 .. Len(table) - 1 /\ k - 1 >= 0
    BY <1>2, <2>4
  <2> QED
    BY <2>3, <2>4, <2>5 DEF k
<1>4. CASE I = {}
  <2>1. IndexOf(table, x) = -1
    BY <1>1, <1>4
  <2>2. \A i \in DOMAIN table : table[i] # x
    BY <1>2, <1>4
  <2> QED
    BY <1>2, <2>1, <2>2
<1> QED
  BY <1>3, <1>4

-----------------------------------------------------------------------------
(* AMF3: strings and their table.                                          *)

\* An encoder whose tables have less in them than was written.
Good3 == {e \in Encoder3 : Len(e.strs) <= Len(e.out) /\ Len(e.objs) <= Len(e.out)}

Same3(e, f) == f.strs = e.strs /\ f.objs = e.objs

\* The fields of a good encoder.
LEMMA GoodHas3 ==
    ASSUME NEW e \in Good3
    PROVE  /\ e.out \in Seq(Byte) /\ e.strs \in StringTable /\ e.objs \in Seq(Bits) /\ e.ok \in BOOLEAN
           /\ Len(e.strs) <= Len(e.out) /\ Len(e.objs) <= Len(e.out) /\ e \in Encoder3
           /\ Len(e.out) \in Nat /\ Len(e.strs) \in Nat /\ Len(e.objs) \in Nat
BY DEF Good3, Encoder3, StringTable

\* What makes an encoder good.
LEMMA GoodIs3 ==
    ASSUME NEW e \in Encoder3, Len(e.strs) <= Len(e.out), Len(e.objs) <= Len(e.out)
    PROVE  e \in Good3
BY DEF Good3

\* What writing leaves of an encoder.
LEMMA WriteFields3 ==
    ASSUME NEW e \in Encoder3, NEW b \in Seq(Byte)
    PROVE  /\ Write(e, b) \in Encoder3 /\ Write(e, b).out = e.out \o b /\ Write(e, b).ok = e.ok
           /\ Write(e, b).strs = e.strs /\ Write(e, b).objs = e.objs
           /\ Unsupported(e) \in Encoder3 /\ Unsupported(e).out = e.out /\ Unsupported(e).ok = FALSE
           /\ Unsupported(e).strs = e.strs /\ Unsupported(e).objs = e.objs
<1>1. e.out \o b \in Seq(Byte)
  BY JoinedRest DEF Encoder3
<1> QED
  BY <1>1 DEF Write, Unsupported, Encoder3

\* Writing, and giving up, keep an encoder good and its tables as they are.
LEMMA WriteHas3 ==
    ASSUME NEW e \in Good3, NEW b \in Seq(Byte)
    PROVE  /\ Write(e, b) \in Good3 /\ Write(e, b).out = e.out \o b /\ Write(e, b).ok = e.ok
           /\ Same3(e, Write(e, b))
           /\ Unsupported(e) \in Good3 /\ Unsupported(e).out = e.out /\ Unsupported(e).ok = FALSE
           /\ Same3(e, Unsupported(e))
<1>1. e \in Encoder3 /\ Len(e.strs) <= Len(e.out) /\ Len(e.objs) <= Len(e.out) /\ e.out \in Seq(Byte)
  BY GoodHas3
<1>2. /\ Write(e, b) \in Encoder3 /\ Write(e, b).out = e.out \o b /\ Write(e, b).ok = e.ok
      /\ Write(e, b).strs = e.strs /\ Write(e, b).objs = e.objs
      /\ Unsupported(e) \in Encoder3 /\ Unsupported(e).out = e.out /\ Unsupported(e).ok = FALSE
      /\ Unsupported(e).strs = e.strs /\ Unsupported(e).objs = e.objs
  BY <1>1, WriteFields3
<1>3. /\ Len(e.out \o b) = Len(e.out) + Len(b) /\ Len(e.out) \in Nat /\ Len(b) \in Nat
      /\ Len(e.strs) \in Nat /\ Len(e.objs) \in Nat
  <2>1. Join2(e.out, b)
    BY <1>1, JoinTwo
  <2> QED BY <2>1, GoodHas3 DEF Join2
<1>4. Len(e.strs) <= Len(e.out \o b) /\ Len(e.objs) <= Len(e.out \o b)
  BY <1>1, <1>3
<1>5. Write(e, b) \in Good3
  <2> DEFINE f == Write(e, b)
  <2>1. f \in Encoder3 /\ Len(f.strs) <= Len(f.out) /\ Len(f.objs) <= Len(f.out)
    BY <1>2, <1>4
  <2> HIDE DEF f
  <2>2. f \in Good3
    BY <2>1, GoodIs3
  <2> QED BY <2>2 DEF f
<1>6. Unsupported(e) \in Good3
  <2> DEFINE f == Unsupported(e)
  <2>1. f \in Encoder3 /\ Len(f.strs) <= Len(f.out) /\ Len(f.objs) <= Len(f.out)
    BY <1>1, <1>2
  <2> HIDE DEF f
  <2>2. f \in Good3
    BY <2>1, GoodIs3
  <2> QED BY <2>2 DEF f
<1> QED
  BY <1>2, <1>5, <1>6 DEF Same3

\* The first time a string is written it is entered in the table.
Entering(e, s) == Write(WriteNumber([e EXCEPT !.strs = Append(@, s)], 2 * Len(s) + 1), s)

\* A string that is entered stands in the table, and has its length and bytes written.
LEMMA EnteringHas ==
    ASSUME NEW e \in Good3, NEW s \in Seq(Byte)
    PROVE  LET f == Entering(e, s)
           IN  /\ f \in Good3 /\ f.ok = e.ok /\ f.objs = e.objs /\ f.strs = Append(e.strs, s)
               /\ f.out = e.out \o (WriteU29(2 * Len(s) + 1) \o s)
<1> DEFINE g == [e EXCEPT !.strs = Append(@, s)]
           n == 2 * Len(s) + 1
           a == WriteU29(n)
<1>1. /\ e \in Encoder3 /\ Len(e.strs) <= Len(e.out) /\ Len(e.objs) <= Len(e.out)
      /\ e.out \in Seq(Byte) /\ Len(e.out) \in Nat /\ Len(e.strs) \in Nat /\ Len(e.objs) \in Nat
      /\ e.strs \in Seq(Seq(Byte))
  BY GoodHas3 DEF StringTable
<1>2. n \in Int
  OBVIOUS
<1>3. a \in Seq(Byte) /\ Len(a) \in Nat /\ Len(a) >= 1
  <2> HIDE DEF n
  <2>1. a \in Seq(Byte) /\ SaysItsEnd(a)
    BY <1>2, WritesAGroup
  <2> HIDE DEF a
  <2> QED BY <2>1 DEF SaysItsEnd
<1>4. Append(e.strs, s) \in Seq(Seq(Byte)) /\ Len(Append(e.strs, s)) = Len(e.strs) + 1
  BY <1>1
<1>5. g \in Encoder3 /\ g.strs = Append(e.strs, s) /\ g.out = e.out /\ g.objs = e.objs /\ g.ok = e.ok
  BY <1>1, <1>4 DEF Encoder3
<1> HIDE DEF g, n, a
<1>6. /\ Write(g, a) \in Encoder3 /\ Write(g, a).out = e.out \o a /\ Write(g, a).ok = e.ok
      /\ Write(g, a).strs = Append(e.strs, s) /\ Write(g, a).objs = e.objs
  <2>1. g \in Encoder3
    BY <1>5
  <2>2. /\ Write(g, a) \in Encoder3 /\ Write(g, a).out = g.out \o a /\ Write(g, a).ok = g.ok
        /\ Write(g, a).strs = g.strs /\ Write(g, a).objs = g.objs
    BY <1>3, <2>1, WriteFields3
  <2> QED
    BY <1>5, <2>2
<1> DEFINE h == Write(g, a)
           f == Write(h, s)
<1>7. h \in Encoder3 /\ h.out = e.out \o a /\ h.ok = e.ok /\ h.strs = Append(e.strs, s) /\ h.objs = e.objs
  BY <1>6
<1> HIDE DEF h
<1>8. f \in Encoder3 /\ f.out = h.out \o s /\ f.ok = h.ok /\ f.strs = h.strs /\ f.objs = h.objs
  BY <1>7, WriteFields3
<1> HIDE DEF f
<1>9. /\ (e.out \o a) \o s = e.out \o (a \o s)
      /\ Len((e.out \o a) \o s) = Len(e.out) + Len(a) + Len(s) /\ Len(s) \in Nat
  <2> DEFINE x == e.out
  <2>1. x \in Seq(Byte)
    BY <1>1
  <2> HIDE DEF x
  <2>2. Join3(x, a, s)
    BY <1>3, <2>1, JoinThree
  <2>3. (x \o a) \o s = x \o (a \o s) /\ Len((x \o a) \o s) = Len(x) + Len(a) + Len(s) /\ Len(s) \in Nat
    BY <2>2, Zenon DEF Join3
  <2> QED
    BY <2>3 DEF x
<1>10. f.out = e.out \o (a \o s) /\ Len(f.out) = Len(e.out) + Len(a) + Len(s)
  BY <1>7, <1>8, <1>9
<1>11. f \in Good3
  <2>1. Len(f.strs) = Len(e.strs) + 1 /\ f.objs = e.objs
    BY <1>4, <1>7, <1>8
  <2>2. Len(f.strs) <= Len(f.out) /\ Len(f.objs) <= Len(f.out)
    BY <1>1, <1>3, <1>9, <1>10, <2>1
  <2> QED
    BY <1>8, <2>2, GoodIs3
<1>12. f = Entering(e, s)
  BY Zenon DEF Entering, f, h, g, a, n, WriteNumber
<1> QED
  BY <1>7, <1>8, <1>10, <1>11, <1>12 DEF a, n

\* A decoder that enters a string, or an object.
LEMMA OnlyStrings3 ==
    ASSUME NEW x, NEW t, NEW o, NEW s
    PROVE  /\ [At3(x, t, o) EXCEPT !.strs = Append(@, s)] = At3(x, Append(t, s), o)
           /\ [At3(x, o, t) EXCEPT !.objs = Append(@, s)] = At3(x, o, Append(t, s))
<1> DEFINE ok == TRUE
           u == Append(t, s)
           d == At3(x, t, o)
           e == At3(x, o, t)
<1>1. d.strs = t /\ e.objs = t
  BY DEF At3
<1> HIDE DEF ok, u
<1>2. [[in |-> x, strs |-> t, objs |-> o, ok |-> ok] EXCEPT !.strs = u]
        = [in |-> x, strs |-> u, objs |-> o, ok |-> ok]
  OBVIOUS
<1>3. [[in |-> x, strs |-> o, objs |-> t, ok |-> ok] EXCEPT !.objs = u]
        = [in |-> x, strs |-> o, objs |-> u, ok |-> ok]
  OBVIOUS
<1>4. [d EXCEPT !.strs = u] = At3(x, u, o) /\ [e EXCEPT !.objs = u] = At3(x, o, u)
  BY <1>2, <1>3, Zenon DEF At3, ok
<1> HIDE DEF d, e
<1>5. /\ [d EXCEPT !.strs = Append(@, s)] = [d EXCEPT !.strs = u]
      /\ [e EXCEPT !.objs = Append(@, s)] = [e EXCEPT !.objs = u]
  BY <1>1 DEF u
<1>6. /\ [d EXCEPT !.strs = Append(@, s)] = At3(x, u, o)
      /\ [e EXCEPT !.objs = Append(@, s)] = At3(x, o, u)
  BY <1>4, <1>5
<1> QED
  BY <1>6 DEF d, e, u

\* A string is read from one of three forms.
LEMMA ReadsEmpty3 ==
    ASSUME NEW t
    PROVE  WriteU29(1) \in Seq(Byte) /\ ReadsString3(WriteU29(1), t, t, <<>>)
<1>1. 1 \in Int /\ -TwoTo28 <= 1 /\ 1 < TwoTo28
  BY Powers
<1> DEFINE n == 1
<1> HIDE DEF n
<1>2. n \in Int /\ -TwoTo28 <= n /\ n < TwoTo28 /\ n = 1
  BY <1>1 DEF n
<1>3. /\ WriteU29(n) \in Seq(Byte) /\ WriteU29(n) # <<>>
      /\ \A rest \in Seq(Byte) : \A s, o :
           ReadNumber(At3(WriteU29(n) \o rest, s, o)) = Ok(At3(rest, s, o), n)
  BY <1>2, ReadNumberGives
<1>4. ASSUME NEW rest \in Seq(Byte), NEW o
      PROVE  ReadStringWithReference(At3(WriteU29(n) \o rest, t, o)) = Ok(At3(rest, t, o), <<>>)
  <2> DEFINE d == At3(WriteU29(n) \o rest, t, o)
             e == At3(rest, t, o)
  <2>1. ReadNumber(d) = Ok(e, n)
    BY <1>3
  <2>2. e.ok
    BY AtHas
  <2>3. ~Refers(n)
    BY <1>2 DEF Refers
  <2>4. Ok(e, n).d = e /\ Ok(e, n).val = n
    BY OkHas
  <2> HIDE DEF d, e
  <2>5. ReadStringWithReference(d) = Ok(e, <<>>)
    BY <1>2, <2>1, <2>2, <2>3, <2>4, Zenon DEF ReadStringWithReference, Bind
  <2> QED
    BY <2>5, Zenon DEF d, e
<1>5. WriteU29(n) \in Seq(Byte) /\ ReadsString3(WriteU29(n), t, t, <<>>)
  BY <1>3, <1>4 DEF ReadsString3
<1> QED
  BY <1>5 DEF n

\* A string by its number in the table.
LEMMA ReadsKnown3 ==
    ASSUME NEW t \in StringTable, NEW k \in 0 .. Len(t) - 1, 2 * k < TwoTo28
    PROVE  WriteU29(2 * k) \in Seq(Byte) /\ ReadsString3(WriteU29(2 * k), t, t, t[k + 1])
<1> DEFINE n == 2 * k
<1>2. n \in Int /\ -TwoTo28 <= n /\ n < TwoTo28 /\ n % 2 = 0 /\ n \div 2 = k
  BY Powers
<1> HIDE DEF n
<1>3. /\ WriteU29(n) \in Seq(Byte) /\ WriteU29(n) # <<>>
      /\ \A rest \in Seq(Byte) : \A s, o :
           ReadNumber(At3(WriteU29(n) \o rest, s, o)) = Ok(At3(rest, s, o), n)
  BY <1>2, ReadNumberGives
<1>4. ASSUME NEW rest \in Seq(Byte), NEW o
      PROVE  ReadStringWithReference(At3(WriteU29(n) \o rest, t, o)) = Ok(At3(rest, t, o), t[k + 1])
  <2> DEFINE d == At3(WriteU29(n) \o rest, t, o)
             e == At3(rest, t, o)
  <2>1. ReadNumber(d) = Ok(e, n)
    BY <1>3
  <2>2. e.ok /\ e.strs = t
    BY DEF At3
  <2>3. Refers(n) /\ n \div 2 = k
    BY <1>2 DEF Refers
  <2>4. Ok(e, n).d = e /\ Ok(e, n).val = n
    BY OkHas
  <2> HIDE DEF d, e
  <2>5. ReadStringWithReference(d) = Entry(e, t, k)
    BY <2>1, <2>2, <2>3, <2>4, Zenon DEF ReadStringWithReference, Bind
  <2>6. Entry(e, t, k) = Ok(e, t[k + 1])
    BY Zenon DEF Entry
  <2>7. ReadStringWithReference(d) = Ok(e, t[k + 1])
    BY <2>5, <2>6
  <2> QED
    BY <2>7, Zenon DEF d, e
<1>5. WriteU29(n) \in Seq(Byte) /\ ReadsString3(WriteU29(n), t, t, t[k + 1])
  BY <1>3, <1>4 DEF ReadsString3
<1> QED
  BY <1>5 DEF n

\* A string that is entered, by length and bytes.
LEMMA ReadsNew3 ==
    ASSUME NEW t \in StringTable, NEW s \in Seq(Byte), s # <<>>, 2 * Len(s) + 1 < TwoTo28
    PROVE  /\ WriteU29(2 * Len(s) + 1) \o s \in Seq(Byte)
           /\ ReadsString3(WriteU29(2 * Len(s) + 1) \o s, t, Append(t, s), s)
<1> DEFINE l == Len(s)
           n == 2 * l + 1
           a == WriteU29(n)
<1>1. l \in Nat /\ l # 0
  BY EmptySeq
<1>2. n \in Int /\ -TwoTo28 <= n /\ n < TwoTo28 /\ n % 2 # 0 /\ n \div 2 = l /\ n # 1
  <2> HIDE DEF l
  <2> QED BY <1>1, Powers DEF l
<1>l. 2 * Len(s) + 1 = n
  OBVIOUS
<1> HIDE DEF n
<1>3. /\ a \in Seq(Byte) /\ a # <<>>
      /\ \A rest \in Seq(Byte) : \A u, o :
           ReadNumber(At3(a \o rest, u, o)) = Ok(At3(rest, u, o), n)
  BY <1>2, ReadNumberGives
<1> HIDE DEF a
<1>4. ASSUME NEW rest \in Seq(Byte), NEW o
      PROVE  ReadStringWithReference(At3((a \o s) \o rest, t, o)) = Ok(At3(rest, Append(t, s), o), s)
  <2> DEFINE y == s \o rest
             d == At3(a \o y, t, o)
             e == At3(y, t, o)
             f == At3(rest, t, o)
             g == At3(rest, Append(t, s), o)
  <2>0. y \in Seq(Byte) /\ (a \o s) \o rest = a \o y
    <3>1. Join3(a, s, rest)
      BY <1>3, JoinThree
    <3> QED BY <3>1, Zenon DEF Join3
  <2>1. ReadNumber(d) = Ok(e, n)
    <3> HIDE DEF y
    <3> QED BY <1>3, <2>0
  <2>2. e.ok /\ f.ok /\ f.strs = t
    BY DEF At3
  <2>3. ~Refers(n) /\ n \div 2 = l /\ n # 1
    BY <1>2 DEF Refers
  <2>4. /\ Ok(e, n).d = e /\ Ok(e, n).val = n
        /\ Ok(f, s).d = f /\ Ok(f, s).val = s
    BY OkHas
  <2>5. Take(e, l) = Ok(f, s)
    <3>1. \A m : m = Len(s) => Take(At3(s \o rest, t, o), m) = Ok(At3(rest, t, o), s)
      BY TakeGives
    <3> QED BY <3>1, Zenon
  <2>6. [f EXCEPT !.strs = Append(@, s)] = g
    BY OnlyStrings3
  <2>7. (a \o s) \o rest = a \o y
    BY <2>0
  <2> HIDE DEF d, e, f, g, y, l
  <2>8. ReadStringWithReference(d) = Ok(g, s)
    BY <2>1, <2>2, <2>3, <2>4, <2>5, <2>6, Zenon DEF ReadStringWithReference, Bind
  <2> QED
    BY <2>7, <2>8, Zenon DEF d, g
<1>5. a \o s \in Seq(Byte) /\ a \o s # <<>>
  <2>1. Join2(a, s)
    BY <1>3, JoinTwo
  <2>2. a \o s \in Seq(Byte) /\ Len(a \o s) = Len(a) + Len(s) /\ Len(a) \in Nat /\ Len(a) # 0
    BY <1>3, <2>1, EmptySeq DEF Join2
  <2> QED
    BY <1>1, <2>2, EmptySeq
<1>6. ReadsString3(a \o s, t, Append(t, s), s)
  BY <1>4, <1>5 DEF ReadsString3
<1> QED
  BY <1>5, <1>6, <1>l DEF a

\* What WriteStringWithReference writes is read, with a table like the encoder's.
StringHas3(e, f, s) ==
  /\ f \in Good3 /\ f.ok = e.ok /\ f.objs = e.objs
  /\ \E b \in Seq(Byte) : /\ f.out = e.out \o b
                          /\ Len(f.out) < TwoTo24 => ReadsString3(b, e.strs, f.strs, s)

\* writeStringWithReference: however the string is written, it is read.
LEMMA StringWritten3 ==
    ASSUME NEW e \in Good3, NEW s \in Seq(Byte)
    PROVE  StringHas3(e, WriteStringWithReference(e, s), s)
<1> DEFINE k == IndexOf(e.strs, s)
           f == WriteStringWithReference(e, s)
<1>0. /\ e.out \in Seq(Byte) /\ e.strs \in Seq(Seq(Byte)) /\ Len(e.out) \in Nat /\ Len(e.strs) \in Nat
      /\ Len(e.strs) <= Len(e.out) /\ e.strs \in StringTable
  BY GoodHas3 DEF StringTable
<1>1. k \in -1 .. Len(e.strs) - 1 /\ (k >= 0 => e.strs[k + 1] = s)
  BY <1>0, IndexIs
<1> HIDE DEF k
<1>2. CASE s = <<>>
  <2>1. f = Write(e, WriteU29(1))
    BY <1>2, Zenon DEF WriteStringWithReference, WriteNumber
  <2> DEFINE b == WriteU29(1)
  <2>2. b \in Seq(Byte) /\ ReadsString3(b, e.strs, e.strs, s)
    BY <1>2, ReadsEmpty3
  <2> HIDE DEF b
  <2>3. /\ Write(e, b) \in Good3 /\ Write(e, b).out = e.out \o b /\ Write(e, b).ok = e.ok
        /\ Same3(e, Write(e, b))
    BY <2>2, WriteHas3
  <2>4. f = Write(e, b)
    BY <2>1 DEF b
  <2> HIDE DEF f
  <2>5. StringHas3(e, f, s)
    BY <2>2, <2>3, <2>4 DEF StringHas3, Same3
  <2> QED BY <2>5 DEF f
<1>3. CASE s # <<>> /\ k >= 0
  <2>1. f = Write(e, WriteU29(2 * k))
    BY <1>3, Zenon DEF WriteStringWithReference, WriteNumber, k
  <2> DEFINE b == WriteU29(2 * k)
  <2>0. k \in 0 .. Len(e.strs) - 1
    BY <1>0, <1>1, <1>3
  <2>2. b \in Seq(Byte)
    <3>1. 2 * k \in Int
      BY <2>0
    <3> QED BY <3>1, WritesAGroup
  <2> HIDE DEF b
  <2>3. /\ Write(e, b) \in Good3 /\ Write(e, b).out = e.out \o b /\ Write(e, b).ok = e.ok
        /\ Same3(e, Write(e, b))
    BY <2>2, WriteHas3
  <2>4. f = Write(e, b)
    BY <2>1 DEF b
  <2> HIDE DEF f
  <2>5. ASSUME Len(f.out) < TwoTo24
        PROVE  ReadsString3(b, e.strs, f.strs, s)
    <3>1. Len(f.out) = Len(e.out) + Len(b) /\ Len(b) \in Nat
      <4>1. Join2(e.out, b)
        BY <1>0, <2>2, JoinTwo
      <4> QED BY <2>3, <2>4, <4>1 DEF Join2
    <3>2. 2 * k < TwoTo28
      BY <1>0, <2>0, <2>5, <3>1, Powers
    <3>3. ReadsString3(b, e.strs, e.strs, e.strs[k + 1])
      BY <1>0, <2>0, <3>2, ReadsKnown3 DEF b
    <3> QED
      BY <1>1, <1>3, <2>3, <2>4, <3>3 DEF Same3
  <2>6. StringHas3(e, f, s)
    BY <2>2, <2>3, <2>4, <2>5 DEF StringHas3, Same3
  <2> QED BY <2>6 DEF f
<1>4. CASE s # <<>> /\ ~(k >= 0)
  <2>1. f = Entering(e, s)
    BY <1>4, Zenon DEF WriteStringWithReference, Entering, k
  <2> DEFINE b == WriteU29(2 * Len(s) + 1) \o s
  <2>2. /\ f \in Good3 /\ f.ok = e.ok /\ f.objs = e.objs /\ f.strs = Append(e.strs, s)
        /\ f.out = e.out \o b
    <3> DEFINE g == Entering(e, s)
    <3>1. /\ g \in Good3 /\ g.ok = e.ok /\ g.objs = e.objs /\ g.strs = Append(e.strs, s)
          /\ g.out = e.out \o b
      BY EnteringHas
    <3> HIDE DEF f, g
    <3>2. f = g
      BY <2>1 DEF g
    <3> QED
      BY <3>1, <3>2
  <2>3. b \in Seq(Byte) /\ Len(b) >= Len(s) /\ Len(s) \in Nat /\ Len(b) \in Nat
    <3> DEFINE n == 2 * Len(s) + 1
               a == WriteU29(n)
    <3>1. n \in Int
      OBVIOUS
    <3> HIDE DEF n
    <3>2. a \in Seq(Byte)
      BY <3>1, WritesAGroup
    <3> HIDE DEF a
    <3>3. Join2(a, s)
      BY <3>2, JoinTwo
    <3>4. a \o s \in Seq(Byte) /\ Len(a \o s) >= Len(s) /\ Len(s) \in Nat /\ Len(a \o s) \in Nat
      BY <3>3 DEF Join2
    <3> QED BY <3>4 DEF a, n
  <2> HIDE DEF f, b
  <2>5. ASSUME Len(f.out) < TwoTo24
        PROVE  ReadsString3(b, e.strs, f.strs, s)
    <3>1. Len(f.out) = Len(e.out) + Len(b)
      <4>1. Join2(e.out, b)
        BY <1>0, <2>3, JoinTwo
      <4> QED BY <2>2, <4>1 DEF Join2
    <3>2. 2 * Len(s) + 1 < TwoTo28
      BY <1>0, <2>3, <2>5, <3>1, Powers
    <3>3. ReadsString3(b, e.strs, Append(e.strs, s), s)
      BY <1>0, <1>4, <3>2, ReadsNew3 DEF b
    <3> QED
      BY <2>2, <3>3
  <2>6. StringHas3(e, f, s)
    BY <2>2, <2>3, <2>5 DEF StringHas3
  <2> QED BY <2>6 DEF f
<1> QED
  BY <1>1, <1>2, <1>3, <1>4

-----------------------------------------------------------------------------
(* Dates and their table.  The decoder's table has arrays and objects as   *)
(* well: it agrees with the encoder's where it matters, if no date that is *)
(* repeated came after the first array or object.                          *)

Fit3 == {v \in AnyValue : Encodable3(v)}
Containers3 == {"slice", "map", "AMF3Object"}
Plain3 ==
  {v \in AnyValue : /\ <<>> \notin Keys(v) /\ v[1] \notin {"AMF3Date", "AMF3Array"}
                    /\ v[1] = "AMF3Integer" => v[2] \in MinInt .. MaxInt}

\* What is read of a date.
DateRead(t) == <<"AMF3Date", TimeFrom3(MillisOf(t))>>

\* Is date t in the table?
Known(objs, t) == \E i \in DOMAIN objs : objs[i] = t

\* The i-th value of w is a date that comes again, and is not in the table.
Recurs(objs, w, i) ==
  /\ i \in DOMAIN w /\ w[i][1] = "time" /\ ~Known(objs, w[i][2])
  /\ \A k \in 1 .. i - 1 : w[k] # w[i]
  /\ \E j \in DOMAIN w : i < j /\ w[j] = w[i]

\* Does x come in w?
Comes(w, x) == \E j \in DOMAIN w : w[j] = x

\* The tables are alike, and no container comes up to the i-th value of w.
Alike(objs, o, w, i) ==
  /\ Len(o) = Len(objs)
  /\ \A k \in 1 .. i : w[k][1] \notin Containers3

\* The tables agree on the dates that still come.
InTable(objs, o, w) ==
  \A i \in DOMAIN objs : Comes(w, <<"time", objs[i]>>) => o[i] = DateRead(objs[i])

\* Such a date comes before any container, and while the tables are alike.
Ordered(objs, o, w) ==
  \A i \in DOMAIN w : Recurs(objs, w, i) => Alike(objs, o, w, i)

\* The encoder's table of dates and the decoder's table, when the values in w are
\* still to come.
InStep(objs, o, w) ==
  /\ Len(objs) <= Len(o)
  /\ \A i \in DOMAIN objs :
       Comes(w, <<"time", objs[i]>>) => o[i] = DateRead(objs[i])
  /\ Ordered(objs, o, w)

\* One more in front of a sequence.
LEMMA OneMore ==
    ASSUME NEW S, NEW v \in S, NEW w \in Seq(S)
    PROVE  /\ <<v>> \o w \in Seq(S) /\ Len(<<v>> \o w) = Len(w) + 1 /\ Len(w) \in Nat
           /\ DOMAIN (<<v>> \o w) = 1 .. Len(w) + 1 /\ DOMAIN w = 1 .. Len(w)
           /\ (<<v>> \o w)[1] = v /\ \A k \in 1 .. Len(w) : (<<v>> \o w)[k + 1] = w[k]
OBVIOUS

\* If the dates are in order in a sequence, a date that recurs in what follows its first
\* member, and is not that member, recurs in order.
LEMMA OrderedRest ==
    ASSUME NEW v \in AnyValue, NEW w \in Seq(AnyValue), NEW objs, NEW o, Ordered(objs, o, <<v>> \o w),
           NEW i, Recurs(objs, w, i), w[i] # v
    PROVE  Alike(objs, o, w, i) /\ v[1] \notin Containers3
<1> DEFINE x == <<v>> \o w
           n == Len(w)
<1>1. /\ n \in Nat /\ DOMAIN x = 1 .. n + 1 /\ DOMAIN w = 1 .. n
      /\ x[1] = v /\ \A k \in 1 .. n : x[k + 1] = w[k]
  BY OneMore
<1>2. \A l \in DOMAIN x : Recurs(objs, x, l) =>
        Len(o) = Len(objs) /\ \A k \in 1 .. l : x[k][1] \notin Containers3
  BY DEF Ordered, Alike
<1> HIDE DEF x, n
<1>3. i \in 1 .. n /\ i + 1 \in 1 .. n + 1 /\ i + 1 \in DOMAIN x /\ x[i + 1] = w[i]
  BY <1>1 DEF Recurs
<1>4. Recurs(objs, x, i + 1)
  <2>1. x[i + 1][1] = "time" /\ ~Known(objs, x[i + 1][2])
    BY <1>3 DEF Recurs
  <2>2. ASSUME NEW k \in 1 .. (i + 1) - 1 PROVE x[k] # x[i + 1]
    <3>1. CASE k = 1
      BY <1>1, <1>3, <3>1
    <3>2. CASE k # 1
      <4>1. k - 1 \in 1 .. i - 1 /\ k - 1 \in 1 .. n /\ (k - 1) + 1 = k
        BY <1>1, <1>3, <3>2
      <4>2. x[(k - 1) + 1] = w[k - 1]
        BY <1>1, <4>1
      <4>3. w[k - 1] # w[i]
        BY <4>1 DEF Recurs
      <4> QED
        BY <1>3, <4>1, <4>2, <4>3
    <3> QED
      BY <3>1, <3>2
  <2>3. PICK j \in DOMAIN w : i < j /\ w[j] = w[i]
    BY DEF Recurs
  <2>4. j + 1 \in DOMAIN x /\ i + 1 < j + 1 /\ x[j + 1] = x[i + 1]
    BY <1>1, <1>3, <2>3
  <2> QED
    BY <1>3, <2>1, <2>2, <2>4 DEF Recurs
<1>5. Len(o) = Len(objs) /\ \A k \in 1 .. i + 1 : x[k][1] \notin Containers3
  BY <1>2, <1>3, <1>4
<1>6. v[1] \notin Containers3
  BY <1>1, <1>3, <1>5
<1>7. ASSUME NEW k \in 1 .. i PROVE w[k][1] \notin Containers3
  <2>1. k + 1 \in 1 .. i + 1 /\ k \in 1 .. n
    <3>1. n \in Nat
      BY <1>1
    <3> QED
      BY <1>3, <3>1
  <2> QED
    BY <1>1, <1>5, <2>1
<1> QED
  BY <1>5, <1>6, <1>7 DEF Alike

\* What comes in w comes in v and w.
LEMMA ComesLater ==
    ASSUME NEW v \in AnyValue, NEW w \in Seq(AnyValue), NEW x
    PROVE  Comes(w, x) => Comes(<<v>> \o w, x)
<1> SUFFICES ASSUME NEW j \in DOMAIN w, w[j] = x
             PROVE  \E l \in DOMAIN (<<v>> \o w) : (<<v>> \o w)[l] = x
  BY DEF Comes
<1>1. j + 1 \in DOMAIN (<<v>> \o w) /\ (<<v>> \o w)[j + 1] = x
  BY OneMore
<1> QED
  BY <1>1

\* The date at place i of the tables still comes, so the tables agree there.
LEMMA StillInTable ==
    ASSUME NEW v \in AnyValue, NEW w \in Seq(AnyValue), NEW objs, NEW o, InStep(objs, o, <<v>> \o w)
    PROVE  InTable(objs, o, w)
<1> SUFFICES ASSUME NEW i \in DOMAIN objs, Comes(w, <<"time", objs[i]>>)
             PROVE  o[i] = DateRead(objs[i])
  BY DEF InTable
<1> DEFINE y == <<v>> \o w
<1>1. Comes(y, <<"time", objs[i]>>)
  BY ComesLater, Zenon
<1>2. InStep(objs, o, y)
  OBVIOUS
<1> HIDE DEF y
<1> QED
  BY <1>1, <1>2 DEF InStep

\* A value that is neither a date nor a container leaves the tables in step.
LEMMA StepOther ==
    ASSUME NEW v \in AnyValue, NEW w \in Seq(AnyValue), NEW objs, NEW o, InStep(objs, o, <<v>> \o w),
           v[1] # "time"
    PROVE  InStep(objs, o, w)
<1>t. InTable(objs, o, w)
  BY StillInTable, Zenon
<1>1. Ordered(objs, o, <<v>> \o w)
  BY DEF InStep
<1>2. ASSUME NEW i \in DOMAIN w, Recurs(objs, w, i)
      PROVE  Alike(objs, o, w, i)
  <2>1. w[i] # v
    BY <1>2 DEF Recurs
  <2> QED
    BY <1>1, <1>2, <2>1, OrderedRest
<1>3. Ordered(objs, o, w)
  BY <1>2 DEF Ordered
<1>4. ASSUME NEW i \in DOMAIN objs, Comes(w, <<"time", objs[i]>>)
      PROVE  o[i] = DateRead(objs[i])
  BY <1>4, <1>t DEF InTable
<1>5. Len(objs) <= Len(o)
  BY DEF InStep
<1> QED
  BY <1>3, <1>4, <1>5 DEF InStep

\* So does a container that the decoder enters.
LEMMA StepContainer ==
    ASSUME NEW v \in AnyValue, NEW w \in Seq(AnyValue), NEW objs \in Seq(Bits), NEW o \in ObjectTable,
           InStep(objs, o, <<v>> \o w), v[1] \in Containers3, NEW x \in Tabled
    PROVE  InStep(objs, Append(o, x), w)
<1>t. InTable(objs, o, w)
  BY StillInTable, Zenon
<1>1. Ordered(objs, o, <<v>> \o w)
  BY DEF InStep
<1>0. v[1] # "time"
  BY DEF Containers3
<1>2. ASSUME NEW i \in DOMAIN w, Recurs(objs, w, i)
      PROVE  FALSE
  <2>1. w[i] # v
    BY <1>0, <1>2 DEF Recurs
  <2> QED
    BY <1>1, <1>2, <2>1, OrderedRest
<1>3. Ordered(objs, Append(o, x), w)
  BY <1>2 DEF Ordered
<1>4. /\ Len(Append(o, x)) = Len(o) + 1 /\ Len(o) \in Nat /\ Len(objs) \in Nat
      /\ \A i \in 1 .. Len(o) : Append(o, x)[i] = o[i]
      /\ DOMAIN objs = 1 .. Len(objs)
  BY DEF ObjectTable
<1>5. Len(objs) <= Len(o)
  BY DEF InStep
<1>6. ASSUME NEW i \in DOMAIN objs, Comes(w, <<"time", objs[i]>>)
      PROVE  Append(o, x)[i] = DateRead(objs[i])
  <2>1. o[i] = DateRead(objs[i])
    BY <1>6, <1>t DEF InTable
  <2>2. i \in 1 .. Len(o)
    BY <1>4, <1>5
  <2> QED
    BY <1>4, <2>1, <2>2
<1> QED
  BY <1>3, <1>4, <1>5, <1>6 DEF InStep

\* A date in the encoder's table is at the same place of the decoder's.
LEMMA StepKnown ==
    ASSUME NEW t, NEW v \in AnyValue, v = <<"time", t>>, NEW w \in Seq(AnyValue), NEW objs, NEW o,
           InStep(objs, o, <<v>> \o w), NEW i \in DOMAIN objs, objs[i] = t
    PROVE  o[i] = DateRead(t) /\ InStep(objs, o, w)
<1>t. InTable(objs, o, w)
  BY StillInTable, Zenon
<1>1. Ordered(objs, o, <<v>> \o w)
  BY DEF InStep
<1>2. ASSUME NEW l \in DOMAIN w, Recurs(objs, w, l)
      PROVE  Alike(objs, o, w, l)
  <2>1. w[l] # v
    BY <1>2 DEF Recurs, Known
  <2>2. Ordered(objs, o, <<v>> \o w) /\ Recurs(objs, w, l)
    BY <1>1, <1>2
  <2> QED
    BY <2>1, <2>2, OrderedRest, Zenon
<1>3. Ordered(objs, o, w)
  BY <1>2 DEF Ordered
<1>4. 1 \in DOMAIN (<<v>> \o w) /\ (<<v>> \o w)[1] = v
  BY OneMore
<1>5. o[i] = DateRead(t)
  <2> DEFINE x == <<v>> \o w
  <2> HIDE DEF x
  <2>1. 1 \in DOMAIN x /\ x[1] = <<"time", objs[i]>> /\ InStep(objs, o, x)
    BY <1>4 DEF x
  <2>2. Comes(x, <<"time", objs[i]>>)
    BY <2>1 DEF Comes
  <2>3. o[i] = DateRead(objs[i])
    BY <2>1, <2>2 DEF InStep
  <2> QED
    BY <2>3
<1>6. ASSUME NEW l \in DOMAIN objs, Comes(w, <<"time", objs[l]>>)
      PROVE  o[l] = DateRead(objs[l])
  BY <1>6, <1>t DEF InTable
<1>7. Len(objs) <= Len(o)
  BY DEF InStep
<1> QED
  BY <1>3, <1>5, <1>6, <1>7 DEF InStep

\* A date that is not is entered at the same place of both, if it comes again.
LEMMA StepNew ==
    ASSUME NEW t \in Bits, NEW v \in AnyValue, v = <<"time", t>>, NEW w \in Seq(AnyValue),
           NEW objs \in Seq(Bits), NEW o \in ObjectTable,
           InStep(objs, o, <<v>> \o w), ~Known(objs, t), NEW x \in Tabled, x = DateRead(t)
    PROVE  InStep(Append(objs, t), Append(o, x), w)
<1>9. InTable(objs, o, w)
  BY StillInTable, Zenon
<1> DEFINE p == Append(o, x)
           q == Append(objs, t)
           n == Len(objs)
           m == Len(o)
<1>1. Ordered(objs, o, <<v>> \o w) /\ n <= m
  BY DEF InStep
<1>2. /\ n \in Nat /\ m \in Nat /\ Len(p) = m + 1 /\ Len(q) = n + 1
      /\ DOMAIN objs = 1 .. n /\ DOMAIN q = 1 .. n + 1
      /\ \A i \in 1 .. m : p[i] = o[i]
      /\ \A i \in 1 .. n : q[i] = objs[i]
      /\ p[m + 1] = x /\ q[n + 1] = t
  BY DEF ObjectTable
<1> HIDE DEF p, q, n, m
<1>3. ASSUME NEW i \in DOMAIN w, Recurs(q, w, i)
      PROVE  Alike(q, p, w, i)
  <2>1. ~Known(q, w[i][2])
    BY <1>3 DEF Recurs
  <2>2. ~Known(objs, w[i][2]) /\ w[i][2] # t
    <3>1. n + 1 \in DOMAIN q /\ \A l \in 1 .. n : l \in DOMAIN q
      BY <1>2
    <3> QED
      BY <1>2, <2>1, <3>1 DEF Known
  <2>3. Recurs(objs, w, i) /\ w[i] # v
    BY <1>3, <2>2 DEF Recurs
  <2>4. Alike(objs, o, w, i)
    BY <1>1, <2>3, OrderedRest, Zenon
  <2> QED
    BY <1>2, <2>4 DEF Alike, m, n
<1>4. Ordered(q, p, w)
  BY <1>3 DEF Ordered
<1>5. ASSUME NEW i \in DOMAIN q, NEW j \in DOMAIN w, w[j] = <<"time", q[i]>>
      PROVE  p[i] = DateRead(q[i])
  <2>1. CASE i \in 1 .. n
    <3>0. q[i] = objs[i] /\ i \in DOMAIN objs
      BY <1>2, <2>1
    <3>1. o[i] = DateRead(objs[i])
      <4>1. Comes(w, <<"time", objs[i]>>)
        BY <1>5, <3>0 DEF Comes
      <4> QED
        BY <1>9, <3>0, <4>1 DEF InTable
    <3>2. i \in 1 .. m
      BY <1>1, <1>2, <2>1
    <3> QED
      BY <1>2, <3>0, <3>1, <3>2
  <2>2. CASE i \notin 1 .. n
    <3>1. i = n + 1 /\ w[j] = v
      BY <1>2, <1>5, <2>2
    <3> DEFINE y == <<v>> \o w
    <3>2. 1 \in DOMAIN y /\ y[1] = v /\ j + 1 \in DOMAIN y /\ y[j + 1] = w[j] /\ 1 < j + 1
      BY OneMore
    <3> HIDE DEF y
    <3>3. Recurs(objs, y, 1)
      <4>1. 1 .. 1 - 1 = {}
        OBVIOUS
      <4>2. \A k \in 1 .. 1 - 1 : y[k] # y[1]
        BY <4>1
      <4>3. \E l \in DOMAIN y : 1 < l /\ y[l] = y[1]
        BY <3>1, <3>2
      <4>4. y[1][1] = "time" /\ y[1][2] = t
        BY <3>2
      <4> QED
        BY <3>2, <4>2, <4>3, <4>4 DEF Recurs
    <3>4. m = n
      BY <1>1, <3>2, <3>3 DEF Ordered, Alike, y, m, n
    <3> QED
      BY <1>2, <3>1, <3>4
  <2> QED
    BY <2>1, <2>2
<1>6. Len(q) <= Len(p)
  BY <1>1, <1>2
<1>7. ASSUME NEW i \in DOMAIN q, Comes(w, <<"time", q[i]>>)
      PROVE  p[i] = DateRead(q[i])
  BY <1>5, <1>7 DEF Comes
<1>8. InStep(q, p, w)
  BY <1>4, <1>6, <1>7 DEF InStep
<1> QED
  BY <1>8 DEF p, q

\* After the marker, x is read from b.
ReadsMarked3(marker, b, s, o, t, p, x) ==
  \A rest \in Seq(Byte) : \A m \in Nat :
    m > Len(b) => DecodeMarked3(Decoding3[m], At3(b \o rest, s, o), marker) = Ok(At3(rest, t, p), x)

\* The handle n of an array or an object that is entered.
ReadsOpening3(b, s, o, t, p, n, tag) ==
  /\ b # <<>> /\ t = s /\ p = Append(o, <<tag>>)
  /\ \A rest \in Seq(Byte) : ReadNumber(At3(b \o rest, s, o)) = Ok(At3(rest, s, o), n)

\* A key and its value.
ReadsPair3(b, s, o, t, p, x) ==
  \E a, c \in Seq(Byte) : \E r \in StringTable :
    b = a \o c /\ ReadsString3(a, s, r, x[1]) /\ Reads3(c, r, o, t, p, x[2])

NoEmpty(pairs) == \A i \in DOMAIN pairs : pairs[i][1] # <<>>

\* The named elements of an array, and the others.
ReadsArray3(b, s, o, t, p, n, x) ==
  \E a, c \in Seq(Byte) : \E r \in StringTable : \E q \in ObjectTable :
    /\ b = a \o c
    /\ NoEmpty(x[1]) => ReadsPairs3(a, s, o, r, q, x[1])
    /\ ReadsDense3(c, r, q, t, p, n, x[2])

\* The class of an anonymous object, and its properties.
ReadsObject3(b, s, o, t, p, x) ==
  \E a, c \in Seq(Byte) : \E r \in StringTable :
    /\ b = a \o c /\ ReadsString3(a, s, r, <<>>)
    /\ NoEmpty(x) => ReadsPairs3(c, r, o, t, p, x)

\* What the values of a list are as Go's.
InGo(xs) == [j \in DOMAIN xs |-> ToGo3(xs[j])]

\* The parts of which what is written consists, by their kind; those that come
\* one after the other to the end of a message are the last of them.
ReadsAs(kind, n, b, s, o, t, p, x) ==
  /\ kind = "value" => Reads3(b, s, o, t, p, x)
  /\ kind = "marker" => b = <<n>> /\ t = s /\ p = o
  /\ kind = "marked" => ReadsMarked3(n, b, s, o, t, p, x)
  /\ kind = "opening" => ReadsOpening3(b, s, o, t, p, n, x)
  /\ kind = "key" => p = o /\ ReadsString3(b, s, t, x)
  /\ kind = "pair" => ReadsPair3(b, s, o, t, p, x)
  /\ kind = "pairs" => (NoEmpty(x) => ReadsPairs3(b, s, o, t, p, x))
  /\ kind = "dense" => ReadsDense3(b, s, o, t, p, n, x)
  /\ kind = "array" => ReadsArray3(b, s, o, t, p, n, x)
  /\ kind = "object" => ReadsObject3(b, s, o, t, p, x)
  /\ kind = "rest" => ReadsAll(3, b, s, o, InGo(x))

\* b, which was written from e to f, is read with tables that are in step.
ReadsAfter(kind, n, e, f, visited, x, b) ==
  \A w \in Seq(AnyValue) : \A o \in ObjectTable :
    InStep(e.objs, o, visited \o w) =>
      \E p \in ObjectTable : InStep(f.objs, p, w) /\ ReadsAs(kind, n, b, e.strs, o, f.strs, p, x)

Readable3(f, visited) == f.ok /\ AllIn(visited, Plain3) /\ Len(f.out) < TwoTo24

\* f is the encoder e after what was visited, which is read as x.
Carries3(kind, n, e, f, visited, x) ==
  /\ f \in Good3
  /\ f.ok <=> e.ok /\ AllIn(visited, Fit3)
  /\ \E b \in Seq(Byte) :
       /\ f.out = e.out \o b
       /\ Readable3(f, visited) => ReadsAfter(kind, n, e, f, visited, x, b)

\* The bytes of two parts are those of a third.
Composes(k, i, x, l, j, y, m, n, z) ==
  \A b, c \in Seq(Byte) : \A r, s, t \in StringTable : \A o, p, q \in ObjectTable :
    ReadsAs(k, i, b, r, o, s, p, x) /\ ReadsAs(l, j, c, s, p, t, q, y)
      => ReadsAs(m, n, b \o c, r, o, t, q, z)

\* Two things that are read one after the other, and make a third, are read as the third.
LEMMA ReadsBoth ==
    ASSUME NEW k, NEW i, NEW e \in Good3, NEW g \in Good3, NEW u \in Seq(AnyValue), NEW x,
           NEW b \in Seq(Byte), ReadsAfter(k, i, e, g, u, x, b),
           NEW l, NEW j, NEW f \in Good3, NEW v \in Seq(AnyValue), NEW y,
           NEW c \in Seq(Byte), ReadsAfter(l, j, g, f, v, y, c),
           NEW m, NEW n, NEW z, Composes(k, i, x, l, j, y, m, n, z)
    PROVE  ReadsAfter(m, n, e, f, u \o v, z, b \o c)
<1> SUFFICES ASSUME NEW w \in Seq(AnyValue), NEW o \in ObjectTable, InStep(e.objs, o, (u \o v) \o w)
             PROVE  \E q \in ObjectTable : /\ InStep(f.objs, q, w)
                                           /\ ReadsAs(m, n, b \o c, e.strs, o, f.strs, q, z)
  BY DEF ReadsAfter
<1>1. JoinedThree(AnyValue, u, v, w)
  BY JoinAny
<1> DEFINE d == v \o w
<1>2. d \in Seq(AnyValue) /\ InStep(e.objs, o, u \o d)
  BY <1>1, Zenon DEF JoinedThree
<1> HIDE DEF d
<1>3. PICK p \in ObjectTable : InStep(g.objs, p, d) /\ ReadsAs(k, i, b, e.strs, o, g.strs, p, x)
  BY <1>2, Zenon DEF ReadsAfter
<1>4. PICK q \in ObjectTable : InStep(f.objs, q, w) /\ ReadsAs(l, j, c, g.strs, p, f.strs, q, y)
  BY <1>3, Zenon DEF ReadsAfter, d
<1>5. e.strs \in StringTable /\ g.strs \in StringTable /\ f.strs \in StringTable
  BY GoodHas3
<1>6. ReadsAs(m, n, b \o c, e.strs, o, f.strs, q, z)
  BY <1>3, <1>4, <1>5, Zenon DEF Composes
<1> QED
  BY <1>4, <1>6, Zenon

\* What was written in two parts.
LEMMA CarriesBoth ==
    ASSUME NEW k, NEW i, NEW e \in Good3, NEW g, NEW u \in Seq(AnyValue), NEW x,
           Carries3(k, i, e, g, u, x),
           NEW l, NEW j, NEW f, NEW v \in Seq(AnyValue), NEW y, Carries3(l, j, g, f, v, y),
           NEW m, NEW n, NEW z,
           AllIn(u, Plain3) => Composes(k, i, x, l, j, y, m, n, z)
    PROVE  Carries3(m, n, e, f, u \o v, z)
<1>1. g \in Good3 /\ (g.ok <=> e.ok /\ AllIn(u, Fit3))
  BY Zenon DEF Carries3
<1>2. f \in Good3 /\ (f.ok <=> g.ok /\ AllIn(v, Fit3))
  BY Zenon DEF Carries3
<1>3. PICK b \in Seq(Byte) : g.out = e.out \o b /\ (Readable3(g, u) => ReadsAfter(k, i, e, g, u, x, b))
  BY Zenon DEF Carries3
<1>4. PICK c \in Seq(Byte) : f.out = g.out \o c /\ (Readable3(f, v) => ReadsAfter(l, j, g, f, v, y, c))
  BY Zenon DEF Carries3
<1>5. \A T : AllIn(u \o v, T) <=> AllIn(u, T) /\ AllIn(v, T)
  BY AllInJoin
<1>6. f.ok <=> e.ok /\ AllIn(u \o v, Fit3)
  BY <1>1, <1>2, <1>5, Zenon
<1>7. e.out \in Seq(Byte) /\ g.out \in Seq(Byte) /\ f.out \in Seq(Byte)
  BY <1>1, <1>2, GoodHas3
<1> DEFINE a == b \o c
<1>8. a \in Seq(Byte) /\ f.out = e.out \o a
  <2>1. Join3(e.out, b, c)
    BY <1>7, JoinThree
  <2>2. (e.out \o b) \o c = e.out \o a /\ a \in Seq(Byte)
    BY <2>1, Zenon DEF Join3
  <2> HIDE DEF a
  <2> QED
    BY <1>3, <1>4, <2>2, Zenon
<1>9. ASSUME Readable3(f, u \o v)
      PROVE  ReadsAfter(m, n, e, f, u \o v, z, a)
  <2>1. f.ok /\ AllIn(u, Plain3) /\ AllIn(v, Plain3) /\ Len(f.out) < TwoTo24 /\ g.ok
    BY <1>2, <1>5, <1>9, Zenon DEF Readable3
  <2>2. Len(g.out) < TwoTo24
    <3>1. Join2(g.out, c)
      BY <1>7, JoinTwo
    <3> DEFINE h == Len(g.out \o c)
    <3>2. h = Len(f.out) /\ h = Len(g.out) + Len(c) /\ Len(g.out) \in Nat /\ Len(c) \in Nat
      BY <1>4, <3>1 DEF Join2
    <3> HIDE DEF h
    <3> QED BY <2>1, <3>2, Powers
  <2>3. ReadsAfter(k, i, e, g, u, x, b) /\ ReadsAfter(l, j, g, f, v, y, c)
    BY <1>3, <1>4, <2>1, <2>2, Zenon DEF Readable3
  <2>4. Composes(k, i, x, l, j, y, m, n, z)
    BY <2>1
  <2> QED
    BY <1>1, <1>2, <2>3, <2>4, ReadsBoth, Zenon
<1> HIDE DEF a
<1> QED
  BY <1>2, <1>6, <1>8, <1>9, Zenon DEF Carries3

\* What is not plain is not read.
LEMMA NotPlain3 ==
    ASSUME NEW k, NEW i, NEW e, NEW f, NEW visited, NEW x, Carries3(k, i, e, f, visited, x),
           ~AllIn(visited, Plain3), NEW m, NEW n, NEW y
    PROVE  Carries3(m, n, e, f, visited, y)
<1>1. ~Readable3(f, visited)
  BY DEF Readable3
<1> QED
  BY <1>1, Zenon DEF Carries3

-----------------------------------------------------------------------------
(* What AMF3 reads after each marker, and what it writes for each type.    *)

\* Take consumes just the bytes in front.
LEMMA TakeJust3 ==
    ASSUME NEW a \in Seq(Byte), NEW rest \in Seq(Byte), NEW s, NEW o, NEW n, n = Len(a)
    PROVE  Take(At3(a \o rest, s, o), n) = Ok(At3(rest, s, o), a)
BY TakeGives

\* The marker is read before what it marks.
LEMMA MarkedGives3 ==
    ASSUME NEW marker \in Byte, NEW rest \in Seq(Byte), NEW s, NEW o, NEW inner
    PROVE  DecodeByMarker3(inner, At3(<<marker>> \o rest, s, o))
             = DecodeMarked3(inner, At3(rest, s, o), marker)
<1> DEFINE a == <<marker>>
           d == At3(a \o rest, s, o)
           e == At3(rest, s, o)
<1>1. a \in Seq(Byte) /\ Len(a) = 1 /\ a[1] = marker
  OBVIOUS
<1>2. Take(d, 1) = Ok(e, a)
  <2> HIDE DEF a
  <2> QED BY <1>1, TakeJust3
<1>3. e.ok
  BY AtHas
<1>4. Ok(e, a).d = e /\ Ok(e, a).val = a
  BY OkHas
<1> HIDE DEF d, e, a
<1>5. DecodeByMarker3(inner, d) = DecodeMarked3(inner, e, marker)
  BY <1>1, <1>2, <1>3, <1>4, Zenon DEF DecodeByMarker3, Bind
<1> QED
  BY <1>5, Zenon DEF d, e, a

\* A marker and what is read after it are a value.
LEMMA ReadsWithMarker3 ==
    ASSUME NEW marker \in Byte, NEW c \in Seq(Byte), NEW s \in StringTable, NEW o \in ObjectTable,
           NEW t, NEW p, NEW x, ReadsMarked3(marker, c, s, o, t, p, x)
    PROVE  Reads3(<<marker>> \o c, s, o, t, p, x)
<1> DEFINE a == <<marker>>
<1>0. a \in Seq(Byte) /\ Len(a) = 1
  OBVIOUS
<1> HIDE DEF a
<1>1. a \o c \in Seq(Byte) /\ Len(a \o c) = 1 + Len(c) /\ Len(c) \in Nat
  <2>1. Join2(a, c)
    BY <1>0, JoinTwo
  <2> QED BY <1>0, <2>1 DEF Join2
<1>2. a \o c # <<>>
  <2>1. Len(<<>>) = 0
    OBVIOUS
  <2> DEFINE b == a \o c
  <2>2. b \in Seq(Byte) /\ Len(b) # 0
    BY <1>1
  <2> HIDE DEF b
  <2>3. b # <<>>
    BY <2>1, <2>2
  <2> QED BY <2>3 DEF b
<1>3. ASSUME NEW rest \in Seq(Byte), NEW m \in Nat, m > Len(a \o c)
      PROVE  Decoding3[m].value[At3((a \o c) \o rest, s, o)] = Ok(At3(rest, t, p), x)
  <2>1. m # 0 /\ m - 1 \in Nat /\ m - 1 > Len(c)
    <3> DEFINE l == Len(a \o c)
    <3>1. l = 1 + Len(c) /\ m > l
      BY <1>1, <1>3
    <3> HIDE DEF l
    <3> QED BY <1>1, <3>1
  <2>2. Join3(a, c, rest)
    BY <1>0, JoinThree
  <2> DEFINE r == c \o rest
  <2>3. (a \o c) \o rest = a \o r /\ r \in Seq(Byte) /\ a \o r \in Seq(Byte)
    BY <2>2, Zenon DEF Join3
  <2>4. DecodeMarked3(Decoding3[m - 1], At3(r, s, o), marker) = Ok(At3(rest, t, p), x)
    BY <2>1 DEF ReadsMarked3
  <2> HIDE DEF r
  <2>5. DecodeByMarker3(Decoding3[m - 1], At3(a \o r, s, o))
          = DecodeMarked3(Decoding3[m - 1], At3(r, s, o), marker)
    BY <2>3, MarkedGives3 DEF a
  <2> DEFINE y == a \o r
             d == At3(y, s, o)
  <2>6. d \in Decoder3
    <3>1. y \in Seq(Byte)
      BY <2>3
    <3> HIDE DEF y
    <3> QED BY <3>1, AtType3
  <2> HIDE DEF d
  <2>7. Decoding3[m].value[d] = DecodeByMarker3(Decoding3[m - 1], d)
    BY <2>1, <2>6, Decoding3Steps
  <2> QED
    BY <2>3, <2>4, <2>5, <2>7, Zenon DEF y, d
<1> QED
  BY <1>1, <1>2, <1>3 DEF Reads3, a

\* A marker is written by itself.
LEMMA MarkerWritten3 ==
    ASSUME NEW e \in Good3, NEW n \in Byte, NEW x
    PROVE  Carries3("marker", n, e, Write(e, <<n>>), <<>>, x)
<1> DEFINE f == Write(e, <<n>>)
           b == <<n>>
           none == <<>>
<1>1. b \in Seq(Byte)
  OBVIOUS
<1>2. f \in Good3 /\ f.out = e.out \o b /\ f.ok = e.ok /\ Same3(e, f)
  BY <1>1, WriteHas3
<1>3. \A T : AllIn(none, T)
  BY DEF AllIn
<1>4. ReadsAfter("marker", n, e, f, none, x, b)
  <2> SUFFICES ASSUME NEW w \in Seq(AnyValue), NEW o \in ObjectTable, InStep(e.objs, o, none \o w)
               PROVE  \E p \in ObjectTable : InStep(f.objs, p, w) /\ ReadsAs("marker", n, b, e.strs, o, f.strs, p, x)
    BY Zenon DEF ReadsAfter
  <2>1. none \o w = w
    OBVIOUS
  <2> HIDE DEF f, none
  <2>2. InStep(f.objs, o, w)
    BY <1>2, <2>1 DEF Same3
  <2>3. ReadsAs("marker", n, b, e.strs, o, f.strs, o, x)
    BY <1>2 DEF ReadsAs, Same3
  <2> QED
    BY <2>2, <2>3, Zenon
<1> HIDE DEF f, b, none
<1>5. Carries3("marker", n, e, f, none, x)
  <2>1. f.ok <=> e.ok /\ AllIn(none, Fit3)
    BY <1>2, <1>3
  <2> QED
    BY <1>1, <1>2, <1>4, <2>1, Zenon DEF Carries3
<1> QED
  BY <1>5 DEF f, none

\* A marker was written, and what it marks.
LEMMA WithMarker3 ==
    ASSUME NEW e \in Good3, NEW n \in Byte, NEW f, NEW visited \in Seq(AnyValue), NEW x,
           Carries3("marked", n, Write(e, <<n>>), f, visited, x)
    PROVE  Carries3("value", 0, e, f, visited, x)
<1> DEFINE g == Write(e, <<n>>)
           none == <<>>
<1>1. Carries3("marker", n, e, g, none, x)
  BY MarkerWritten3
<1>2. none \in Seq(AnyValue) /\ none \o visited = visited
  OBVIOUS
<1>3. Composes("marker", n, x, "marked", n, x, "value", 0, x)
  <2> SUFFICES ASSUME NEW b \in Seq(Byte), NEW c \in Seq(Byte), NEW r \in StringTable,
                      NEW s \in StringTable, NEW t \in StringTable, NEW o \in ObjectTable,
                      NEW p \in ObjectTable, NEW q \in ObjectTable,
                      ReadsAs("marker", n, b, r, o, s, p, x), ReadsAs("marked", n, c, s, p, t, q, x)
               PROVE  ReadsAs("value", 0, b \o c, r, o, t, q, x)
    BY DEF Composes
  <2>1. b = <<n>> /\ s = r /\ p = o
    BY Zenon DEF ReadsAs
  <2>2. ReadsMarked3(n, c, s, p, t, q, x)
    BY Zenon DEF ReadsAs
  <2>3. Reads3(<<n>> \o c, s, p, t, q, x)
    BY <2>2, ReadsWithMarker3
  <2>4. Reads3(b \o c, r, o, t, q, x)
    BY <2>1, <2>3, Zenon
  <2> QED
    BY <2>4 DEF ReadsAs
<1> HIDE DEF g, none
<1>4. Carries3("value", 0, e, f, none \o visited, x)
  <2>1. Carries3("marked", n, g, f, visited, x)
    BY DEF g
  <2> QED
    BY <1>1, <1>2, <1>3, <2>1, CarriesBoth
<1> QED
  BY <1>2, <1>4

\* One value.
LEMMA One3 ==
    ASSUME NEW v \in AnyValue
    PROVE  <<v>> \in Seq(AnyValue) /\ \A T : AllIn(<<v>>, T) <=> v \in T
BY DEF AllIn

\* A value that is no date, and no table of objects but that of strings changes.
LEMMA ScalarWritten3 ==
    ASSUME NEW v \in AnyValue, v \in Fit3, v[1] # "time", NEW e \in Good3, NEW f \in Good3,
           f.ok = e.ok, f.objs = e.objs, NEW b \in Seq(Byte), f.out = e.out \o b, NEW k, NEW n, NEW x,
           v \in Plain3 /\ Len(f.out) < TwoTo24 =>
             \A o \in ObjectTable : ReadsAs(k, n, b, e.strs, o, f.strs, o, x)
    PROVE  Carries3(k, n, e, f, <<v>>, x)
<1> DEFINE visited == <<v>>
<1>1. \A T : AllIn(visited, T) <=> v \in T
  BY One3
<1>2. ASSUME Readable3(f, visited)
      PROVE  ReadsAfter(k, n, e, f, visited, x, b)
  <2> SUFFICES ASSUME NEW w \in Seq(AnyValue), NEW o \in ObjectTable, InStep(e.objs, o, visited \o w)
               PROVE  \E p \in ObjectTable : InStep(f.objs, p, w) /\ ReadsAs(k, n, b, e.strs, o, f.strs, p, x)
    BY Zenon DEF ReadsAfter
  <2>1. InStep(e.objs, o, w)
    BY StepOther
  <2> HIDE DEF visited
  <2>2. v \in Plain3 /\ Len(f.out) < TwoTo24
    BY <1>1, <1>2, Zenon DEF Readable3
  <2>3. ReadsAs(k, n, b, e.strs, o, f.strs, o, x)
    BY <2>2
  <2>4. InStep(f.objs, o, w)
    BY <2>1
  <2> QED
    BY <2>3, <2>4, Zenon
<1>3. f.ok <=> e.ok /\ AllIn(visited, Fit3)
  <2> HIDE DEF visited
  <2> QED
    BY <1>1
<1> HIDE DEF visited
<1>4. Carries3(k, n, e, f, visited, x)
  BY <1>2, <1>3, Zenon DEF Carries3
<1> QED
  BY <1>4 DEF visited

\* A value that is not read.
LEMMA Unread3 ==
    ASSUME NEW v \in AnyValue, v \in Fit3, v \notin Plain3, NEW e \in Good3, NEW f \in Good3,
           f.ok = e.ok, NEW b \in Seq(Byte), f.out = e.out \o b, NEW k, NEW n, NEW x
    PROVE  Carries3(k, n, e, f, <<v>>, x)
<1> DEFINE visited == <<v>>
<1>1. \A T : AllIn(visited, T) <=> v \in T
  BY One3
<1> HIDE DEF visited
<1>2. ~Readable3(f, visited)
  BY <1>1 DEF Readable3
<1>3. f.ok <=> e.ok /\ AllIn(visited, Fit3)
  BY <1>1
<1>4. Carries3(k, n, e, f, visited, x)
  BY <1>2, <1>3, Zenon DEF Carries3
<1> QED
  BY <1>4 DEF visited

\* There is no form for it.
LEMMA Refused3 ==
    ASSUME NEW e \in Good3, NEW visited, ~AllIn(visited, Fit3), NEW k, NEW n, NEW x
    PROVE  Carries3(k, n, e, Unsupported(e), visited, x)
<1> DEFINE f == Unsupported(e)
           b == <<>>
<1>1. b \in Seq(Byte) /\ e.out \o b = e.out
  BY GoodHas3
<1>2. f \in Good3 /\ f.out = e.out /\ f.ok = FALSE
  BY <1>1, WriteHas3
<1> HIDE DEF f, b
<1>3. f.out = e.out \o b /\ ~Readable3(f, visited) /\ (f.ok <=> e.ok /\ AllIn(visited, Fit3))
  BY <1>1, <1>2 DEF Readable3
<1>4. Carries3(k, n, e, f, visited, x)
  BY <1>1, <1>2, <1>3, Zenon DEF Carries3
<1> QED BY <1>4 DEF f

\* Two times writing is writing both.
LEMMA WriteTwice3 ==
    ASSUME NEW e \in Encoder3, NEW a \in Seq(Byte), NEW b \in Seq(Byte)
    PROVE  Write(Write(e, a), b) = Write(e, a \o b)
<1> DEFINE o == e.out
<1>1. o \in Seq(Byte)
  BY DEF Encoder3
<1> HIDE DEF o
<1>2. Join3(o, a, b)
  BY <1>1, JoinThree
<1>3. (o \o a) \o b = o \o (a \o b) /\ o \o a \in Seq(Byte)
  BY <1>2, Zenon DEF Join3
<1> DEFINE y == o \o a
           z == a \o b
           f == Write(e, a)
<1>4. f = [e EXCEPT !.out = y] /\ Write(e, z) = [e EXCEPT !.out = y \o b]
  BY <1>3, Zenon DEF Write, o
<1>5. f.out = y
  <2> HIDE DEF y, f
  <2> QED BY <1>4 DEF Encoder3
<1>6. Write(f, b) = [f EXCEPT !.out = y \o b]
  <2> HIDE DEF f, y
  <2> QED BY <1>5, Zenon DEF Write
<1> DEFINE t == y \o b
<1> HIDE DEF y, z, t, f
<1>7. [[e EXCEPT !.out = y] EXCEPT !.out = t] = [e EXCEPT !.out = t]
  BY DEF Encoder3
<1> QED BY <1>4, <1>6, <1>7, Zenon DEF z, t, f

\* The markers are different bytes.
LEMMA Markers3 ==
    /\ {Undefined3, Null3, False3, True3, Integer3, Double3, String3, Date3, Array3, Object3} \subseteq Byte
    /\ Null3 \notin {Undefined3}
    /\ False3 \notin {Undefined3, Null3}
    /\ True3 \notin {Undefined3, Null3, False3}
    /\ Integer3 \notin {Undefined3, Null3, False3, True3}
    /\ Double3 \notin {Undefined3, Null3, False3, True3, Integer3}
    /\ String3 \notin {Undefined3, Null3, False3, True3, Integer3, Double3}
    /\ Date3 \notin {Undefined3, Null3, False3, True3, Integer3, Double3, String3}
    /\ Array3 \notin {Undefined3, Null3, False3, True3, Integer3, Double3, String3, Date3}
    /\ Object3 \notin {Undefined3, Null3, False3, True3, Integer3, Double3, String3, Date3, Array3}
BY DEF Undefined3, Null3, False3, True3, Integer3, Double3, String3, Date3, Array3, Object3, Byte

\* What is done by the marker.
LEMMA ByMarker3 ==
    ASSUME NEW inner, NEW d
    PROVE  /\ DecodeMarked3(inner, d, Undefined3) = Ok(d, <<"AMF3Undefined">>)
           /\ DecodeMarked3(inner, d, Null3) = Ok(d, <<"AMF3Null">>)
           /\ DecodeMarked3(inner, d, False3) = Ok(d, <<"AMF3Boolean", FALSE>>)
           /\ DecodeMarked3(inner, d, True3) = Ok(d, <<"AMF3Boolean", TRUE>>)
           /\ DecodeMarked3(inner, d, Integer3) = Tagged("AMF3Integer", ReadNumber(d))
           /\ DecodeMarked3(inner, d, Double3) = Tagged("AMF3Double", Take(d, 8))
           /\ DecodeMarked3(inner, d, String3) = Tagged("AMF3String", ReadStringWithReference(d))
           /\ DecodeMarked3(inner, d, Date3) = DecodeDateValue(d)
           /\ DecodeMarked3(inner, d, Array3) = DecodeArrayValue(inner, d)
           /\ DecodeMarked3(inner, d, Object3) = DecodeObjectValue(inner, d)
<1>1. DecodeMarked3(inner, d, Undefined3) = Ok(d, <<"AMF3Undefined">>)
  BY Markers3, Zenon DEF DecodeMarked3
<1>2. DecodeMarked3(inner, d, Null3) = Ok(d, <<"AMF3Null">>)
  BY Markers3, Zenon DEF DecodeMarked3
<1>3. DecodeMarked3(inner, d, False3) = Ok(d, <<"AMF3Boolean", FALSE>>)
  <2>1. DecodeMarked3(inner, d, False3) = Ok(d, <<"AMF3Boolean", False3 = True3>>)
    BY Markers3, Zenon DEF DecodeMarked3
  <2>2. (False3 = True3) = FALSE
    BY DEF True3, False3
  <2> QED BY <2>1, <2>2, Zenon
<1>4. DecodeMarked3(inner, d, True3) = Ok(d, <<"AMF3Boolean", TRUE>>)
  <2>1. DecodeMarked3(inner, d, True3) = Ok(d, <<"AMF3Boolean", True3 = True3>>)
    BY Markers3, Zenon DEF DecodeMarked3
  <2>2. (True3 = True3) = TRUE
    BY DEF True3, False3
  <2> QED BY <2>1, <2>2, Zenon
<1>5. DecodeMarked3(inner, d, Integer3) = Tagged("AMF3Integer", ReadNumber(d))
  BY Markers3, Zenon DEF DecodeMarked3
<1>6. DecodeMarked3(inner, d, Double3) = Tagged("AMF3Double", Take(d, 8))
  BY Markers3, Zenon DEF DecodeMarked3
<1>7. DecodeMarked3(inner, d, String3) = Tagged("AMF3String", ReadStringWithReference(d))
  BY Markers3, Zenon DEF DecodeMarked3
<1>8. DecodeMarked3(inner, d, Date3) = DecodeDateValue(d)
  BY Markers3, Zenon DEF DecodeMarked3
<1>9. DecodeMarked3(inner, d, Array3) = DecodeArrayValue(inner, d)
  BY Markers3, Zenon DEF DecodeMarked3
<1>10. DecodeMarked3(inner, d, Object3) = DecodeObjectValue(inner, d)
  BY Markers3, Zenon DEF DecodeMarked3
<1> QED
  BY <1>1, <1>2, <1>3, <1>4, <1>5, <1>6, <1>7, <1>8, <1>9, <1>10, Zenon

\* What is written of a value, by its type.
WrittenByType3(enc, e, v) ==
  /\ (v[1] = "AMF3Undefined") =>
       EncodeByType3(enc, e, v) = Write(e, <<Undefined3>>)
  /\ (v[1] \in {"nil", "AMF3Null"}) =>
       EncodeByType3(enc, e, v) = Write(e, <<Null3>>)
  /\ (v[1] \in {"bool", "AMF3Boolean"}) =>
       EncodeByType3(enc, e, v) = Write(e, <<IF v[2] THEN True3 ELSE False3>>)
  /\ (v[1] = "AMF3Integer") =>
       EncodeByType3(enc, e, v) = WriteNumber(Write(e, <<Integer3>>), v[2])
  /\ (v[1] = "int" /\ v[2] \in MinInt .. MaxInt) =>
       EncodeByType3(enc, e, v) = WriteNumber(Write(e, <<Integer3>>), v[2])
  /\ (v[1] = "int" /\ v[2] \notin MinInt .. MaxInt) =>
       EncodeByType3(enc, e, v) = Write(e, <<Double3>> \o Float64[v[2]])
  /\ (v[1] \in {"float64", "AMF3Double"}) =>
       EncodeByType3(enc, e, v) = Write(e, <<Double3>> \o v[2])
  /\ (v[1] \in {"string", "AMF3String"}) =>
       EncodeByType3(enc, e, v) = WriteStringWithReference(Write(e, <<String3>>), v[2])
  /\ (v[1] = "time") =>
       EncodeByType3(enc, e, v) = EncodeDate(e, v[2])
  /\ (v[1] = "slice") =>
       EncodeByType3(enc, e, v) = EncodeArray(enc, e, v[2], <<>>)
  /\ (v[1] \in {"map", "AMF3Object"}) =>
       EncodeByType3(enc, e, v) = EncodeObject3(enc, e, v[2])
  /\ (v[1] = "AMF3Date") =>
       EncodeByType3(enc, e, v) = EncodeDate(Write(e, <<Date3>>), v[2])
  /\ (v[1] = "AMF3Array") =>
       EncodeByType3(enc, e, v) = EncodeArray(enc, Write(e, <<Array3>>), v[2].dense, v[2].associative)
  /\ (v[1] \notin Tags3) =>
       EncodeByType3(enc, e, v) = Unsupported(e)

\* EncodeByType3 goes by the type of the value.
LEMMA EncodedByType3 ==
    ASSUME NEW enc, NEW e, NEW v
    PROVE  WrittenByType3(enc, e, v)
<1>1. (v[1] = "AMF3Undefined") =>
       EncodeByType3(enc, e, v) = Write(e, <<Undefined3>>)
  BY Zenon DEF EncodeByType3
<1>2. (v[1] \in {"nil", "AMF3Null"}) =>
       EncodeByType3(enc, e, v) = Write(e, <<Null3>>)
  BY Zenon DEF EncodeByType3
<1>3. (v[1] \in {"bool", "AMF3Boolean"}) =>
       EncodeByType3(enc, e, v) = Write(e, <<IF v[2] THEN True3 ELSE False3>>)
  BY Zenon DEF EncodeByType3
<1>4. (v[1] = "AMF3Integer") =>
       EncodeByType3(enc, e, v) = WriteNumber(Write(e, <<Integer3>>), v[2])
  BY Zenon DEF EncodeByType3
<1>5. (v[1] = "int" /\ v[2] \in MinInt .. MaxInt) =>
       EncodeByType3(enc, e, v) = WriteNumber(Write(e, <<Integer3>>), v[2])
  BY Zenon DEF EncodeByType3
<1>6. (v[1] = "int" /\ v[2] \notin MinInt .. MaxInt) =>
       EncodeByType3(enc, e, v) = Write(e, <<Double3>> \o Float64[v[2]])
  BY Zenon DEF EncodeByType3
<1>7. (v[1] \in {"float64", "AMF3Double"}) =>
       EncodeByType3(enc, e, v) = Write(e, <<Double3>> \o v[2])
  BY Zenon DEF EncodeByType3
<1>8. (v[1] \in {"string", "AMF3String"}) =>
       EncodeByType3(enc, e, v) = WriteStringWithReference(Write(e, <<String3>>), v[2])
  BY Zenon DEF EncodeByType3
<1>9. (v[1] = "time") =>
       EncodeByType3(enc, e, v) = EncodeDate(e, v[2])
  BY Zenon DEF EncodeByType3
<1>10. (v[1] = "slice") =>
       EncodeByType3(enc, e, v) = EncodeArray(enc, e, v[2], <<>>)
  BY Zenon DEF EncodeByType3
<1>11. (v[1] \in {"map", "AMF3Object"}) =>
       EncodeByType3(enc, e, v) = EncodeObject3(enc, e, v[2])
  BY Zenon DEF EncodeByType3
<1>12. (v[1] = "AMF3Date") =>
       EncodeByType3(enc, e, v) = EncodeDate(Write(e, <<Date3>>), v[2])
  BY Zenon DEF EncodeByType3, EncodeTyped3
<1>13. (v[1] = "AMF3Array") =>
       EncodeByType3(enc, e, v) = EncodeArray(enc, Write(e, <<Array3>>), v[2].dense, v[2].associative)
  BY Zenon DEF EncodeByType3, EncodeTyped3
<1>14. (v[1] \notin Tags3) =>
       EncodeByType3(enc, e, v) = Unsupported(e)
  BY Zenon DEF EncodeByType3, EncodeTyped3, Tags3, GoTags
<1> QED
  BY <1>1, <1>2, <1>3, <1>4, <1>5, <1>6, <1>7, <1>8, <1>9, <1>10, <1>11, <1>12, <1>13, <1>14, Zenon
     DEF WrittenByType3

\* What it becomes, by its type.
LEMMA BecomesByType3 ==
    ASSUME NEW bec, NEW v
    PROVE  /\ v[1] = "nil" =>
                ByType3(bec, v) = <<"AMF3Null">>
           /\ v[1] = "bool" =>
                ByType3(bec, v) = <<"AMF3Boolean", v[2]>>
           /\ v[1] = "int" =>
                ByType3(bec, v) = Int3(v[2])
           /\ v[1] = "float64" =>
                ByType3(bec, v) = <<"AMF3Double", v[2]>>
           /\ v[1] = "string" =>
                ByType3(bec, v) = <<"AMF3String", v[2]>>
           /\ v[1] = "time" =>
                ByType3(bec, v) = DateRead(v[2])
           /\ v[1] = "slice" =>
                ByType3(bec, v) = <<"AMF3Array", [dense |-> EachBecomes(bec, v[2]), associative |-> NoProperties]>>
           /\ v[1] \in {"map", "AMF3Object"} =>
                ByType3(bec, v) = <<"AMF3Object", PairsBecome(bec, v[2]), <<>>>>
           /\ v[1] \in {"AMF3Null", "AMF3Undefined", "AMF3Boolean", "AMF3Integer", "AMF3Double", "AMF3String"} =>
                ByType3(bec, v) = v
<1>1. v[1] = "nil" =>
       ByType3(bec, v) = <<"AMF3Null">>
  BY Zenon DEF ByType3
<1>2. v[1] = "bool" =>
       ByType3(bec, v) = <<"AMF3Boolean", v[2]>>
  BY Zenon DEF ByType3
<1>3. v[1] = "int" =>
       ByType3(bec, v) = Int3(v[2])
  BY Zenon DEF ByType3
<1>4. v[1] = "float64" =>
       ByType3(bec, v) = <<"AMF3Double", v[2]>>
  BY Zenon DEF ByType3
<1>5. v[1] = "string" =>
       ByType3(bec, v) = <<"AMF3String", v[2]>>
  BY Zenon DEF ByType3
<1>6. v[1] = "time" =>
       ByType3(bec, v) = DateRead(v[2])
  BY Zenon DEF ByType3, DateRead
<1>7. v[1] = "slice" =>
       ByType3(bec, v) = <<"AMF3Array", [dense |-> EachBecomes(bec, v[2]), associative |-> NoProperties]>>
  BY Zenon DEF ByType3
<1>8. v[1] \in {"map", "AMF3Object"} =>
       ByType3(bec, v) = <<"AMF3Object", PairsBecome(bec, v[2]), <<>>>>
  BY Zenon DEF ByType3
<1>9. v[1] \in {"AMF3Null", "AMF3Undefined", "AMF3Boolean", "AMF3Integer", "AMF3Double", "AMF3String"} =>
       ByType3(bec, v) = v
  BY Zenon DEF ByType3
<1> QED
  BY <1>1, <1>2, <1>3, <1>4, <1>5, <1>6, <1>7, <1>8, <1>9, Zenon

\* What is read after the markers of scalars.
LEMMA ReadsNothing3 ==
    ASSUME NEW s, NEW o
    PROVE  /\ ReadsMarked3(Undefined3, <<>>, s, o, s, o, <<"AMF3Undefined">>)
           /\ ReadsMarked3(Null3, <<>>, s, o, s, o, <<"AMF3Null">>)
           /\ ReadsMarked3(False3, <<>>, s, o, s, o, <<"AMF3Boolean", FALSE>>)
           /\ ReadsMarked3(True3, <<>>, s, o, s, o, <<"AMF3Boolean", TRUE>>)
<1>1. ASSUME NEW n, NEW x, \A inner, d : DecodeMarked3(inner, d, n) = Ok(d, x)
      PROVE  ReadsMarked3(n, <<>>, s, o, s, o, x)
  <2> SUFFICES ASSUME NEW rest \in Seq(Byte), NEW m \in Nat
               PROVE  DecodeMarked3(Decoding3[m], At3(<<>> \o rest, s, o), n) = Ok(At3(rest, s, o), x)
    BY DEF ReadsMarked3
  <2>1. <<>> \o rest = rest
    BY JoinNothing
  <2> QED
    BY <1>1, <2>1, Zenon
<1>2. \A inner, d : /\ DecodeMarked3(inner, d, Undefined3) = Ok(d, <<"AMF3Undefined">>)
                    /\ DecodeMarked3(inner, d, Null3) = Ok(d, <<"AMF3Null">>)
                    /\ DecodeMarked3(inner, d, False3) = Ok(d, <<"AMF3Boolean", FALSE>>)
                    /\ DecodeMarked3(inner, d, True3) = Ok(d, <<"AMF3Boolean", TRUE>>)
  BY ByMarker3, Zenon
<1>3. ReadsMarked3(Undefined3, <<>>, s, o, s, o, <<"AMF3Undefined">>)
  BY <1>1, <1>2, Zenon
<1>4. ReadsMarked3(Null3, <<>>, s, o, s, o, <<"AMF3Null">>)
  BY <1>1, <1>2, Zenon
<1>5. ReadsMarked3(False3, <<>>, s, o, s, o, <<"AMF3Boolean", FALSE>>)
  BY <1>1, <1>2, Zenon
<1>6. ReadsMarked3(True3, <<>>, s, o, s, o, <<"AMF3Boolean", TRUE>>)
  BY <1>1, <1>2, Zenon
<1> QED
  BY <1>3, <1>4, <1>5, <1>6, Zenon

\* An integer after its marker.
LEMMA ReadsInteger3 ==
    ASSUME NEW n \in MinInt .. MaxInt, NEW s, NEW o
    PROVE  ReadsMarked3(Integer3, WriteU29(n), s, o, s, o, <<"AMF3Integer", n>>)
<1> DEFINE b == WriteU29(n)
<1>0. n \in Int /\ -TwoTo28 <= n /\ n < TwoTo28
  BY Powers DEF MinInt, MaxInt
<1>1. \A rest \in Seq(Byte) : \A t, p : ReadNumber(At3(b \o rest, t, p)) = Ok(At3(rest, t, p), n)
  BY <1>0, ReadNumberGives
<1> HIDE DEF b
<1> SUFFICES ASSUME NEW rest \in Seq(Byte), NEW m \in Nat
             PROVE  DecodeMarked3(Decoding3[m], At3(b \o rest, s, o), Integer3)
                      = Ok(At3(rest, s, o), <<"AMF3Integer", n>>)
  BY DEF ReadsMarked3, b
<1> DEFINE d == At3(b \o rest, s, o)
           f == At3(rest, s, o)
           r == ReadNumber(d)
<1>2. r = Ok(f, n)
  BY <1>1, Zenon
<1>3. f.ok
  BY AtHas
<1>4. DecodeMarked3(Decoding3[m], d, Integer3) = Tagged("AMF3Integer", r)
  <2> HIDE DEF d
  <2> QED BY ByMarker3
<1> HIDE DEF d, f, r
<1>5. Tagged("AMF3Integer", r) = Ok(f, <<"AMF3Integer", n>>)
  BY <1>2, <1>3, TaggedGives
<1> QED
  BY <1>4, <1>5, Zenon DEF d, f

\* Eight bytes after the marker of a double.
LEMMA ReadsDouble3 ==
    ASSUME NEW b \in Bits, NEW s, NEW o
    PROVE  ReadsMarked3(Double3, b, s, o, s, o, <<"AMF3Double", b>>)
<1> SUFFICES ASSUME NEW rest \in Seq(Byte), NEW m \in Nat
             PROVE  DecodeMarked3(Decoding3[m], At3(b \o rest, s, o), Double3)
                      = Ok(At3(rest, s, o), <<"AMF3Double", b>>)
  BY DEF ReadsMarked3
<1> DEFINE d == At3(b \o rest, s, o)
           f == At3(rest, s, o)
           r == Take(d, 8)
<1>1. b \in Seq(Byte) /\ Len(b) = 8
  BY BitsAre
<1>2. r = Ok(f, b)
  BY <1>1, TakeJust3
<1>3. f.ok
  BY AtHas
<1>4. DecodeMarked3(Decoding3[m], d, Double3) = Tagged("AMF3Double", r)
  <2> HIDE DEF d
  <2> QED BY ByMarker3
<1> HIDE DEF d, f, r
<1>5. Tagged("AMF3Double", r) = Ok(f, <<"AMF3Double", b>>)
  BY <1>2, <1>3, TaggedGives
<1> QED
  BY <1>4, <1>5, Zenon DEF d, f

\* A string after its marker.
LEMMA ReadsStringMarked3 ==
    ASSUME NEW b, NEW s, NEW t, NEW x, ReadsString3(b, s, t, x), NEW o \in ObjectTable
    PROVE  ReadsMarked3(String3, b, s, o, t, o, <<"AMF3String", x>>)
<1> SUFFICES ASSUME NEW rest \in Seq(Byte), NEW m \in Nat
             PROVE  DecodeMarked3(Decoding3[m], At3(b \o rest, s, o), String3)
                      = Ok(At3(rest, t, o), <<"AMF3String", x>>)
  BY DEF ReadsMarked3
<1> DEFINE d == At3(b \o rest, s, o)
           f == At3(rest, t, o)
           r == ReadStringWithReference(d)
<1>2. r = Ok(f, x)
  BY Zenon DEF ReadsString3
<1>3. f.ok
  BY AtHas
<1>4. DecodeMarked3(Decoding3[m], d, String3) = Tagged("AMF3String", r)
  <2> HIDE DEF d
  <2> QED BY ByMarker3
<1> HIDE DEF d, f, r
<1>5. Tagged("AMF3String", r) = Ok(f, <<"AMF3String", x>>)
  BY <1>2, <1>3, TaggedGives
<1> QED
  BY <1>4, <1>5, Zenon DEF d, f

EnteredObject3Is(rest, s, o, x) ==
  [At3(rest, s, o) EXCEPT !.objs = Append(@, x)] = At3(rest, s, Append(o, x))

\* To enter something in the object table changes nothing else.
LEMMA EnteredObject3 ==
    ASSUME NEW rest, NEW s, NEW o, NEW x
    PROVE  EnteredObject3Is(rest, s, o, x)
BY OnlyStrings3 DEF EnteredObject3Is

EnteringDate(e, t) == Write(WriteNumber([e EXCEPT !.objs = Append(@, t)], 1), MillisOf(t))

\* A date and the milliseconds of one are 64-bit words.
LEMMA DatesAreBits ==
    ASSUME NEW t \in Bits
    PROVE  MillisOf(t) \in Bits /\ TimeFrom3(t) \in Bits /\ TimeFrom0(t) \in Bits
BY UnixAssumption, DateTimeAssumption
   DEF MillisOf, TimeFrom3, TimeFrom0, Converted, IsConversion

\* A date that is entered.
LEMMA EnteringDateHas ==
    ASSUME NEW e \in Good3, NEW t \in Bits
    PROVE  LET f == EnteringDate(e, t)
           IN  /\ f \in Good3 /\ f.ok = e.ok /\ f.strs = e.strs /\ f.objs = Append(e.objs, t)
               /\ f.out = e.out \o (WriteU29(1) \o MillisOf(t))
<1> DEFINE g == [e EXCEPT !.objs = Append(@, t)]
           ms == MillisOf(t)
           n == 1
           a == WriteU29(n)
<1>1. /\ e \in Encoder3 /\ Len(e.strs) <= Len(e.out) /\ Len(e.objs) <= Len(e.out)
      /\ e.out \in Seq(Byte) /\ Len(e.out) \in Nat /\ Len(e.strs) \in Nat /\ Len(e.objs) \in Nat
      /\ e.objs \in Seq(Bits)
  BY GoodHas3
<1>2. n \in Int
  OBVIOUS
<1>3. a \in Seq(Byte) /\ Len(a) \in Nat /\ Len(a) >= 1
  <2> HIDE DEF n
  <2>1. a \in Seq(Byte) /\ SaysItsEnd(a)
    BY <1>2, WritesAGroup
  <2> HIDE DEF a
  <2> QED BY <2>1 DEF SaysItsEnd
<1>4. Append(e.objs, t) \in Seq(Bits) /\ Len(Append(e.objs, t)) = Len(e.objs) + 1
  BY <1>1
<1>5. g \in Encoder3 /\ g.objs = Append(e.objs, t) /\ g.out = e.out /\ g.strs = e.strs /\ g.ok = e.ok
  BY <1>1, <1>4 DEF Encoder3
<1>t. ms \in Seq(Byte)
  BY DatesAreBits, BitsAre
<1> HIDE DEF g, n, a, ms
<1> DEFINE h == Write(g, a)
           f == Write(h, ms)
<1>7. h \in Encoder3 /\ h.out = e.out \o a /\ h.ok = e.ok /\ h.objs = Append(e.objs, t) /\ h.strs = e.strs
  <2>1. g \in Encoder3
    BY <1>5
  <2>2. h \in Encoder3 /\ h.out = g.out \o a /\ h.ok = g.ok /\ h.strs = g.strs /\ h.objs = g.objs
    BY <1>3, <2>1, WriteFields3
  <2> HIDE DEF h
  <2> QED
    BY <1>5, <2>2
<1> HIDE DEF h
<1>8. f \in Encoder3 /\ f.out = h.out \o ms /\ f.ok = h.ok /\ f.strs = h.strs /\ f.objs = h.objs
  BY <1>7, <1>t, WriteFields3
<1> HIDE DEF f
<1>9. /\ (e.out \o a) \o ms = e.out \o (a \o ms)
      /\ Len((e.out \o a) \o ms) = Len(e.out) + Len(a) + Len(ms) /\ Len(ms) \in Nat
  <2> DEFINE x == e.out
  <2>1. x \in Seq(Byte)
    BY <1>1
  <2> HIDE DEF x
  <2>2. Join3(x, a, ms)
    BY <1>3, <1>t, <2>1, JoinThree
  <2>3. (x \o a) \o ms = x \o (a \o ms) /\ Len((x \o a) \o ms) = Len(x) + Len(a) + Len(ms) /\ Len(ms) \in Nat
    BY <2>2, Zenon DEF Join3
  <2> QED
    BY <2>3 DEF x
<1>10. f.out = e.out \o (a \o ms) /\ Len(f.out) = Len(e.out) + Len(a) + Len(ms)
  BY <1>7, <1>8, <1>9
<1>11. f \in Good3
  <2>1. Len(f.objs) = Len(e.objs) + 1 /\ f.strs = e.strs
    BY <1>4, <1>7, <1>8
  <2>2. Len(f.strs) <= Len(f.out) /\ Len(f.objs) <= Len(f.out)
    BY <1>1, <1>3, <1>9, <1>10, <2>1
  <2> QED
    BY <1>8, <2>2, GoodIs3
<1>12. f = EnteringDate(e, t)
  BY Zenon DEF EnteringDate, f, h, g, a, n, ms, WriteNumber
<1> QED
  BY <1>7, <1>8, <1>10, <1>11, <1>12 DEF a, n, ms

\* A date is read from its place in the table, or from its bits.
LEMMA ReadsKnownDate3 ==
    ASSUME NEW s, NEW o \in ObjectTable, NEW k \in 0 .. Len(o) - 1, 2 * k < TwoTo28,
           NEW x, x = o[k + 1], x[1] = "AMF3Date"
    PROVE  ReadsMarked3(Date3, WriteU29(2 * k), s, o, s, o, x)
<1> DEFINE n == 2 * k
<1>2. n \in Int /\ -TwoTo28 <= n /\ n < TwoTo28 /\ n % 2 = 0 /\ n \div 2 = k
  BY Powers
<1> HIDE DEF n
<1>3. \A rest \in Seq(Byte) : \A t, p :
           ReadNumber(At3(WriteU29(n) \o rest, t, p)) = Ok(At3(rest, t, p), n)
  BY <1>2, ReadNumberGives
<1>4. ASSUME NEW rest \in Seq(Byte), NEW m \in Nat
      PROVE  DecodeMarked3(Decoding3[m], At3(WriteU29(n) \o rest, s, o), Date3) = Ok(At3(rest, s, o), x)
  <2> DEFINE d == At3(WriteU29(n) \o rest, s, o)
             e == At3(rest, s, o)
  <2>1. ReadNumber(d) = Ok(e, n)
    BY <1>3
  <2>2. e.ok /\ e.objs = o
    BY DEF At3
  <2>3. Refers(n) /\ n \div 2 = k
    BY <1>2 DEF Refers
  <2>4. Ok(e, n).d = e /\ Ok(e, n).val = n /\ Ok(e, x).d = e /\ Ok(e, x).val = x
    BY OkHas
  <2>8. DecodeMarked3(Decoding3[m], d, Date3) = DecodeDateValue(d)
    <3> HIDE DEF d
    <3> QED BY ByMarker3
  <2> HIDE DEF d, e
  <2>5. DecodeDateValue(d) = Referred(e, k, "AMF3Date")
    BY <2>1, <2>2, <2>3, <2>4, Zenon DEF DecodeDateValue, Bind
  <2>6. Entry(e, o, k) = Ok(e, x)
    BY Zenon DEF Entry
  <2>7. Referred(e, k, "AMF3Date") = Ok(e, x)
    BY <2>2, <2>4, <2>6, Zenon DEF Referred, Bind
  <2> QED
    BY <2>5, <2>7, <2>8, Zenon DEF d, e
<1>5. ReadsMarked3(Date3, WriteU29(n), s, o, s, o, x)
  BY <1>4 DEF ReadsMarked3
<1> QED
  BY <1>5 DEF n

\* A date that is entered.
LEMMA ReadsNewDate3 ==
    ASSUME NEW s, NEW o, NEW t \in Bits, NEW x, x = <<"AMF3Date", TimeFrom3(t)>>
    PROVE  /\ WriteU29(1) \o t \in Seq(Byte)
           /\ ReadsMarked3(Date3, WriteU29(1) \o t, s, o, s, Append(o, x), x)
<1> DEFINE n == 1
           a == WriteU29(n)
           p == Append(o, x)
<1>0. t \in Seq(Byte) /\ Len(t) = 8
  BY BitsAre
<1>2. n \in Int /\ -TwoTo28 <= n /\ n < TwoTo28 /\ ~Refers(n)
  BY Powers DEF Refers
<1> HIDE DEF n
<1>3. /\ a \in Seq(Byte)
      /\ \A rest \in Seq(Byte) : \A u, q : ReadNumber(At3(a \o rest, u, q)) = Ok(At3(rest, u, q), n)
  BY <1>2, ReadNumberGives
<1> HIDE DEF a
<1>4. ASSUME NEW rest \in Seq(Byte), NEW m \in Nat
      PROVE  DecodeMarked3(Decoding3[m], At3((a \o t) \o rest, s, o), Date3) = Ok(At3(rest, s, p), x)
  <2> DEFINE y == t \o rest
             d == At3(a \o y, s, o)
             e == At3(y, s, o)
             f == At3(rest, s, o)
             g == At3(rest, s, p)
             q == TimeFrom3(t)
             r == ReadTime(e)
  <2>0. y \in Seq(Byte) /\ (a \o t) \o rest = a \o y
    <3>1. Join3(a, t, rest)
      BY <1>0, <1>3, JoinThree
    <3> QED BY <3>1, Zenon DEF Join3
  <2>1. ReadNumber(d) = Ok(e, n)
    <3> HIDE DEF y
    <3> QED BY <1>3, <2>0
  <2>2. e.ok /\ f.ok
    BY AtHas
  <2>5. r = Ok(f, q)
    <3>1. Take(e, 8) = Ok(f, t)
      BY <1>0, TakeJust3
    <3>2. Ok(f, t).d = f /\ Ok(f, t).val = t
      BY OkHas
    <3> HIDE DEF e, f, y
    <3> QED BY <2>2, <3>1, <3>2, Zenon DEF ReadTime, Bind
  <2>6. [f EXCEPT !.objs = Append(@, x)] = g
    <3>1. EnteredObject3Is(rest, s, o, x)
      BY EnteredObject3
    <3> QED BY <3>1, Zenon DEF EnteredObject3Is
  <2>7. DecodeMarked3(Decoding3[m], d, Date3) = DecodeDateValue(d)
    <3> HIDE DEF d
    <3> QED BY ByMarker3
  <2>4. Ok(e, n).d = e /\ Ok(e, n).val = n /\ Ok(f, x).d = f /\ Ok(f, x).val = x
    BY OkHas
  <2>a. x = <<"AMF3Date", q>>
    OBVIOUS
  <2> HIDE DEF d, e, f, g, y, r, p, q
  <2>9. Tagged("AMF3Date", r) = Ok(f, x)
    BY <2>2, <2>5, <2>a, TaggedGives
  <2>8. DecodeDateValue(d) = Ok(g, x)
    BY <1>2, <2>1, <2>2, <2>4, <2>6, <2>9, ZenonT(60) DEF DecodeDateValue, Bind, r
  <2> QED
    BY <2>0, <2>7, <2>8, Zenon DEF d, g
<1>5. a \o t \in Seq(Byte)
  BY <1>0, <1>3, JoinTwo DEF Join2
<1>6. ReadsMarked3(Date3, a \o t, s, o, s, p, x)
  BY <1>4 DEF ReadsMarked3
<1> QED
  BY <1>5, <1>6 DEF a, p, n

\* After its marker a date is written by its place or by its bits.
DateAfter(g, t) ==
  LET k == IndexOf(g.objs, t) IN IF k >= 0 THEN WriteNumber(g, 2 * k) ELSE EnteringDate(g, t)

DateHas3(g, f, t, b) ==
  /\ f \in Good3 /\ f.ok = g.ok /\ f.strs = g.strs /\ b \in Seq(Byte) /\ f.out = g.out \o b
  /\ \/ \E k \in 0 .. Len(g.objs) - 1 :
          g.objs[k + 1] = t /\ f.objs = g.objs /\ b = WriteU29(2 * k)
     \/ ~Known(g.objs, t) /\ f.objs = Append(g.objs, t) /\ b = WriteU29(1) \o MillisOf(t)

\* A date is written as its number in the table or entered.
LEMMA DateWritten3 ==
    ASSUME NEW g \in Good3, NEW t \in Bits
    PROVE  \E b : DateHas3(g, DateAfter(g, t), t, b)
<1> DEFINE k == IndexOf(g.objs, t)
           f == DateAfter(g, t)
<1>0. g.objs \in Seq(Bits) /\ Len(g.objs) \in Nat
  BY GoodHas3
<1>1. /\ k \in -1 .. Len(g.objs) - 1 /\ (k >= 0 => g.objs[k + 1] = t)
      /\ ~(k >= 0) => \A i \in DOMAIN g.objs : g.objs[i] # t
  BY <1>0, IndexIs
<1> HIDE DEF k
<1>2. CASE k >= 0
  <2>1. f = Write(g, WriteU29(2 * k))
    BY <1>2, Zenon DEF DateAfter, WriteNumber, k
  <2> DEFINE b == WriteU29(2 * k)
  <2>0. k \in 0 .. Len(g.objs) - 1
    BY <1>0, <1>1, <1>2
  <2>2. b \in Seq(Byte)
    <3>1. 2 * k \in Int
      BY <2>0
    <3> QED BY <3>1, WritesAGroup
  <2>5. b = WriteU29(2 * k)
    OBVIOUS
  <2> HIDE DEF b
  <2>3. /\ Write(g, b) \in Good3 /\ Write(g, b).out = g.out \o b /\ Write(g, b).ok = g.ok
        /\ Same3(g, Write(g, b))
    BY <2>2, WriteHas3
  <2>4. f = Write(g, b)
    BY <2>1 DEF b
  <2> HIDE DEF f
  <2>6. DateHas3(g, f, t, b)
    BY <1>1, <1>2, <2>0, <2>2, <2>3, <2>4, <2>5 DEF DateHas3, Same3
  <2> QED BY <2>6 DEF f
<1>3. CASE ~(k >= 0)
  <2>1. f = EnteringDate(g, t)
    BY <1>3, Zenon DEF DateAfter, k
  <2> DEFINE b == WriteU29(1) \o MillisOf(t)
             h == EnteringDate(g, t)
  <2>2. h \in Good3 /\ h.ok = g.ok /\ h.strs = g.strs /\ h.objs = Append(g.objs, t) /\ h.out = g.out \o b
    BY EnteringDateHas
  <2>3. b \in Seq(Byte)
    <3>1. MillisOf(t) \in Bits
      BY DatesAreBits
    <3> QED BY <3>1, ReadsNewDate3
  <2>4. ~Known(g.objs, t)
    BY <1>1, <1>3 DEF Known
  <2>5. b = WriteU29(1) \o MillisOf(t)
    OBVIOUS
  <2> HIDE DEF f, h, b
  <2>7. f = h
    BY <2>1 DEF h
  <2>6. DateHas3(g, f, t, b)
    BY <2>2, <2>3, <2>4, <2>5, <2>7 DEF DateHas3
  <2> QED BY <2>6 DEF f
<1> QED
  BY <1>2, <1>3

\* encodeDateValue writes the marker and then the date.
LEMMA EncodeDateIs ==
    ASSUME NEW e \in Good3, NEW t
    PROVE  EncodeDate(e, t) = DateAfter(Write(e, <<Date3>>), t)
<1> DEFINE a == <<Date3>>
           g == Write(e, a)
<1>1. a \in Seq(Byte)
  BY Markers3
<1>2. g.objs = e.objs
  BY <1>1, WriteHas3 DEF Same3
<1> HIDE DEF g
<1>3. DateAfter(g, t) = (LET k == IndexOf(e.objs, t) IN IF k >= 0 THEN WriteNumber(g, 2 * k) ELSE EnteringDate(g, t))
  BY <1>2, Zenon DEF DateAfter
<1> QED
  BY <1>3, Zenon DEF EncodeDate, EnteringDate, g

\* A date is written so that it is read, if the tables are in step.
LEMMA DateCarried3 ==
    ASSUME NEW t \in Bits, NEW v \in AnyValue, v = <<"time", t>>, v \in Fit3, NEW e \in Good3
    PROVE  Carries3("value", 0, e, EncodeDate(e, t), <<v>>, DateRead(t))
<1> DEFINE g == Write(e, <<Date3>>)
           f == DateAfter(g, t)
           x == DateRead(t)
           visited == <<v>>
<1>1. Date3 \in Byte /\ <<Date3>> \in Seq(Byte)
  BY Markers3
<1>2. g \in Good3
  BY <1>1, WriteHas3
<1>3. EncodeDate(e, t) = f
  BY EncodeDateIs
<1>b. MillisOf(t) \in Bits /\ TimeFrom3(MillisOf(t)) \in Bits
  BY DatesAreBits
<1>4. x \in Tabled
  BY <1>b DEF Tabled, DateRead
<1>5. \A T : AllIn(visited, T) <=> v \in T
  BY One3
<1>g. visited \in Seq(AnyValue)
  BY One3
<1> HIDE DEF g
<1>6. PICK b : DateHas3(g, f, t, b)
  BY <1>2, DateWritten3
<1> HIDE DEF f
<1>7. f \in Good3 /\ f.ok = g.ok /\ f.strs = g.strs /\ b \in Seq(Byte) /\ f.out = g.out \o b
  BY <1>6 DEF DateHas3
<1>8. g.strs \in StringTable /\ g.objs \in Seq(Bits) /\ Len(g.objs) <= Len(g.out) /\ Len(g.objs) \in Nat
      /\ g.out \in Seq(Byte)
  BY <1>2, GoodHas3
<1>9. ASSUME Readable3(f, visited)
      PROVE  ReadsAfter("marked", Date3, g, f, visited, x, b)
  <2> SUFFICES ASSUME NEW w \in Seq(AnyValue), NEW o \in ObjectTable, InStep(g.objs, o, visited \o w)
               PROVE  \E p \in ObjectTable : InStep(f.objs, p, w) /\ ReadsAs("marked", Date3, b, g.strs, o, f.strs, p, x)
    BY Zenon DEF ReadsAfter
  <2> SUFFICES \E p \in ObjectTable : InStep(f.objs, p, w) /\ ReadsMarked3(Date3, b, g.strs, o, g.strs, p, x)
    BY <1>7 DEF ReadsAs
  <2>1. CASE \E k \in 0 .. Len(g.objs) - 1 : g.objs[k + 1] = t /\ f.objs = g.objs /\ b = WriteU29(2 * k)
    <3>1. PICK k \in 0 .. Len(g.objs) - 1 : g.objs[k + 1] = t /\ f.objs = g.objs /\ b = WriteU29(2 * k)
      BY <2>1
    <3> DEFINE i == k + 1
    <3>2. i \in DOMAIN g.objs /\ g.objs[i] = t
      BY <1>8, <3>1
    <3> HIDE DEF i
    <3>3. o[i] = DateRead(t) /\ InStep(g.objs, o, w)
      BY <3>2, StepKnown
    <3>4. Len(g.objs) <= Len(o) /\ Len(o) \in Nat
      BY DEF InStep, ObjectTable
    <3>5. k \in 0 .. Len(o) - 1 /\ o[k + 1] = x
      BY <1>8, <3>3, <3>4 DEF i
    <3>6. 2 * k < TwoTo28
      <4>1. Join2(g.out, b)
        BY <1>7, <1>8, JoinTwo
      <4> DEFINE h == Len(g.out \o b)
      <4>2. h = Len(f.out) /\ h = Len(g.out) + Len(b) /\ Len(g.out) \in Nat /\ Len(b) \in Nat
        BY <1>7, <4>1 DEF Join2
      <4> HIDE DEF h
      <4>3. Len(f.out) < TwoTo24
        BY <1>9 DEF Readable3
      <4> QED BY <1>8, <4>2, <4>3, Powers
    <3> HIDE DEF visited
    <3>7. x = o[k + 1] /\ x[1] = "AMF3Date"
      BY <3>5 DEF DateRead
    <3>8. ReadsMarked3(Date3, WriteU29(2 * k), g.strs, o, g.strs, o, x)
      <4> HIDE DEF x
      <4> QED BY <3>5, <3>6, <3>7, ReadsKnownDate3
    <3>9. ReadsMarked3(Date3, b, g.strs, o, g.strs, o, x) /\ InStep(f.objs, o, w)
      BY <3>1, <3>3, <3>8
    <3> HIDE DEF x
    <3> QED
      BY <3>9, Zenon
  <2>2. CASE ~Known(g.objs, t) /\ f.objs = Append(g.objs, t) /\ b = WriteU29(1) \o MillisOf(t)
    <3> DEFINE p == Append(o, x)
    <3>1. InStep(Append(g.objs, t), p, w)
      <4>1. InStep(g.objs, o, <<v>> \o w)
        OBVIOUS
      <4> HIDE DEF visited, x
      <4>2. \A y \in Tabled : y = DateRead(t) => InStep(Append(g.objs, t), Append(o, y), w)
        BY <1>8, <2>2, <4>1, StepNew
      <4> QED BY <1>4, <4>2 DEF x
    <3>2. ReadsMarked3(Date3, WriteU29(1) \o MillisOf(t), g.strs, o, g.strs, p, x)
      <4>1. x = <<"AMF3Date", TimeFrom3(MillisOf(t))>>
        BY DEF DateRead
      <4> HIDE DEF x
      <4> QED BY <1>b, <4>1, ReadsNewDate3
    <3>3. p \in ObjectTable
      BY <1>4 DEF ObjectTable
    <3> HIDE DEF p, x
    <3>4. InStep(f.objs, p, w) /\ ReadsMarked3(Date3, b, g.strs, o, g.strs, p, x)
      BY <2>2, <3>1, <3>2
    <3> QED
      BY <3>3, <3>4, Zenon
  <2> QED
    BY <1>6, <2>1, <2>2 DEF DateHas3
<1> HIDE DEF x, visited
<1>10. Carries3("marked", Date3, g, f, visited, x)
  <2>1. f.ok <=> g.ok /\ AllIn(visited, Fit3)
    BY <1>5, <1>7
  <2> QED
    BY <1>7, <1>9, <2>1, Zenon DEF Carries3
<1>11. Carries3("value", 0, e, f, visited, x)
  BY <1>1, <1>10, <1>g, WithMarker3 DEF g
<1> QED
  BY <1>3, <1>11 DEF x, visited

\* In a scalar there is nothing else.
LEMMA VisitScalar ==
    ASSUME NEW v \in Scalar, NEW vis
    PROVE  VisitBy(vis, v) = <<v>> /\ v \in AnyValue /\ (v \in Fit3 <=> v[1] \in Tags3)
<1>1. PairsOf(v) = <<>> /\ ElementsOf(v) = <<>>
  BY Contents
<1> DEFINE a == [i \in DOMAIN PairsOf(v) |-> vis[PairsOf(v)[i][2]]]
           b == [i \in DOMAIN ElementsOf(v) |-> vis[ElementsOf(v)[i]]]
<1>2. a = <<>> /\ b = <<>>
  BY <1>1
<1>3. VisitBy(vis, v) = <<v>> \o FlattenSeq(a \o b)
  BY Zenon DEF VisitBy
<1> HIDE DEF a, b
<1>4. a \o b = <<>> /\ <<v>> \o <<>> = <<v>>
  BY <1>2
<1>5. VisitBy(vis, v) = <<v>>
  BY <1>3, <1>4, FlattenNone
<1>6. v \in AnyValue
  BY ValuesAre
<1> QED
  BY <1>5, <1>6 DEF Fit3, Encodable3

\* A scalar that is written by its marker and bytes that depend on no table.
LEMMA PlainWritten3 ==
    ASSUME NEW v \in AnyValue, v \in Fit3, v[1] # "time", NEW e \in Good3, NEW marker \in Byte,
           NEW c \in Seq(Byte), NEW x,
           v \in Plain3 => \A s, o : ReadsMarked3(marker, c, s, o, s, o, x)
    PROVE  /\ Carries3("value", 0, e, Write(Write(e, <<marker>>), c), <<v>>, x)
           /\ Carries3("value", 0, e, Write(e, <<marker>> \o c), <<v>>, x)
<1> DEFINE a == <<marker>>
           g == Write(e, a)
           f == Write(g, c)
           visited == <<v>>
<1>1. a \in Seq(Byte) /\ visited \in Seq(AnyValue)
  BY One3
<1>2. g \in Good3 /\ e \in Encoder3
  BY <1>1, WriteHas3, GoodHas3
<1>3. Write(e, a \o c) = f
  BY <1>1, <1>2, WriteTwice3
<1> HIDE DEF g
<1>4. f \in Good3 /\ f.out = g.out \o c /\ f.ok = g.ok /\ f.strs = g.strs /\ f.objs = g.objs
  BY <1>2, WriteHas3 DEF Same3
<1> HIDE DEF f
<1>5. ASSUME v \in Plain3, NEW o \in ObjectTable
      PROVE  ReadsAs("marked", marker, c, g.strs, o, f.strs, o, x)
  <2>1. ReadsMarked3(marker, c, g.strs, o, f.strs, o, x)
    BY <1>4, <1>5
  <2> QED BY <2>1 DEF ReadsAs
<1>6. Carries3("marked", marker, g, f, visited, x)
  BY <1>2, <1>4, <1>5, ScalarWritten3
<1> HIDE DEF visited
<1>7. Carries3("value", 0, e, f, visited, x)
  BY <1>1, <1>6, WithMarker3 DEF g
<1> QED
  BY <1>3, <1>7 DEF f, g, visited

\* A string.
LEMMA StringCarried3 ==
    ASSUME NEW v \in AnyValue, v \in Fit3, v[1] # "time", NEW e \in Good3, NEW s \in Seq(Byte)
    PROVE  Carries3("value", 0, e, WriteStringWithReference(Write(e, <<String3>>), s), <<v>>,
                    <<"AMF3String", s>>)
<1> DEFINE a == <<String3>>
           g == Write(e, a)
           f == WriteStringWithReference(g, s)
           visited == <<v>>
           x == <<"AMF3String", s>>
<1>1. a \in Seq(Byte) /\ String3 \in Byte /\ visited \in Seq(AnyValue)
  BY One3, Markers3
<1>2. g \in Good3
  BY <1>1, WriteHas3
<1> HIDE DEF g
<1>3. StringHas3(g, f, s)
  BY <1>2, StringWritten3
<1> HIDE DEF f
<1>4. PICK b \in Seq(Byte) : f.out = g.out \o b /\ (Len(f.out) < TwoTo24 => ReadsString3(b, g.strs, f.strs, s))
  BY <1>3, Zenon DEF StringHas3
<1>5. f \in Good3 /\ f.ok = g.ok /\ f.objs = g.objs
  BY <1>3 DEF StringHas3
<1>6. ASSUME Len(f.out) < TwoTo24, NEW o \in ObjectTable
      PROVE  ReadsAs("marked", String3, b, g.strs, o, f.strs, o, x)
  <2>1. ReadsMarked3(String3, b, g.strs, o, f.strs, o, x)
    BY <1>4, <1>6, ReadsStringMarked3
  <2> QED BY <2>1 DEF ReadsAs
<1> HIDE DEF x
<1>7. Carries3("marked", String3, g, f, visited, x)
  BY <1>2, <1>4, <1>5, <1>6, ScalarWritten3
<1> HIDE DEF visited
<1>8. Carries3("value", 0, e, f, visited, x)
  BY <1>1, <1>7, WithMarker3 DEF g
<1> QED
  BY <1>8 DEF f, g, visited, x

\* A scalar is written so that it is read as what it becomes, or not at all.
LEMMA ScalarCarried3 ==
    ASSUME NEW v \in Scalar, NEW e \in Good3, NEW enc, NEW vis, NEW bec
    PROVE  Carries3("value", 0, e, EncodeByType3(enc, e, v), VisitBy(vis, v), ByType3(bec, v))
<1> DEFINE visited == <<v>>
           f == EncodeByType3(enc, e, v)
           x == ByType3(bec, v)
<1>0. WrittenByType3(enc, e, v)
  BY EncodedByType3
<1>1. VisitBy(vis, v) = visited /\ v \in AnyValue /\ (v \in Fit3 <=> v[1] \in Tags3)
  BY VisitScalar
<1>2. \A T : AllIn(visited, T) <=> v \in T
  BY <1>1, One3
<1>b. <<>> \in Seq(Byte)
  OBVIOUS
<1>3. CASE v[1] \notin Tags3
  <2>1. f = Unsupported(e)
    BY <1>0, <1>3, Zenon DEF WrittenByType3
  <2>2. ~AllIn(visited, Fit3)
    BY <1>1, <1>2, <1>3
  <2> HIDE DEF f, x, visited
  <2>3. Carries3("value", 0, e, Unsupported(e), visited, x)
    BY <2>2, Refused3
  <2> QED BY <1>1, <2>1, <2>3 DEF f, x
<1>4. SUFFICES ASSUME v[1] \in Tags3 PROVE Carries3("value", 0, e, f, <<v>>, x)
  BY <1>1, <1>3
<1>5. v \in Fit3 /\ v \in AnyValue
  BY <1>1, <1>4
<1>6. ASSUME NEW marker \in Byte, NEW c \in Seq(Byte), NEW y, x = y,
             v \in Plain3 => \A s, o : ReadsMarked3(marker, c, s, o, s, o, y),
             v[1] # "time",
             f = Write(e, <<marker>> \o c) \/ f = Write(Write(e, <<marker>>), c)
      PROVE  Carries3("value", 0, e, f, <<v>>, x)
  <2>1. /\ Carries3("value", 0, e, Write(Write(e, <<marker>>), c), <<v>>, y)
        /\ Carries3("value", 0, e, Write(e, <<marker>> \o c), <<v>>, y)
    BY <1>5, <1>6, PlainWritten3
  <2> HIDE DEF f, x
  <2> QED BY <1>6, <2>1
<1>7. ASSUME NEW marker \in Byte, NEW y, x = y, \A s, o : ReadsMarked3(marker, <<>>, s, o, s, o, y),
             v[1] # "time", f = Write(e, <<marker>>)
      PROVE  Carries3("value", 0, e, f, <<v>>, x)
  <2>1. <<marker>> = <<marker>> \o <<>>
    OBVIOUS
  <2> DEFINE c == <<>>
  <2> HIDE DEF f, x, c
  <2>2. f = Write(e, <<marker>> \o c)
    BY <1>7, <2>1, Zenon DEF c
  <2>3. c \in Seq(Byte) /\ \A s, o : ReadsMarked3(marker, c, s, o, s, o, y)
    BY <1>b, <1>7 DEF c
  <2> QED BY <1>6, <1>7, <2>2, <2>3
<1>8. CASE v[1] \in {"nil", "AMF3Null", "AMF3Undefined"}
  <2>1. CASE v[1] = "AMF3Undefined"
    <3>1. f = Write(e, <<Undefined3>>)
      BY <1>0, <2>1, Zenon DEF WrittenByType3
    <3>2. v = <<"AMF3Undefined">> /\ v[1] # "time"
      BY <2>1 DEF Scalar
    <3>3. x = v
      BY <2>1, BecomesByType3
    <3>4. x = <<"AMF3Undefined">>
      BY <3>2, <3>3, Zenon
    <3>5. Undefined3 \in Byte
      BY Markers3
    <3> HIDE DEF f, x
    <3> QED BY <1>7, <3>1, <3>2, <3>4, <3>5, ReadsNothing3
  <2>2. CASE v[1] \in {"nil", "AMF3Null"}
    <3>1. f = Write(e, <<Null3>>)
      BY <1>0, <2>2, Zenon DEF WrittenByType3
    <3>2. x = <<"AMF3Null">>
      <4>1. CASE v[1] = "nil"
        BY <4>1, BecomesByType3
      <4>2. CASE v[1] = "AMF3Null"
        <5>1. v = <<"AMF3Null">>
          BY <4>2 DEF Scalar
        <5>2. x = v
          BY <4>2, BecomesByType3
        <5> QED BY <5>1, <5>2, Zenon
      <4> QED BY <2>2, <4>1, <4>2
    <3>3. Null3 \in Byte /\ v[1] # "time"
      BY <2>2, Markers3
    <3> HIDE DEF f, x
    <3> QED BY <1>7, <3>1, <3>2, <3>3, ReadsNothing3
  <2> QED BY <1>8, <2>1, <2>2
<1>9. CASE v[1] \in {"bool", "AMF3Boolean"}
  <2>1. v[2] \in BOOLEAN /\ v[1] # "time"
    BY <1>9 DEF Scalar
  <2>2. f = Write(e, <<IF v[2] THEN True3 ELSE False3>>)
    BY <1>0, <1>9, Zenon DEF WrittenByType3
  <2>3. x = <<"AMF3Boolean", v[2]>>
    <3>1. CASE v[1] = "bool"
      BY <3>1, BecomesByType3
    <3>2. CASE v[1] = "AMF3Boolean"
      <4>1. v = <<"AMF3Boolean", v[2]>>
        BY <3>2 DEF Scalar
      <4>2. x = v
        BY <3>2, BecomesByType3
      <4> QED BY <4>1, <4>2, Zenon
    <3> QED BY <1>9, <3>1, <3>2
  <2>4. True3 \in Byte /\ False3 \in Byte
    BY Markers3
  <2> HIDE DEF f, x
  <2>5. CASE v[2] = TRUE
    <3>1. f = Write(e, <<True3>>) /\ x = <<"AMF3Boolean", TRUE>>
      BY <2>2, <2>3, <2>5, Zenon
    <3> QED BY <1>7, <2>1, <2>4, <3>1, ReadsNothing3
  <2>6. CASE v[2] = FALSE
    <3>1. f = Write(e, <<False3>>) /\ x = <<"AMF3Boolean", FALSE>>
      BY <2>2, <2>3, <2>6, Zenon
    <3> QED BY <1>7, <2>1, <2>4, <3>1, ReadsNothing3
  <2> QED BY <2>1, <2>5, <2>6
<1>10. CASE v[1] = "AMF3Integer" \/ (v[1] = "int" /\ v[2] \in MinInt .. MaxInt)
  <2> DEFINE c == WriteU29(v[2])
  <2>1. v[2] \in Int /\ v[1] # "time"
    BY <1>10, FloatAssumption DEF Scalar
  <2>2. c \in Seq(Byte)
    BY <2>1, WritesAGroup
  <2>3. f = Write(Write(e, <<Integer3>>), c)
    BY <1>0, <1>10, Zenon DEF WrittenByType3, WriteNumber
  <2>4. x = <<"AMF3Integer", v[2]>>
    <3>1. CASE v[1] = "int" /\ v[2] \in MinInt .. MaxInt
      <4>1. x = Int3(v[2])
        BY <3>1, BecomesByType3
      <4> QED BY <3>1, <4>1, Zenon DEF Int3
    <3>2. CASE v[1] = "AMF3Integer"
      <4>1. v = <<"AMF3Integer", v[2]>>
        BY <3>2 DEF Scalar
      <4>2. x = v
        BY <3>2, BecomesByType3
      <4> QED BY <4>1, <4>2, Zenon
    <3> QED BY <1>10, <3>1, <3>2
  <2>5. v \in Plain3 => v[2] \in MinInt .. MaxInt
    BY <1>10 DEF Plain3
  <2>6. v \in Plain3 => \A s, o : ReadsMarked3(Integer3, c, s, o, s, o, <<"AMF3Integer", v[2]>>)
    BY <2>5, ReadsInteger3
  <2>7. Integer3 \in Byte
    BY Markers3
  <2> HIDE DEF f, x, c
  <2> QED BY <1>6, <2>1, <2>2, <2>3, <2>4, <2>6, <2>7
<1>11. CASE v[1] \in {"float64", "AMF3Double"} \/ (v[1] = "int" /\ v[2] \notin MinInt .. MaxInt)
  <2>1. PICK c \in Bits : f = Write(e, <<Double3>> \o c) /\ x = <<"AMF3Double", c>>
    <3>1. CASE v[1] = "int" /\ v[2] \notin MinInt .. MaxInt
      <4>1. Float64[v[2]] \in Bits
        BY <3>1, FloatAssumption DEF Scalar
      <4>2. f = Write(e, <<Double3>> \o Float64[v[2]])
        BY <1>0, <3>1, Zenon DEF WrittenByType3
      <4>3. x = Int3(v[2])
        BY <3>1, BecomesByType3
      <4>4. x = <<"AMF3Double", Float64[v[2]]>>
        BY <3>1, <4>3, Zenon DEF Int3
      <4> HIDE DEF f, x
      <4> QED BY <4>1, <4>2, <4>4
    <3>2. CASE v[1] = "float64"
      <4>1. v[2] \in Bits
        BY <3>2 DEF Scalar
      <4>2. f = Write(e, <<Double3>> \o v[2])
        BY <1>0, <3>2, Zenon DEF WrittenByType3
      <4>3. x = <<"AMF3Double", v[2]>>
        BY <3>2, BecomesByType3
      <4> HIDE DEF f, x
      <4> QED BY <4>1, <4>2, <4>3
    <3>3. CASE v[1] = "AMF3Double"
      <4>1. v[2] \in Bits /\ v = <<"AMF3Double", v[2]>>
        BY <3>3 DEF Scalar
      <4>2. f = Write(e, <<Double3>> \o v[2])
        BY <1>0, <3>3, Zenon DEF WrittenByType3
      <4>3. x = v
        BY <3>3, BecomesByType3
      <4>4. x = <<"AMF3Double", v[2]>>
        BY <4>1, <4>3, Zenon
      <4> HIDE DEF f, x
      <4> QED BY <4>1, <4>2, <4>4
    <3> QED BY <1>11, <3>1, <3>2, <3>3
  <2>2. c \in Seq(Byte)
    BY BitsAre
  <2>3. \A s, o : ReadsMarked3(Double3, c, s, o, s, o, <<"AMF3Double", c>>)
    BY ReadsDouble3
  <2>4. Double3 \in Byte /\ v[1] # "time"
    BY <1>11, Markers3
  <2> HIDE DEF f, x
  <2> QED BY <1>6, <2>1, <2>2, <2>3, <2>4
<1>12. CASE v[1] \in {"string", "AMF3String"}
  <2>1. v[2] \in Seq(Byte) /\ v[1] # "time"
    BY <1>12 DEF Scalar, GoString, List
  <2>2. f = WriteStringWithReference(Write(e, <<String3>>), v[2])
    BY <1>0, <1>12, Zenon DEF WrittenByType3
  <2>3. x = <<"AMF3String", v[2]>>
    <3>1. CASE v[1] = "string"
      BY <3>1, BecomesByType3
    <3>2. CASE v[1] = "AMF3String"
      <4>1. v = <<"AMF3String", v[2]>>
        BY <3>2 DEF Scalar
      <4>2. x = v
        BY <3>2, BecomesByType3
      <4> QED BY <4>1, <4>2, Zenon
    <3> QED BY <1>12, <3>1, <3>2
  <2>4. Carries3("value", 0, e, WriteStringWithReference(Write(e, <<String3>>), v[2]), <<v>>,
                 <<"AMF3String", v[2]>>)
    BY <1>5, <2>1, StringCarried3
  <2> HIDE DEF f, x
  <2> QED BY <2>2, <2>3, <2>4, Zenon
<1>13. CASE v[1] = "time"
  <2>1. v[2] \in Bits /\ v = <<"time", v[2]>>
    BY <1>13 DEF Scalar
  <2>2. f = EncodeDate(e, v[2])
    BY <1>0, <1>13, Zenon DEF WrittenByType3
  <2>3. x = DateRead(v[2])
    BY <1>13, BecomesByType3
  <2>4. Carries3("value", 0, e, EncodeDate(e, v[2]), <<v>>, DateRead(v[2]))
    <3> DEFINE t == v[2]
    <3>1. t \in Bits /\ v = <<"time", t>>
      BY <2>1
    <3> HIDE DEF t
    <3>2. Carries3("value", 0, e, EncodeDate(e, t), <<v>>, DateRead(t))
      BY <1>5, <3>1, DateCarried3
    <3> QED BY <3>2 DEF t
  <2> HIDE DEF f, x
  <2> QED BY <2>2, <2>3, <2>4, Zenon
<1>14. CASE v[1] = "AMF3Date"
  <2> DEFINE a == <<Date3>>
             g == Write(e, a)
             t == v[2]
             u == <<"time", t>>
             y == DateRead(t)
             h == EncodeDate(g, t)
  <2>1. t \in Bits /\ a \in Seq(Byte)
    BY <1>14, Markers3 DEF Scalar
  <2>2. f = h
    BY <1>0, <1>14, Zenon DEF WrittenByType3
  <2>3. u \in Scalar
    BY <2>1 DEF Scalar
  <2>4. u \in AnyValue /\ u \in Fit3
    BY <2>3, VisitScalar DEF Tags3
  <2>5. g \in Good3 /\ g.out = e.out \o a /\ g.ok = e.ok
    BY <2>1, WriteHas3
  <2>9. u = <<"time", t>>
    OBVIOUS
  <2> HIDE DEF g, t, h, a, u
  <2>6. Carries3("value", 0, g, h, <<u>>, y)
    BY <2>1, <2>4, <2>5, <2>9, DateCarried3 DEF h
  <2>a. AllIn(<<u>>, Fit3)
    BY <2>4, One3
  <2>7. h \in Good3 /\ h.ok = g.ok
    <3>1. h.ok <=> g.ok
      BY <2>6, <2>a, Zenon DEF Carries3
    <3>2. h \in Good3
      BY <2>6, Zenon DEF Carries3
    <3>3. h.ok \in BOOLEAN /\ g.ok \in BOOLEAN
      BY <2>5, <3>2, GoodHas3
    <3> QED BY <3>1, <3>2, <3>3
  <2>8. PICK b \in Seq(Byte) : h.out = g.out \o b
    BY <2>6, Zenon DEF Carries3
  <2>10. a \o b \in Seq(Byte) /\ h.out = e.out \o (a \o b)
    <3>1. e.out \in Seq(Byte)
      BY GoodHas3
    <3> DEFINE o == e.out
    <3> HIDE DEF o
    <3>2. Join3(o, a, b)
      BY <2>1, <3>1, JoinThree DEF o
    <3>3. (o \o a) \o b = o \o (a \o b) /\ a \o b \in Seq(Byte)
      BY <3>2, Zenon DEF Join3
    <3> QED BY <2>5, <2>8, <3>3 DEF o
  <2>11. v \notin Plain3
    BY <1>14 DEF Plain3
  <2>12. h.ok = e.ok
    BY <2>5, <2>7
  <2> HIDE DEF x
  <2>13. Carries3("value", 0, e, h, <<v>>, x)
    BY <1>5, <2>7, <2>10, <2>11, <2>12, Unread3
  <2> QED BY <2>2, <2>13
<1>15. v[1] \notin {"slice", "map", "AMF3Array", "AMF3Object"}
  BY DEF Scalar
<1> QED
  BY <1>4, <1>8, <1>9, <1>10, <1>11, <1>12, <1>13, <1>14, <1>15 DEF Tags3, GoTags

-----------------------------------------------------------------------------
(* AMF3: arrays and objects, and so every value.                           *)

\* What leaves the tables of objects as they are.
LEMMA NothingVisited3 ==
    ASSUME NEW e \in Good3, NEW f \in Good3, f.ok = e.ok, f.objs = e.objs,
           NEW b \in Seq(Byte), f.out = e.out \o b, NEW k, NEW n, NEW x,
           Len(f.out) < TwoTo24 => \A o \in ObjectTable : ReadsAs(k, n, b, e.strs, o, f.strs, o, x)
    PROVE  Carries3(k, n, e, f, <<>>, x)
<1> DEFINE none == <<>>
<1>1. \A T : AllIn(none, T)
  BY DEF AllIn
<1>2. ASSUME Readable3(f, none)
      PROVE  ReadsAfter(k, n, e, f, none, x, b)
  <2> SUFFICES ASSUME NEW w \in Seq(AnyValue), NEW o \in ObjectTable, InStep(e.objs, o, none \o w)
               PROVE  \E p \in ObjectTable : InStep(f.objs, p, w) /\ ReadsAs(k, n, b, e.strs, o, f.strs, p, x)
    BY Zenon DEF ReadsAfter
  <2>1. none \o w = w
    OBVIOUS
  <2> HIDE DEF none
  <2>2. InStep(f.objs, o, w)
    BY <2>1
  <2>3. ReadsAs(k, n, b, e.strs, o, f.strs, o, x)
    BY <1>2 DEF Readable3
  <2> QED
    BY <2>2, <2>3, Zenon
<1> HIDE DEF none
<1>3. f.ok <=> e.ok /\ AllIn(none, Fit3)
  BY <1>1
<1>4. Carries3(k, n, e, f, none, x)
  BY <1>2, <1>3, Zenon DEF Carries3
<1> QED
  BY <1>4 DEF none

\* A string that is written is read.
LEMMA KeyWritten3 ==
    ASSUME NEW e \in Good3, NEW s \in Seq(Byte)
    PROVE  /\ Carries3("key", 0, e, WriteStringWithReference(e, s), <<>>, s)
           /\ s = <<>> => Carries3("pairs", 0, e, WriteStringWithReference(e, s), <<>>, s)
<1> DEFINE f == WriteStringWithReference(e, s)
<1>1. StringHas3(e, f, s)
  BY StringWritten3
<1> HIDE DEF f
<1>2. f \in Good3 /\ f.ok = e.ok /\ f.objs = e.objs
  BY <1>1 DEF StringHas3
<1>3. PICK b \in Seq(Byte) : /\ f.out = e.out \o b
                             /\ Len(f.out) < TwoTo24 => ReadsString3(b, e.strs, f.strs, s)
  BY <1>1, Zenon DEF StringHas3
<1>4. Len(f.out) < TwoTo24 => \A o \in ObjectTable : ReadsAs("key", 0, b, e.strs, o, f.strs, o, s)
  BY <1>3 DEF ReadsAs
<1>5. Carries3("key", 0, e, f, <<>>, s)
  BY <1>2, <1>3, <1>4, NothingVisited3
<1>6. ASSUME s = <<>> PROVE Carries3("pairs", 0, e, f, <<>>, s)
  <2>1. ASSUME Len(f.out) < TwoTo24, NEW o \in ObjectTable
        PROVE  ReadsAs("pairs", 0, b, e.strs, o, f.strs, o, s)
    <3>1. ReadsString3(b, e.strs, f.strs, s) /\ e.strs \in StringTable /\ f.strs \in StringTable
      BY <1>2, <1>3, <2>1, GoodHas3
    <3>2. ReadsPairs3(b, e.strs, o, f.strs, o, s)
      BY <1>6, <3>1, ReadsNoPair3
    <3> QED
      BY <3>2 DEF ReadsAs
  <2> QED
    BY <1>2, <1>3, <2>1, NothingVisited3
<1> QED
  BY <1>5, <1>6 DEF f

\* No values.
LEMMA NoneWritten3 ==
    ASSUME NEW e \in Good3
    PROVE  Carries3("dense", 0, e, e, <<>>, <<>>)
<1> DEFINE b == <<>>
<1>1. b \in Seq(Byte) /\ e.out = e.out \o b
  BY GoodHas3
<1>2. ASSUME NEW o \in ObjectTable
      PROVE  ReadsAs("dense", 0, b, e.strs, o, e.strs, o, <<>>)
  <2>1. ReadsDense3(b, e.strs, o, e.strs, o, 0, <<>>)
    BY GoodHas3, ReadsNoDense3
  <2> QED
    BY <2>1 DEF ReadsAs
<1> HIDE DEF b
<1> QED
  BY <1>1, <1>2, NothingVisited3

\* A key and a value are a pair.
LEMMA ComposesPair3 ==
    ASSUME NEW key, NEW x, NEW y, y[1] = key, y[2] = x
    PROVE  Composes("key", 0, key, "value", 0, x, "pair", 0, y)
<1> SUFFICES ASSUME NEW b \in Seq(Byte), NEW c \in Seq(Byte), NEW r \in StringTable,
                    NEW s \in StringTable, NEW t \in StringTable, NEW o \in ObjectTable,
                    NEW p \in ObjectTable, NEW q \in ObjectTable,
                    ReadsAs("key", 0, b, r, o, s, p, key), ReadsAs("value", 0, c, s, p, t, q, x)
             PROVE  ReadsAs("pair", 0, b \o c, r, o, t, q, y)
  BY DEF Composes
<1>1. p = o /\ ReadsString3(b, r, s, key) /\ Reads3(c, s, p, t, q, x)
  BY Zenon DEF ReadsAs
<1> DEFINE a == b \o c
<1>2. a = b \o c /\ ReadsString3(b, r, s, y[1]) /\ Reads3(c, s, o, t, q, y[2])
  BY <1>1
<1> HIDE DEF a
<1>3. ReadsPair3(a, r, o, t, q, y)
  BY <1>2, Zenon DEF ReadsPair3
<1> QED
  BY <1>3 DEF ReadsAs, a

\* If no key of the pairs is empty, neither is that of the first, nor any other.
LEMMA NoEmptyFirst ==
    ASSUME NEW T, NEW y \in T, NEW xs \in Seq(T), NoEmpty(<<y>> \o xs)
    PROVE  y[1] # <<>> /\ NoEmpty(xs)
<1> DEFINE z == <<y>> \o xs
<1>1. 1 \in DOMAIN z /\ z[1] = y /\ \A i \in DOMAIN xs : i + 1 \in DOMAIN z /\ z[i + 1] = xs[i]
  BY OneMore
<1>2. NoEmpty(z)
  OBVIOUS
<1> HIDE DEF z
<1> QED
  BY <1>1, <1>2 DEF NoEmpty

\* A pair before others.
LEMMA ComposesPairs3 ==
    ASSUME NEW T, NEW y \in T, y = <<y[1], y[2]>>, NEW xs \in Seq(T)
    PROVE  Composes("pair", 0, y, "pairs", 0, xs, "pairs", 0, <<y>> \o xs)
<1> DEFINE z == <<y>> \o xs
<1> SUFFICES ASSUME NEW b \in Seq(Byte), NEW c \in Seq(Byte), NEW r \in StringTable,
                    NEW s \in StringTable, NEW t \in StringTable, NEW o \in ObjectTable,
                    NEW p \in ObjectTable, NEW q \in ObjectTable,
                    ReadsAs("pair", 0, b, r, o, s, p, y), ReadsAs("pairs", 0, c, s, p, t, q, xs)
             PROVE  ReadsAs("pairs", 0, b \o c, r, o, t, q, z)
  BY DEF Composes
<1> DEFINE a == b \o c
<1>1. ReadsPair3(b, r, o, s, p, y) /\ (NoEmpty(xs) => ReadsPairs3(c, s, p, t, q, xs))
  BY Zenon DEF ReadsAs
<1>2. ASSUME NoEmpty(z)
      PROVE  ReadsPairs3(a, r, o, t, q, z)
  <2> HIDE DEF a
  <2>1. y[1] # <<>> /\ NoEmpty(xs)
    BY <1>2, NoEmptyFirst
  <2>2. PICK d \in Seq(Byte), h \in Seq(Byte) : \E u \in StringTable :
          b = d \o h /\ ReadsString3(d, r, u, y[1]) /\ Reads3(h, u, o, s, p, y[2])
    BY <1>1, Zenon DEF ReadsPair3
  <2>3. PICK u \in StringTable :
          b = d \o h /\ ReadsString3(d, r, u, y[1]) /\ Reads3(h, u, o, s, p, y[2])
    BY <2>2
  <2>4. ReadsPairs3(c, s, p, t, q, xs)
    BY <1>1, <2>1
  <2> DEFINE key == y[1]
             x == y[2]
  <2>5. key # <<>> /\ ReadsString3(d, r, u, key) /\ Reads3(h, u, o, s, p, x) /\ y = <<key, x>>
    BY <2>1, <2>3
  <2> HIDE DEF key, x
  <2>6. ReadsPairs3((d \o h) \o c, r, o, t, q, <<<<key, x>>>> \o xs)
    BY <2>4, <2>5, ReadsOnePair3
  <2> QED
    BY <2>3, <2>5, <2>6, Zenon DEF a
<1> HIDE DEF z, a
<1>3. ReadsAs("pairs", 0, a, r, o, t, q, z)
  BY <1>2 DEF ReadsAs
<1> QED
  BY <1>3 DEF a

\* A value before others.
LEMMA ComposesDense3 ==
    ASSUME NEW x, NEW k \in Nat, NEW xs, NEW n, n = k + 1
    PROVE  Composes("value", 0, x, "dense", k, xs, "dense", n, <<x>> \o xs)
<1> DEFINE z == <<x>> \o xs
<1> SUFFICES ASSUME NEW b \in Seq(Byte), NEW c \in Seq(Byte), NEW r \in StringTable,
                    NEW s \in StringTable, NEW t \in StringTable, NEW o \in ObjectTable,
                    NEW p \in ObjectTable, NEW q \in ObjectTable,
                    ReadsAs("value", 0, b, r, o, s, p, x), ReadsAs("dense", k, c, s, p, t, q, xs)
             PROVE  ReadsAs("dense", n, b \o c, r, o, t, q, z)
  BY DEF Composes
<1>1. Reads3(b, r, o, s, p, x) /\ ReadsDense3(c, s, p, t, q, k, xs)
  BY Zenon DEF ReadsAs
<1>2. ReadsDense3(b \o c, r, o, t, q, n, z)
  BY <1>1, ReadsOneDense3
<1> HIDE DEF z
<1> QED
  BY <1>2 DEF ReadsAs

\* The named elements and the others are what an array has.
LEMMA ComposesArray3 ==
    ASSUME NEW named, NEW n, NEW dense, NEW z, z[1] = named, z[2] = dense
    PROVE  Composes("pairs", 0, named, "dense", n, dense, "array", n, z)
<1> SUFFICES ASSUME NEW b \in Seq(Byte), NEW c \in Seq(Byte), NEW r \in StringTable,
                    NEW s \in StringTable, NEW t \in StringTable, NEW o \in ObjectTable,
                    NEW p \in ObjectTable, NEW q \in ObjectTable,
                    ReadsAs("pairs", 0, b, r, o, s, p, named), ReadsAs("dense", n, c, s, p, t, q, dense)
             PROVE  ReadsAs("array", n, b \o c, r, o, t, q, z)
  BY DEF Composes
<1> DEFINE a == b \o c
<1>1. a = b \o c /\ (NoEmpty(z[1]) => ReadsPairs3(b, r, o, s, p, z[1])) /\ ReadsDense3(c, s, p, t, q, n, z[2])
  BY DEF ReadsAs
<1> HIDE DEF a
<1>2. ReadsArray3(a, r, o, t, q, n, z)
  BY <1>1, Zenon DEF ReadsArray3
<1> QED
  BY <1>2 DEF ReadsAs, a

\* The empty class and the properties are what an object has.
LEMMA ComposesObject3 ==
    ASSUME NEW class, class = <<>>, NEW pairs
    PROVE  Composes("key", 0, class, "pairs", 0, pairs, "object", 0, pairs)
<1> SUFFICES ASSUME NEW b \in Seq(Byte), NEW c \in Seq(Byte), NEW r \in StringTable,
                    NEW s \in StringTable, NEW t \in StringTable, NEW o \in ObjectTable,
                    NEW p \in ObjectTable, NEW q \in ObjectTable,
                    ReadsAs("key", 0, b, r, o, s, p, class), ReadsAs("pairs", 0, c, s, p, t, q, pairs)
             PROVE  ReadsAs("object", 0, b \o c, r, o, t, q, pairs)
  BY DEF Composes
<1> DEFINE a == b \o c
           none == <<>>
<1>1. /\ a = b \o c /\ p = o /\ ReadsString3(b, r, s, none)
      /\ NoEmpty(pairs) => ReadsPairs3(c, s, p, t, q, pairs)
  BY DEF ReadsAs
<1> HIDE DEF a, none
<1>2. ReadsObject3(a, r, o, t, q, pairs)
  BY <1>1, Zenon DEF ReadsObject3, none
<1> QED
  BY <1>2 DEF ReadsAs, a

\* How decodeArrayValue and decodeObjectValue go from decoder to decoder, after a
\* handle h that is no reference.
ArrayRun(inner, d, e, h, k, en, f, named, g, dense) ==
  /\ ReadNumber(d) = Ok(e, h) /\ e.ok /\ ~Refers(h) /\ (h < 0) = FALSE /\ h \div 2 = k
  /\ Entered(e, "AMF3Array") = en
  /\ inner.pairs[en] = Ok(f, named) /\ f.ok
  /\ inner.dense[k][f] = Ok(g, dense) /\ g.ok
ObjectRun(inner, d, e, h, en, f, class, g, pairs) ==
  /\ ReadNumber(d) = Ok(e, h) /\ e.ok /\ ~Refers(h)
  /\ Entered(e, "AMF3Object") = en
  /\ ReadStringWithReference(en) = Ok(f, class) /\ f.ok
  /\ inner.pairs[f] = Ok(g, pairs) /\ g.ok

\* decodeArrayValue gives the array of what its loops have read.
LEMMA ArrayGives3 ==
    ASSUME NEW inner, NEW d, NEW e, NEW h, NEW k, NEW en, NEW f, NEW named, NEW g, NEW dense,
           ArrayRun(inner, d, e, h, k, en, f, named, g, dense)
    PROVE  DecodeArrayValue(inner, d)
             = Ok(g, <<"AMF3Array", [dense |-> dense, associative |-> MapOf(named)]>>)
<1>1. /\ Ok(e, h).d = e /\ Ok(e, h).val = h
      /\ Ok(f, named).d = f /\ Ok(f, named).val = named
      /\ Ok(g, dense).d = g /\ Ok(g, dense).val = dense
  BY OkHas
<1> DEFINE x == <<"AMF3Array", [dense |-> dense, associative |-> MapOf(named)]>>
<1>2. Bind(inner.dense[h \div 2][f], LAMBDA a, b :
             Ok(a, <<"AMF3Array", [dense |-> b, associative |-> MapOf(named)]>>)) = Ok(g, x)
  BY <1>1, Zenon DEF Bind, ArrayRun
<1>3. Bind(inner.pairs[Entered(e, "AMF3Array")], LAMBDA a, b :
             IF h < 0 THEN Failed(a)
             ELSE Bind(inner.dense[h \div 2][a], LAMBDA a2, b2 :
                    Ok(a2, <<"AMF3Array", [dense |-> b2, associative |-> MapOf(b)]>>))) = Ok(g, x)
  <2>1. inner.pairs[Entered(e, "AMF3Array")] = Ok(f, named) /\ f.ok /\ ~(h < 0)
    BY Zenon DEF ArrayRun
  <2> HIDE DEF x
  <2> QED
    BY <1>1, <1>2, <2>1, ZenonT(60) DEF Bind
<1>4. ReadNumber(d) = Ok(e, h) /\ e.ok /\ ~Refers(h)
  BY Zenon DEF ArrayRun
<1> HIDE DEF x
<1>5. DecodeArrayValue(inner, d) = Ok(g, x)
  BY <1>1, <1>3, <1>4, Zenon DEF DecodeArrayValue, Bind
<1> QED
  BY <1>5 DEF x

\* decodeObjectValue gives the object of what its loop has read.
LEMMA ObjectGives3 ==
    ASSUME NEW inner, NEW d, NEW e, NEW h, NEW en, NEW f, NEW class, NEW g, NEW pairs,
           ObjectRun(inner, d, e, h, en, f, class, g, pairs)
    PROVE  DecodeObjectValue(inner, d) = Ok(g, <<"AMF3Object", MapOf(pairs), class>>)
<1>1. /\ Ok(e, h).d = e /\ Ok(e, h).val = h
      /\ Ok(f, class).d = f /\ Ok(f, class).val = class
      /\ Ok(g, pairs).d = g /\ Ok(g, pairs).val = pairs
  BY OkHas
<1> QED
  BY <1>1, ZenonT(60) DEF DecodeObjectValue, Bind, ObjectRun

\* The decoder has entered the array or the object that begins.
LEMMA EnteredIs3 ==
    ASSUME NEW x, NEW s, NEW o, NEW tag
    PROVE  Entered(At3(x, s, o), tag) = At3(x, s, Append(o, <<tag>>))
<1> DEFINE y == <<tag>>
<1>1. EnteredObject3Is(x, s, o, y)
  BY EnteredObject3
<1> HIDE DEF y
<1>2. [At3(x, s, o) EXCEPT !.objs = Append(@, y)] = At3(x, s, Append(o, y))
  BY <1>1, Zenon DEF EnteredObject3Is
<1> QED
  BY <1>2, Zenon DEF Entered, y

\* An array is its handle, its named elements and the others.
LEMMA ComposesMarkedArray3 ==
    ASSUME NEW h \in Int, ~Refers(h), ~(h < 0), NEW n, h \div 2 = n,
           NEW named, NoEmpty(named), NEW dense, NEW z, z[1] = named, z[2] = dense
    PROVE  Composes("opening", h, "AMF3Array", "array", n, z, "marked", Array3,
                    <<"AMF3Array", [dense |-> dense, associative |-> MapOf(named)]>>)
<1> DEFINE x == <<"AMF3Array", [dense |-> dense, associative |-> MapOf(named)]>>
           tag == "AMF3Array"
<1> SUFFICES ASSUME NEW b \in Seq(Byte), NEW c \in Seq(Byte), NEW r \in StringTable,
                    NEW s \in StringTable, NEW t \in StringTable, NEW o \in ObjectTable,
                    NEW p \in ObjectTable, NEW q \in ObjectTable,
                    ReadsAs("opening", h, b, r, o, s, p, "AMF3Array"), ReadsAs("array", n, c, s, p, t, q, z)
             PROVE  ReadsAs("marked", Array3, b \o c, r, o, t, q, x)
  BY SMTT(40) DEF Composes
<1>1. ReadsOpening3(b, r, o, s, p, h, tag) /\ ReadsArray3(c, s, p, t, q, n, z)
  BY Zenon DEF ReadsAs
<1>2. PICK c1 \in Seq(Byte), c2 \in Seq(Byte) : \E u \in StringTable : \E j \in ObjectTable :
        /\ c = c1 \o c2
        /\ NoEmpty(z[1]) => ReadsPairs3(c1, s, p, u, j, z[1])
        /\ ReadsDense3(c2, u, j, t, q, n, z[2])
  BY <1>1, Zenon DEF ReadsArray3
<1>3. PICK u \in StringTable, j \in ObjectTable :
        /\ c = c1 \o c2
        /\ NoEmpty(z[1]) => ReadsPairs3(c1, s, p, u, j, z[1])
        /\ ReadsDense3(c2, u, j, t, q, n, z[2])
  BY <1>2
<1>4. ReadsPairs3(c1, s, p, u, j, named) /\ ReadsDense3(c2, u, j, t, q, n, dense)
  BY <1>3
<1>5. b # <<>> /\ s = r /\ p = Append(o, <<tag>>)
  BY <1>1, Zenon DEF ReadsOpening3
<1> DEFINE a == b \o c
<1>6. ASSUME NEW rest \in Seq(Byte), NEW m \in Nat, m > Len(a)
      PROVE  DecodeMarked3(Decoding3[m], At3(a \o rest, r, o), Array3) = Ok(At3(rest, t, q), x)
  <2> DEFINE v == c2 \o rest
             y == c1 \o v
             w == b \o y
             inner == Decoding3[m]
             d == At3(w, r, o)
             e == At3(y, r, o)
             en == At3(y, r, p)
             f == At3(v, u, j)
             g == At3(rest, t, q)
  <2>1. v \in Seq(Byte) /\ y \in Seq(Byte) /\ w \in Seq(Byte) /\ a \o rest = w
    <3>1. Join3(c1, c2, rest) /\ Join3(b, c, rest)
      BY JoinThree
    <3>2. v \in Seq(Byte) /\ y \in Seq(Byte) /\ (c1 \o c2) \o rest = y
      BY <3>1, Zenon DEF Join3
    <3>3. (b \o c) \o rest = b \o (c \o rest) /\ b \o (c \o rest) \in Seq(Byte)
      BY <3>1, Zenon DEF Join3
    <3>4. c \o rest = y
      BY <1>3, <3>2, Zenon
    <3> HIDE DEF y
    <3> QED BY <3>2, <3>3, <3>4, Zenon
  <2>2. m > Len(c1) /\ m > Len(c2) + 1
    <3>1. Join2(b, c) /\ Join2(c1, c2)
      BY JoinTwo
    <3>2. Len(a) = Len(b) + Len(c) /\ Len(b) \in Nat /\ Len(c) \in Nat
      BY <3>1, Zenon DEF Join2
    <3>3. Len(c) = Len(c1) + Len(c2) /\ Len(c1) \in Nat /\ Len(c2) \in Nat
      BY <1>3, <3>1, Zenon DEF Join2
    <3>4. Len(b) # 0
      BY <1>5, EmptySeq
    <3> DEFINE l == Len(a)
    <3>5. m > l /\ l = Len(b) + Len(c)
      BY <1>6, <3>2
    <3> HIDE DEF l, a
    <3> QED BY <3>2, <3>3, <3>4, <3>5, Z3
  <2>3. ReadNumber(d) = Ok(e, h)
    <3> HIDE DEF y
    <3> QED BY <1>1, <1>5, <2>1 DEF ReadsOpening3
  <2>4. Entered(e, tag) = en
    <3> HIDE DEF y, tag
    <3> QED BY <1>5, EnteredIs3
  <2>5. inner.pairs[en] = Ok(f, named)
    <3> HIDE DEF v
    <3>1. \A k \in Nat : k > Len(c1) => Decoding3[k].pairs[At3(c1 \o v, s, p)] = Ok(At3(v, u, j), named)
      BY <1>4, <2>1 DEF ReadsPairs3
    <3>2. Decoding3[m].pairs[At3(c1 \o v, s, p)] = Ok(At3(v, u, j), named)
      BY <2>2, <3>1
    <3> QED BY <1>5, <3>2, Zenon
  <2>6. inner.dense[n][f] = Ok(g, dense)
    <3>1. \A k \in Nat : k > Len(c2) + 1 => Decoding3[k].dense[n][At3(c2 \o rest, u, j)] = Ok(At3(rest, t, q), dense)
      BY <1>4 DEF ReadsDense3
    <3> QED BY <2>2, <3>1
  <2>7. e.ok /\ f.ok /\ g.ok
    BY AtHas
  <2>8. DecodeMarked3(inner, d, Array3) = DecodeArrayValue(inner, d)
    <3> HIDE DEF d, inner
    <3> QED BY ByMarker3
  <2> HIDE DEF d, e, en, f, g, inner
  <2>9. DecodeArrayValue(inner, d) = Ok(g, x)
    <3>1. ArrayRun(inner, d, e, h, n, en, f, named, g, dense)
      <4>1. (h < 0) = FALSE
        OBVIOUS
      <4> QED BY <2>3, <2>4, <2>5, <2>6, <2>7, <4>1, Zenon DEF ArrayRun
    <3>2. ~(DecodeArrayValue(inner, d) # Ok(g, x))
      BY <3>1, ArrayGives3
    <3> HIDE DEF x
    <3> QED BY <3>2, Zenon
  <2> HIDE DEF w, x, a
  <2> QED
    BY <2>1, <2>8, <2>9, Zenon DEF d, g, inner
<1> HIDE DEF x, a
<1>7. ReadsMarked3(Array3, a, r, o, t, q, x)
  BY <1>6 DEF ReadsMarked3
<1> QED
  BY <1>7 DEF ReadsAs, a

\* An object is its handle, its class and its properties.
LEMMA ComposesMarkedObject3 ==
    ASSUME NEW h \in Int, ~Refers(h), NEW pairs, NoEmpty(pairs)
    PROVE  Composes("opening", h, "AMF3Object", "object", 0, pairs, "marked", Object3,
                    <<"AMF3Object", MapOf(pairs), <<>>>>)
<1> DEFINE none == <<>>
           x == <<"AMF3Object", MapOf(pairs), none>>
           tag == "AMF3Object"
<1> SUFFICES ASSUME NEW b \in Seq(Byte), NEW c \in Seq(Byte), NEW r \in StringTable,
                    NEW s \in StringTable, NEW t \in StringTable, NEW o \in ObjectTable,
                    NEW p \in ObjectTable, NEW q \in ObjectTable,
                    ReadsAs("opening", h, b, r, o, s, p, "AMF3Object"), ReadsAs("object", 0, c, s, p, t, q, pairs)
             PROVE  ReadsAs("marked", Object3, b \o c, r, o, t, q, x)
  BY SMTT(60) DEF Composes
<1>1. ReadsOpening3(b, r, o, s, p, h, tag) /\ ReadsObject3(c, s, p, t, q, pairs)
  BY Zenon DEF ReadsAs
<1>2. PICK c1 \in Seq(Byte), c2 \in Seq(Byte) : \E u \in StringTable :
        /\ c = c1 \o c2 /\ ReadsString3(c1, s, u, none)
        /\ NoEmpty(pairs) => ReadsPairs3(c2, u, p, t, q, pairs)
  BY <1>1, Zenon DEF ReadsObject3
<1>3. PICK u \in StringTable :
        /\ c = c1 \o c2 /\ ReadsString3(c1, s, u, none)
        /\ NoEmpty(pairs) => ReadsPairs3(c2, u, p, t, q, pairs)
  BY <1>2
<1>4. ReadsPairs3(c2, u, p, t, q, pairs)
  BY <1>3
<1>5. b # <<>> /\ s = r /\ p = Append(o, <<tag>>)
  BY <1>1, Zenon DEF ReadsOpening3
<1> DEFINE a == b \o c
<1>6. ASSUME NEW rest \in Seq(Byte), NEW m \in Nat, m > Len(a)
      PROVE  DecodeMarked3(Decoding3[m], At3(a \o rest, r, o), Object3) = Ok(At3(rest, t, q), x)
  <2> DEFINE v == c2 \o rest
             y == c1 \o v
             w == b \o y
             inner == Decoding3[m]
             d == At3(w, r, o)
             e == At3(y, r, o)
             en == At3(y, r, p)
             f == At3(v, u, p)
             g == At3(rest, t, q)
  <2>1. v \in Seq(Byte) /\ y \in Seq(Byte) /\ w \in Seq(Byte) /\ a \o rest = w
    <3>1. Join3(c1, c2, rest) /\ Join3(b, c, rest)
      BY JoinThree
    <3>2. v \in Seq(Byte) /\ y \in Seq(Byte) /\ (c1 \o c2) \o rest = y
      BY <3>1, Zenon DEF Join3
    <3>3. (b \o c) \o rest = b \o (c \o rest) /\ b \o (c \o rest) \in Seq(Byte)
      BY <3>1, Zenon DEF Join3
    <3>4. c \o rest = y
      BY <1>3, <3>2, Zenon
    <3> HIDE DEF y
    <3> QED BY <3>2, <3>3, <3>4, Zenon
  <2>2. m > Len(c2)
    <3>1. Join2(b, c) /\ Join2(c1, c2)
      BY JoinTwo
    <3>2. Len(a) = Len(b) + Len(c) /\ Len(b) \in Nat /\ Len(c) \in Nat
      BY <3>1, Zenon DEF Join2
    <3>3. Len(c) = Len(c1) + Len(c2) /\ Len(c1) \in Nat /\ Len(c2) \in Nat
      BY <1>3, <3>1, Zenon DEF Join2
    <3> DEFINE l == Len(a)
    <3>5. m > l /\ l = Len(b) + Len(c)
      BY <1>6, <3>2
    <3> HIDE DEF l, a
    <3> QED BY <3>2, <3>3, <3>5, Z3
  <2>3. ReadNumber(d) = Ok(e, h)
    <3> HIDE DEF y
    <3> QED BY <1>1, <1>5, <2>1 DEF ReadsOpening3
  <2>4. Entered(e, tag) = en
    <3> HIDE DEF y, tag
    <3> QED BY <1>5, EnteredIs3
  <2>5. ReadStringWithReference(en) = Ok(f, none)
    <3> HIDE DEF v, none
    <3>2. ReadStringWithReference(At3(c1 \o v, s, p)) = Ok(At3(v, u, p), none)
      BY <1>3, <2>1 DEF ReadsString3
    <3> QED BY <1>5, <3>2, Zenon
  <2>6. inner.pairs[f] = Ok(g, pairs)
    <3>1. \A k \in Nat : k > Len(c2) => Decoding3[k].pairs[At3(c2 \o rest, u, p)] = Ok(At3(rest, t, q), pairs)
      BY <1>4 DEF ReadsPairs3
    <3> QED BY <2>2, <3>1
  <2>7. e.ok /\ f.ok /\ g.ok
    BY AtHas
  <2>8. DecodeMarked3(inner, d, Object3) = DecodeObjectValue(inner, d)
    <3> HIDE DEF d, inner
    <3> QED BY ByMarker3
  <2> HIDE DEF d, e, en, f, g, inner, none
  <2>9. DecodeObjectValue(inner, d) = Ok(g, x)
    <3>1. ObjectRun(inner, d, e, h, en, f, none, g, pairs)
      BY <2>3, <2>4, <2>5, <2>6, <2>7, Zenon DEF ObjectRun
    <3>2. ~(DecodeObjectValue(inner, d) # Ok(g, x))
      BY <3>1, ObjectGives3
    <3> HIDE DEF x
    <3> QED BY <3>2, Zenon
  <2> HIDE DEF w, x, a
  <2> QED
    BY <2>1, <2>8, <2>9, Zenon DEF d, g, inner
<1> HIDE DEF x, a
<1>7. ReadsMarked3(Object3, a, r, o, t, q, x)
  BY <1>6 DEF ReadsMarked3
<1> QED
  BY <1>7 DEF ReadsAs, a

\* Sequences in two parts are joined part by part.
LEMMA FlattenJoin ==
    ASSUME NEW S, NEW ss \in Seq(Seq(S))
    PROVE  \A tt \in Seq(Seq(S)) : FlattenSeq(ss \o tt) = FlattenSeq(ss) \o FlattenSeq(tt)
<1> DEFINE Holds(tt) == FlattenSeq(ss \o tt) = FlattenSeq(ss) \o FlattenSeq(tt)
           N == {n \in Nat : \A tt \in Seq(Seq(S)) : Len(tt) = n => Holds(tt)}
<1>0. FlattenSeq(ss) \in Seq(S)
  BY FlattenType
<1>1. 0 \in N
  <2> SUFFICES ASSUME NEW tt \in Seq(Seq(S)), Len(tt) = 0 PROVE Holds(tt)
    OBVIOUS
  <2>1. tt = <<>> /\ ss \o tt = ss
    OBVIOUS
  <2>2. FlattenSeq(ss) \o <<>> = FlattenSeq(ss)
    BY <1>0, JoinNothing
  <2> QED
    BY <2>1, <2>2, FlattenNone
<1>2. ASSUME NEW n \in Nat, n \in N PROVE n + 1 \in N
  <2> SUFFICES ASSUME NEW tt \in Seq(Seq(S)), Len(tt) = n + 1 PROVE Holds(tt)
    OBVIOUS
  <2> DEFINE uu == SubSeq(tt, 1, n)
             s == tt[n + 1]
             vv == ss \o uu
  <2>1. uu \in Seq(Seq(S)) /\ Len(uu) = n /\ s \in Seq(S) /\ tt = Append(uu, s)
    OBVIOUS
  <2>2. Holds(uu)
    BY <1>2, <2>1
  <2> HIDE DEF uu, s
  <2>3. vv \in Seq(Seq(S)) /\ ss \o tt = Append(vv, s)
    BY <2>1
  <2> HIDE DEF vv
  <2>4. /\ FlattenSeq(ss \o tt) = FlattenSeq(vv) \o s
        /\ FlattenSeq(tt) = FlattenSeq(uu) \o s /\ FlattenSeq(uu) \in Seq(S)
    BY <2>1, <2>3, FlattenAppend, FlattenType
  <2> DEFINE a == FlattenSeq(ss)
             b == FlattenSeq(uu)
  <2>5. a \in Seq(S) /\ b \in Seq(S) /\ FlattenSeq(vv) = a \o b
    BY <1>0, <2>2, <2>4 DEF vv
  <2> HIDE DEF a, b
  <2>6. JoinedThree(S, a, b, s)
    BY <2>1, <2>5, JoinAny
  <2>7. (a \o b) \o s = a \o (b \o s)
    BY <2>6, Zenon DEF JoinedThree
  <2>8. FlattenSeq(ss \o tt) = a \o FlattenSeq(tt)
    BY <2>4, <2>5, <2>7, Zenon DEF b
  <2> QED
    BY <2>8, Zenon DEF a
<1>3. Nat \subseteq N
  <2> HIDE DEF N
  <2> QED BY <1>1, <1>2, SetInduction
<1> QED
  BY <1>3

\* What is joined after the first i of the sequences.
Rests(S, ss, k, cs) ==
  /\ cs[0] = FlattenSeq(ss) /\ cs[k] = <<>>
  /\ \A i \in 0 .. k : cs[i] \in Seq(S)
  /\ \A i \in 0 .. k - 1 : cs[i] = ss[i + 1] \o cs[i + 1]

\* What is flattened, from each part on.
LEMMA FlattenParts ==
    ASSUME NEW S, NEW k \in Nat, NEW ss \in Seq(Seq(S)), Len(ss) = k
    PROVE  \E cs : Rests(S, ss, k, cs)
<1> DEFINE out == [i \in 0 .. k |-> FlattenSeq(SubSeq(ss, 1, i))]
<1>1. ASSUME NEW i \in 0 .. k
      PROVE  out[i] \in Seq(S)
  <2>1. SubSeq(ss, 1, i) \in Seq(Seq(S))
    OBVIOUS
  <2>2. FlattenSeq(SubSeq(ss, 1, i)) \in Seq(S)
    <3> DEFINE t == SubSeq(ss, 1, i)
    <3> HIDE DEF t
    <3>1. FlattenSeq(t) \in Seq(S)
      BY <2>1, FlattenType DEF t
    <3> QED BY <3>1 DEF t
  <2> QED
    BY <2>2
<1>2. ASSUME NEW i \in 1 .. k
      PROVE  ss[i] \in Seq(S) /\ out[i] = out[i - 1] \o ss[i]
  <2> DEFINE t == SubSeq(ss, 1, i - 1)
             u == SubSeq(ss, 1, i)
             s == ss[i]
  <2>1. t \in Seq(Seq(S)) /\ u = Append(t, s) /\ s \in Seq(S)
    OBVIOUS
  <2>2. out[i] = FlattenSeq(u) /\ out[i - 1] = FlattenSeq(t)
    OBVIOUS
  <2> HIDE DEF out, t, u, s
  <2>3. FlattenSeq(u) = FlattenSeq(t) \o s
    BY <2>1, FlattenAppend
  <2> QED
    BY <2>1, <2>2, <2>3 DEF s
<1>3. out[0] = <<>> /\ out[k] = FlattenSeq(ss)
  <2>1. SubSeq(ss, 1, 0) = <<>> /\ SubSeq(ss, 1, k) = ss
    OBVIOUS
  <2>2. out[0] = FlattenSeq(SubSeq(ss, 1, 0)) /\ out[k] = FlattenSeq(SubSeq(ss, 1, k))
    OBVIOUS
  <2> HIDE DEF out
  <2> QED
    BY <2>1, <2>2, FlattenNone
<1> HIDE DEF out
<1>4. Appends(S, k, out, ss)
  BY <1>1, <1>2 DEF Appends
<1>5. PICK cs : Later(S, k, out, ss, cs)
  BY <1>4, LaterBytes
<1>6. cs[k] = <<>> /\ (\A i \in 0 .. k : cs[i] \in Seq(S)) /\ \A i \in 0 .. k - 1 : cs[i] = ss[i + 1] \o cs[i + 1]
  BY <1>5 DEF Later
<1>7. cs[0] = FlattenSeq(ss)
  <2>1. 0 \in 0 .. k
    OBVIOUS
  <2>2. out[k] = out[0] \o cs[0] /\ cs[0] \in Seq(S)
    BY <1>5, <2>1 DEF Later
  <2>3. <<>> \o cs[0] = cs[0]
    BY <2>2, JoinNothing
  <2> QED
    BY <1>3, <2>2, <2>3
<1>8. Rests(S, ss, k, cs)
  BY <1>6, <1>7, Zenon DEF Rests
<1> QED
  BY <1>8

\* The i-th step writes what is read as the i-th of F; and a sequence that begins
\* with the i-th is read as one.
Each3(one, k, steps, ss, F) ==
  \A i \in 1 .. k : \A g \in Good3 : Carries3(one, 0, g, steps[i][g], ss[i], F[i])
Onward(one, many, k, F, num) ==
  \A i \in 0 .. k - 1 :
    Composes(one, 0, F[i + 1], many, num[i + 1], SubSeq(F, i + 2, k),
             many, num[i], <<F[i + 1]>> \o SubSeq(F, i + 2, k))

\* Steps in turn, and an end, carry a sequence.
LEMMA ChainCarried3 ==
    ASSUME NEW k \in Nat, NEW steps, Len(steps) = k, NEW e \in Good3, NEW f,
           NEW ss \in Seq(Seq(AnyValue)), Len(ss) = k,
           NEW F, F = [j \in 1 .. k |-> F[j]], NEW one, NEW many, NEW num,
           Each3(one, k, steps, ss, F), Onward(one, many, k, F, num),
           InTurn(steps, e) \in Good3 => Carries3(many, num[k], InTurn(steps, e), f, <<>>, <<>>)
    PROVE  Carries3(many, num[0], e, f, FlattenSeq(ss), F)
<1>1. PICK after : Turn(steps, k, e, after)
  BY InTurnIs
<1>2. PICK cs : Rests(AnyValue, ss, k, cs)
  BY FlattenParts
<1>3. /\ after[0] = e /\ InTurn(steps, e) = after[k]
      /\ \A i \in 1 .. k : after[i] = steps[i][after[i - 1]]
  BY <1>1, Zenon DEF Turn
<1>4. \A i \in 0 .. k : after[i] \in Good3
  <2> DEFINE G == {n \in Nat : n <= k => after[n] \in Good3}
  <2>1. 0 \in G
    BY <1>3
  <2>2. ASSUME NEW n \in Nat, n \in G PROVE n + 1 \in G
    <3> SUFFICES ASSUME n + 1 <= k PROVE after[n + 1] \in Good3
      OBVIOUS
    <3> DEFINE i == n + 1
    <3>1. i \in 1 .. k /\ i - 1 = n /\ after[n] \in Good3
      BY <2>2
    <3> HIDE DEF i
    <3>2. Carries3(one, 0, after[n], steps[i][after[n]], ss[i], F[i])
      BY <3>1, Zenon DEF Each3
    <3>3. steps[i][after[n]] \in Good3
      BY <3>2, Zenon DEF Carries3
    <3>4. after[i] \in Good3
      BY <1>3, <3>1, <3>3
    <3> QED
      BY <3>4 DEF i
  <2>3. Nat \subseteq G
    <3> HIDE DEF G
    <3> QED BY <2>1, <2>2, SetInduction
  <2> QED
    BY <2>3
<1> DEFINE P(n) == Carries3(many, num[k - n], after[k - n], f, cs[k - n], SubSeq(F, (k - n) + 1, k))
           T == {n \in Nat : n <= k => P(n)}
<1>5. 0 \in T
  <2>1. k - 0 = k /\ k \in 0 .. k
    OBVIOUS
  <2>2. SubSeq(F, k + 1, k) = <<>> /\ cs[k] = <<>>
    BY <1>2, <2>1, FirstAndRest DEF Rests
  <2>3. Carries3(many, num[k], after[k], f, <<>>, <<>>)
    BY <1>3, <1>4, <2>1
  <2>4. P(0)
    BY <2>1, <2>2, <2>3, Zenon
  <2> HIDE DEF P
  <2> QED BY <2>4
<1>6. ASSUME NEW n \in Nat, n \in T PROVE n + 1 \in T
  <2> SUFFICES ASSUME n + 1 <= k PROVE P(n + 1)
    <3> HIDE DEF P
    <3> QED OBVIOUS
  <2> DEFINE i == k - (n + 1)
             j == i + 1
  <2>1. i \in 0 .. k /\ i \in 0 .. k - 1 /\ j \in 1 .. k /\ j \in 0 .. k /\ k - n = j
        /\ (k - n) + 1 = i + 2 /\ i # k /\ j = i + 1 /\ j - 1 = i
    BY SMTT(40)
  <2>2. Carries3(many, num[k - n], after[k - n], f, cs[k - n], SubSeq(F, (k - n) + 1, k))
    BY <1>6
  <2> HIDE DEF P, T, i, j
  <2> DEFINE rest == SubSeq(F, i + 2, k)
             x == F[j]
             g == after[i]
             h == after[j]
             c == cs[j]
             s == ss[j]
  <2>3. Carries3(many, num[j], h, f, c, rest)
    BY <2>1, <2>2
  <2>4. h = steps[j][g] /\ g \in Good3
    BY <1>3, <1>4, <2>1
  <2>5. Carries3(one, 0, g, h, s, x)
    <3>1. Carries3(one, 0, g, steps[j][g], s, x)
      BY <2>1, <2>4, Zenon DEF Each3
    <3> HIDE DEF g, h, s, x
    <3> QED BY <2>4, <3>1
  <2>6. Composes(one, 0, x, many, num[j], rest, many, num[i], <<x>> \o rest)
    BY <2>1 DEF Onward
  <2>7. SubSeq(F, i + 1, k) = <<x>> \o rest
    <3>1. SubSeq(F, i + 1, k) = <<F[i + 1]>> \o SubSeq(F, i + 2, k)
      BY <2>1, FirstAndRest, ZenonT(60)
    <3>2. F[i + 1] = x
      BY <2>1
    <3> HIDE DEF x
    <3> QED BY <3>1, <3>2
  <2>8. cs[i] = s \o c /\ c \in Seq(AnyValue)
    BY <1>2, <2>1 DEF Rests
  <2>9. s \in Seq(AnyValue)
    BY <2>1, SMTT(40)
  <2> HIDE DEF rest, x, g, h, c, s
  <2> DEFINE z == <<x>> \o rest
  <2> HIDE DEF z
  <2>10. Carries3(many, num[i], g, f, s \o c, z)
    <3>1. Composes(one, 0, x, many, num[j], rest, many, num[i], z)
      BY <2>6 DEF z
    <3> QED BY <2>3, <2>4, <2>5, <2>8, <2>9, <3>1, CarriesBoth
  <2>11. Carries3(many, num[i], after[i], f, cs[i], SubSeq(F, i + 1, k))
    BY <2>7, <2>8, <2>10, Zenon DEF g, z
  <2> QED BY <2>11, Zenon DEF P, i
<1>7. k \in T
  <2> HIDE DEF T
  <2> QED BY <1>5, <1>6, SetInduction
<1>8. P(k)
  <2> HIDE DEF P
  <2> QED BY <1>7
<1>9. k - k = 0 /\ (k - k) + 1 = 1 /\ 0 \in 0 .. k
  OBVIOUS
<1>10. SubSeq(F, 1, k) = F
  BY <1>9, FirstAndRest
<1>11. Carries3(many, num[0], after[0], f, cs[0], SubSeq(F, 1, k))
  BY <1>8, <1>9
<1> HIDE DEF P, T
<1>12. cs[0] = FlattenSeq(ss)
  BY <1>2 DEF Rests
<1> QED
  BY <1>3, <1>10, <1>11, <1>12, Zenon

\* enc writes every value of V, at any time, so that it is read as bec has it.
Codec3(V, enc, vis, bec) ==
  \A v \in V : \A e \in Good3 : Carries3("value", 0, e, enc[v][e], vis[v], bec[v])

\* The elements of an array.
LEMMA DenseCarried3 ==
    ASSUME NEW V, NEW enc, NEW vis, NEW bec, Codec3(V, enc, vis, bec),
           \A w \in V : vis[w] \in Seq(AnyValue), NEW values \in List(V), NEW e \in Good3,
           NEW k, k = Len(values)
    PROVE  Carries3("dense", k, e, InTurn([i \in DOMAIN values |-> enc[values[i]]], e),
                    FlattenSeq([i \in DOMAIN values |-> vis[values[i]]]), EachBecomes(bec, values))
<1> DEFINE steps == [i \in DOMAIN values |-> enc[values[i]]]
           ss == [i \in DOMAIN values |-> vis[values[i]]]
           F == EachBecomes(bec, values)
           f == InTurn(steps, e)
           num == [i \in 0 .. k |-> k - i]
<1>1. k \in Nat /\ DOMAIN values = 1 .. k /\ \A i \in 1 .. k : values[i] \in V
  BY ListHas
<1>2. /\ Len(steps) = k /\ F = [j \in 1 .. k |-> F[j]]
      /\ \A i \in 1 .. k : steps[i] = enc[values[i]] /\ F[i] = bec[values[i]]
      /\ \A i \in 1 .. k : ss[i] = vis[values[i]]
  BY <1>1 DEF EachBecomes
<1>3. ss \in Seq(Seq(AnyValue)) /\ Len(ss) = k
  <2>1. \A i \in 1 .. k : vis[values[i]] \in Seq(AnyValue)
    BY <1>1
  <2> QED
    BY <1>1, <2>1, IsASeq
<1>4. num[0] = k /\ num[k] = 0 /\ \A i \in 0 .. k - 1 : num[i + 1] \in Nat /\ num[i] = num[i + 1] + 1
  BY <1>1
<1> HIDE DEF steps, ss, F, num
<1>5. Each3("value", k, steps, ss, F)
  <2> SUFFICES ASSUME NEW i \in 1 .. k, NEW g \in Good3
               PROVE  Carries3("value", 0, g, steps[i][g], ss[i], F[i])
    BY DEF Each3
  <2>1. Carries3("value", 0, g, enc[values[i]][g], vis[values[i]], bec[values[i]])
    BY <1>1 DEF Codec3
  <2> QED
    BY <1>2, <2>1
<1>6. Onward("value", "dense", k, F, num)
  <2> SUFFICES ASSUME NEW i \in 0 .. k - 1
               PROVE  Composes("value", 0, F[i + 1], "dense", num[i + 1], SubSeq(F, i + 2, k),
                               "dense", num[i], <<F[i + 1]>> \o SubSeq(F, i + 2, k))
    BY DEF Onward
  <2> DEFINE x == F[i + 1]
             xs == SubSeq(F, i + 2, k)
             l == num[i + 1]
             n == num[i]
  <2>1. l \in Nat /\ n = l + 1
    BY <1>4
  <2> HIDE DEF x, xs, l, n
  <2>2. Composes("value", 0, x, "dense", l, xs, "dense", n, <<x>> \o xs)
    BY <2>1, ComposesDense3
  <2> QED
    BY <2>2 DEF x, xs, l, n
<1>7. f \in Good3 => Carries3("dense", num[k], f, f, <<>>, <<>>)
  <2> HIDE DEF f
  <2> QED
    BY <1>4, NoneWritten3
<1>8. Carries3("dense", num[0], e, f, FlattenSeq(ss), F)
  BY <1>1, <1>2, <1>3, <1>5, <1>6, <1>7, ChainCarried3
<1>9. Carries3("dense", k, e, f, FlattenSeq(ss), F)
  BY <1>4, <1>8, Zenon
<1> QED
  BY <1>9 DEF f, steps, ss, F

\* A key and its value.
LEMMA PairWritten3 ==
    ASSUME NEW g \in Good3, NEW key \in Seq(Byte), NEW h, NEW visited \in Seq(AnyValue), NEW x,
           Carries3("value", 0, WriteStringWithReference(g, key), h, visited, x),
           NEW y, y[1] = key, y[2] = x
    PROVE  Carries3("pair", 0, g, h, visited, y)
<1> DEFINE none == <<>>
           w == WriteStringWithReference(g, key)
<1>1. Carries3("key", 0, g, w, none, key)
  BY KeyWritten3
<1>2. none \in Seq(AnyValue) /\ none \o visited = visited
  OBVIOUS
<1>3. Carries3("value", 0, w, h, visited, x)
  OBVIOUS
<1>4. Composes("key", 0, key, "value", 0, x, "pair", 0, y)
  BY ComposesPair3
<1> HIDE DEF none, w
<1>5. Carries3("pair", 0, g, h, none \o visited, y)
  BY <1>1, <1>2, <1>3, <1>4, CarriesBoth
<1> QED
  BY <1>2, <1>5

\* Named elements or properties, and their end.
LEMMA PairsCarried3 ==
    ASSUME NEW V, NEW enc, NEW vis, NEW bec, Codec3(V, enc, vis, bec),
           \A w \in V : vis[w] \in Seq(AnyValue), NEW pairs \in List(GoString \X V), NEW e \in Good3
    PROVE  Carries3("pairs", 0, e, WriteStringWithReference(EncodePairs3(enc, e, pairs), <<>>),
                    FlattenSeq([i \in DOMAIN pairs |-> vis[pairs[i][2]]]), Pairs(bec, pairs))
<1> DEFINE k == Len(pairs)
           steps == [i \in DOMAIN pairs |->
                       [f \in Encoder3 |-> enc[pairs[i][2]][WriteStringWithReference(f, pairs[i][1])]]]
           ss == [i \in DOMAIN pairs |-> vis[pairs[i][2]]]
           F == Pairs(bec, pairs)
           last == InTurn(steps, e)
           none == <<>>
           end == WriteStringWithReference(last, none)
           num == [i \in 0 .. k |-> 0]
<1>1. /\ k \in Nat /\ DOMAIN pairs = 1 .. k
      /\ \A i \in 1 .. k : pairs[i][1] \in Seq(Byte) /\ pairs[i][2] \in V
  <2>1. k \in Nat /\ DOMAIN pairs = 1 .. k /\ \A i \in 1 .. k : pairs[i] \in GoString \X V
    BY ListHas
  <2>2. GoString \subseteq Seq(Byte)
    BY DEF GoString, List
  <2> QED
    BY <2>1, <2>2
<1>2. /\ Len(steps) = k /\ F = [j \in 1 .. k |-> F[j]]
      /\ \A i \in 1 .. k : F[i] = <<pairs[i][1], bec[pairs[i][2]]>>
      /\ \A i \in 1 .. k : ss[i] = vis[pairs[i][2]]
      /\ \A i \in 1 .. k : \A g \in Encoder3 :
           steps[i][g] = enc[pairs[i][2]][WriteStringWithReference(g, pairs[i][1])]
  BY <1>1 DEF Pairs
<1>3. ss \in Seq(Seq(AnyValue)) /\ Len(ss) = k
  <2>1. \A i \in 1 .. k : vis[pairs[i][2]] \in Seq(AnyValue)
    BY <1>1
  <2> QED
    BY <1>1, <2>1, IsASeq
<1>4. num[0] = 0 /\ num[k] = 0 /\ \A i \in 0 .. k - 1 : num[i] = 0 /\ num[i + 1] = 0
  BY <1>1
<1> HIDE DEF steps, ss, F, num, k
<1>5. Each3("pair", k, steps, ss, F)
  <2> SUFFICES ASSUME NEW i \in 1 .. k, NEW g \in Good3
               PROVE  Carries3("pair", 0, g, steps[i][g], ss[i], F[i])
    BY DEF Each3
  <2> DEFINE key == pairs[i][1]
             v == pairs[i][2]
             w == WriteStringWithReference(g, key)
             h == enc[v][w]
             visited == vis[v]
             x == bec[v]
             y == F[i]
  <2>1. key \in Seq(Byte) /\ v \in V
    BY <1>1
  <2>2. h = steps[i][g] /\ ss[i] = visited
    BY <1>2, GoodHas3
  <2>3. y[1] = key /\ y[2] = x
    BY <1>2
  <2>4. w \in Good3
    <3> HIDE DEF key
    <3>1. Carries3("key", 0, g, w, <<>>, key)
      BY <2>1, KeyWritten3
    <3> HIDE DEF w
    <3> QED
      BY <3>1, Zenon DEF Carries3
  <2>5. visited \in Seq(AnyValue)
    BY <2>1
  <2>6. Carries3("value", 0, w, h, visited, x)
    <3> HIDE DEF w, v
    <3> QED
      BY <2>1, <2>4 DEF Codec3
  <2> HIDE DEF h, visited, x, y, key, v
  <2>7. Carries3("pair", 0, g, h, visited, y)
    BY <2>1, <2>3, <2>5, <2>6, PairWritten3
  <2> QED
    BY <2>2, <2>7 DEF y
<1>6. Onward("pair", "pairs", k, F, num)
  <2> SUFFICES ASSUME NEW i \in 0 .. k - 1
               PROVE  Composes("pair", 0, F[i + 1], "pairs", num[i + 1], SubSeq(F, i + 2, k),
                               "pairs", num[i], <<F[i + 1]>> \o SubSeq(F, i + 2, k))
    BY DEF Onward
  <2> DEFINE y == F[i + 1]
             xs == SubSeq(F, i + 2, k)
             T == {F[j] : j \in 1 .. k}
  <2>1. y \in T /\ y = <<y[1], y[2]>>
    <3>1. i + 1 \in 1 .. k
      BY <1>1
    <3> QED
      BY <1>2, <3>1
  <2>2. xs \in Seq(T)
    <3>1. F \in Seq(T)
      BY <1>1, <1>2, IsASeq
    <3>2. DOMAIN F = 1 .. k /\ k \in Nat
      BY <1>1, <1>2
    <3> HIDE DEF T
    <3> QED
      BY <3>1, <3>2
  <2> HIDE DEF y, xs, T
  <2>3. Composes("pair", 0, y, "pairs", 0, xs, "pairs", 0, <<y>> \o xs)
    BY <2>1, <2>2, ComposesPairs3
  <2>4. num[i] = 0 /\ num[i + 1] = 0
    BY <1>4
  <2> QED
    BY <2>3, <2>4 DEF y, xs
<1>7. last \in Good3 => Carries3("pairs", num[k], last, end, none, none)
  <2>1. none \in Seq(Byte) /\ none = <<>>
    OBVIOUS
  <2> HIDE DEF last, none
  <2>2. last \in Good3 => Carries3("pairs", 0, last, end, <<>>, none)
    BY <2>1, KeyWritten3
  <2> HIDE DEF end
  <2> QED
    BY <1>4, <2>1, <2>2
<1>8. Carries3("pairs", num[0], e, end, FlattenSeq(ss), F)
  BY <1>1, <1>2, <1>3, <1>5, <1>6, <1>7, ChainCarried3
<1>9. Carries3("pairs", 0, e, end, FlattenSeq(ss), F)
  BY <1>4, <1>8, Zenon
<1>10. end = WriteStringWithReference(EncodePairs3(enc, e, pairs), <<>>)
  BY Zenon DEF EncodePairs3, steps
<1> HIDE DEF end
<1> QED
  BY <1>9, <1>10 DEF ss, F

\* The handle of an array or an object: the decoder enters it, the encoder does not.
LEMMA OpeningWritten3 ==
    ASSUME NEW v \in AnyValue, v \in Fit3, v \in Plain3 => v[1] \in Containers3, v[1] # "time",
           NEW e \in Good3, NEW n \in Nat, n < TwoTo28, NEW tag, <<tag>> \in Tabled
    PROVE  Carries3("opening", n, e, WriteNumber(e, n), <<v>>, tag)
<1> DEFINE b == WriteU29(n)
           f == Write(e, b)
           visited == <<v>>
<1>0. WriteNumber(e, n) = f
  BY Zenon DEF WriteNumber
<1>1. /\ b \in Seq(Byte) /\ b # <<>>
      /\ \A rest \in Seq(Byte) : \A s, o : ReadNumber(At3(b \o rest, s, o)) = Ok(At3(rest, s, o), n)
  <2>1. n \in Int /\ -TwoTo28 <= n
    BY Powers
  <2> QED
    BY <2>1, ReadNumberGives
<1> HIDE DEF b
<1>2. f \in Good3 /\ f.out = e.out \o b /\ f.ok = e.ok /\ Same3(e, f)
  BY <1>1, WriteHas3
<1>3. \A T : AllIn(visited, T) <=> v \in T
  BY One3
<1> HIDE DEF f
<1>4. ASSUME Readable3(f, visited)
      PROVE  ReadsAfter("opening", n, e, f, visited, tag, b)
  <2> SUFFICES ASSUME NEW w \in Seq(AnyValue), NEW o \in ObjectTable, InStep(e.objs, o, visited \o w)
               PROVE  \E p \in ObjectTable : InStep(f.objs, p, w) /\ ReadsAs("opening", n, b, e.strs, o, f.strs, p, tag)
    BY Zenon DEF ReadsAfter
  <2> DEFINE x == <<tag>>
             p == Append(o, x)
  <2>1. x \in Tabled
    OBVIOUS
  <2>2. v[1] \in Containers3
    BY <1>3, <1>4 DEF Readable3
  <2>3. e.objs \in Seq(Bits)
    BY GoodHas3
  <2> HIDE DEF x
  <2>4. InStep(e.objs, p, w)
    BY <2>1, <2>2, <2>3, StepContainer
  <2>5. p \in ObjectTable
    BY <2>1 DEF ObjectTable
  <2> HIDE DEF p, visited
  <2>6. InStep(f.objs, p, w)
    BY <1>2, <2>4 DEF Same3
  <2>7. ReadsOpening3(b, e.strs, o, f.strs, p, n, tag)
    BY <1>1, <1>2 DEF ReadsOpening3, Same3, p, x
  <2>8. ReadsAs("opening", n, b, e.strs, o, f.strs, p, tag)
    BY <2>7 DEF ReadsAs
  <2> QED
    BY <2>5, <2>6, <2>8, Zenon
<1> HIDE DEF visited
<1>5. f.ok <=> e.ok /\ AllIn(visited, Fit3)
  BY <1>2, <1>3
<1>6. Carries3("opening", n, e, f, visited, tag)
  BY <1>1, <1>2, <1>4, <1>5, Zenon DEF Carries3
<1> QED
  BY <1>0, <1>6, Zenon DEF visited

\* Twice a length, and one more, is the handle of what is not a reference.
LEMMA HandleIs ==
    ASSUME NEW k \in Nat, k < TwoTo24
    PROVE  LET n == 2 * k + 1
           IN  n \in Nat /\ n < TwoTo28 /\ n \in Int /\ ~Refers(n) /\ ~(n < 0) /\ n \div 2 = k
BY Powers DEF Refers

\* An array is carried with what it has.
LEMMA ArrayCarried3 ==
    ASSUME NEW V, NEW enc, NEW vis, NEW bec, Codec3(V, enc, vis, bec),
           \A w \in V : vis[w] \in Seq(AnyValue), NEW values \in List(V), NEW pairs \in List(GoString \X V),
           NEW v \in AnyValue, v \in Fit3, v[1] # "time",
           v \in Plain3 => v[1] \in Containers3 /\ NoEmpty(Pairs(bec, pairs)), NEW e \in Good3,
           NEW visited, visited = <<v>> \o (FlattenSeq([i \in DOMAIN pairs |-> vis[pairs[i][2]]])
                                              \o FlattenSeq([i \in DOMAIN values |-> vis[values[i]]])),
           NEW x, x = <<"AMF3Array", [dense |-> EachBecomes(bec, values),
                                      associative |-> MapOf(Pairs(bec, pairs))]>>
    PROVE  Carries3("value", 0, e, EncodeArray(enc, e, values, pairs), visited, x)
<1> DEFINE k == Len(values)
           n == 2 * k + 1
           g == Write(e, <<Array3>>)
           h == WriteNumber(g, n)
           named == WriteStringWithReference(EncodePairs3(enc, h, pairs), <<>>)
           f == InTurn([i \in DOMAIN values |-> enc[values[i]]], named)
           one == <<v>>
           ps == FlattenSeq([i \in DOMAIN pairs |-> vis[pairs[i][2]]])
           ds == FlattenSeq([i \in DOMAIN values |-> vis[values[i]]])
           P == Pairs(bec, pairs)
           D == EachBecomes(bec, values)
           z == <<P, D>>
<1>0. f = EncodeArray(enc, e, values, pairs)
  BY Zenon DEF EncodeArray
<1>1. k \in Nat /\ k < TwoTo24
  BY ListHas
<1> HIDE DEF k
<1>2. n \in Nat /\ n < TwoTo28 /\ n \in Int /\ ~Refers(n) /\ ~(n < 0) /\ n \div 2 = k
  BY <1>1, HandleIs
<1> HIDE DEF n
<1>3. Array3 \in Byte /\ <<"AMF3Array">> \in Tabled
  BY Markers3 DEF Tabled
<1>4. g \in Good3
  <2>1. <<Array3>> \in Seq(Byte)
    BY <1>3
  <2> QED
    BY <2>1, WriteHas3
<1> HIDE DEF g
<1>5. Carries3("opening", n, g, h, one, "AMF3Array")
  BY <1>2, <1>3, <1>4, OpeningWritten3
<1>6. h \in Good3
  <2> HIDE DEF h
  <2> QED BY <1>5, Zenon DEF Carries3
<1> HIDE DEF h
<1>7. Carries3("pairs", 0, h, named, ps, P)
  BY <1>6, PairsCarried3
<1>8. named \in Good3
  <2> HIDE DEF named
  <2> QED BY <1>7, Zenon DEF Carries3
<1> HIDE DEF named
<1>9. Carries3("dense", k, named, f, ds, D)
  BY <1>8, DenseCarried3 DEF k
<1>10. ps \in Seq(AnyValue) /\ ds \in Seq(AnyValue) /\ one \in Seq(AnyValue)
  <2>1. /\ Len(values) \in Nat /\ DOMAIN values = 1 .. Len(values)
        /\ \A i \in 1 .. Len(values) : values[i] \in V
    BY ListHas
  <2>2. /\ Len(pairs) \in Nat /\ DOMAIN pairs = 1 .. Len(pairs)
        /\ \A i \in 1 .. Len(pairs) : pairs[i] \in GoString \X V
    BY ListHas
  <2>3. \A i \in 1 .. Len(pairs) : vis[pairs[i][2]] \in Seq(AnyValue)
    BY <2>2
  <2>4. \A i \in 1 .. Len(values) : vis[values[i]] \in Seq(AnyValue)
    BY <2>1
  <2>5. [i \in DOMAIN pairs |-> vis[pairs[i][2]]] \in Seq(Seq(AnyValue))
    BY <2>2, <2>3, IsASeq
  <2>6. [i \in DOMAIN values |-> vis[values[i]]] \in Seq(Seq(AnyValue))
    BY <2>1, <2>4, IsASeq
  <2> QED
    BY <2>5, <2>6, FlattenType
<1> DEFINE rest == ps \o ds
<1> HIDE DEF f, one, ps, ds, P, D
<1>11. z[1] = P /\ z[2] = D
  OBVIOUS
<1> HIDE DEF z
<1>12. Composes("pairs", 0, P, "dense", k, D, "array", k, z)
  BY <1>11, ComposesArray3
<1>13. Carries3("array", k, h, f, rest, z)
  BY <1>6, <1>7, <1>9, <1>10, <1>12, CarriesBoth
<1> DEFINE y == <<"AMF3Array", [dense |-> D, associative |-> MapOf(P)]>>
<1>14. AllIn(one, Plain3) => Composes("opening", n, "AMF3Array", "array", k, z, "marked", Array3, y)
  <2> SUFFICES ASSUME AllIn(one, Plain3)
               PROVE  Composes("opening", n, "AMF3Array", "array", k, z, "marked", Array3, y)
    OBVIOUS
  <2>1. v \in Plain3
    BY One3 DEF one
  <2>2. NoEmpty(P)
    BY <2>1 DEF P
  <2> QED
    BY <1>2, <1>11, <2>2, ComposesMarkedArray3
<1>15. rest \in Seq(AnyValue) /\ one \o rest = visited
  <2>1. rest \in Seq(AnyValue)
    BY <1>10, JoinedRest
  <2>2. one \o rest = visited
    BY Zenon DEF one, ps, ds
  <2> QED
    BY <2>1, <2>2
<1> HIDE DEF rest, y
<1>16. Carries3("marked", Array3, g, f, one \o rest, y)
  BY <1>4, <1>5, <1>10, <1>13, <1>14, <1>15, CarriesBoth
<1>17. visited \in Seq(AnyValue)
  <2>1. one \o rest \in Seq(AnyValue)
    BY <1>10, <1>15, JoinedRest
  <2> QED
    BY <1>15, <2>1
<1>18. Carries3("value", 0, e, f, visited, y)
  <2>1. Carries3("marked", Array3, Write(e, <<Array3>>), f, visited, y)
    BY <1>15, <1>16, Zenon DEF g
  <2> QED
    BY <1>3, <1>17, <2>1, WithMarker3
<1>19. y = x
  BY DEF y, D, P
<1> QED
  BY <1>0, <1>18, <1>19, Zenon

\* An object is carried with its properties.
LEMMA ObjectCarried3 ==
    ASSUME NEW V, NEW enc, NEW vis, NEW bec, Codec3(V, enc, vis, bec),
           \A w \in V : vis[w] \in Seq(AnyValue), NEW pairs \in List(GoString \X V),
           NEW v \in AnyValue, v \in Fit3, v[1] # "time",
           v \in Plain3 => v[1] \in Containers3 /\ NoEmpty(Pairs(bec, pairs)), NEW e \in Good3,
           NEW visited, visited = <<v>> \o FlattenSeq([i \in DOMAIN pairs |-> vis[pairs[i][2]]]),
           NEW x, x = <<"AMF3Object", MapOf(Pairs(bec, pairs)), <<>>>>
    PROVE  Carries3("value", 0, e, EncodeObject3(enc, e, pairs), visited, x)
<1> DEFINE none == <<>>
           n == 11
           g == Write(e, <<Object3>>)
           h == WriteNumber(g, n)
           started == WriteStringWithReference(h, none)
           f == WriteStringWithReference(EncodePairs3(enc, started, pairs), none)
           one == <<v>>
           ps == FlattenSeq([i \in DOMAIN pairs |-> vis[pairs[i][2]]])
           P == Pairs(bec, pairs)
<1>0. f = EncodeObject3(enc, e, pairs)
  BY Zenon DEF EncodeObject3
<1>2. n \in Nat /\ n < TwoTo28 /\ n \in Int /\ ~Refers(n)
  BY Powers DEF Refers
<1> HIDE DEF n
<1>3. Object3 \in Byte /\ <<"AMF3Object">> \in Tabled
  BY Markers3 DEF Tabled
<1>4. g \in Good3
  <2>1. <<Object3>> \in Seq(Byte)
    BY <1>3
  <2> QED
    BY <2>1, WriteHas3
<1> HIDE DEF g
<1>5. Carries3("opening", n, g, h, one, "AMF3Object")
  BY <1>2, <1>3, <1>4, OpeningWritten3
<1>6. h \in Good3
  <2> HIDE DEF h
  <2> QED BY <1>5, Zenon DEF Carries3
<1> HIDE DEF h
<1>a. none \in Seq(Byte) /\ none \in Seq(AnyValue) /\ none = <<>>
  OBVIOUS
<1>7. Carries3("key", 0, h, started, none, none)
  BY <1>6, <1>a, KeyWritten3
<1>8. started \in Good3
  <2> HIDE DEF started
  <2> QED BY <1>7, Zenon DEF Carries3
<1> HIDE DEF started
<1>9. Carries3("pairs", 0, started, f, ps, P)
  BY <1>8, PairsCarried3
<1>10. ps \in Seq(AnyValue) /\ one \in Seq(AnyValue) /\ none \o ps = ps
  <2>2. /\ Len(pairs) \in Nat /\ DOMAIN pairs = 1 .. Len(pairs)
        /\ \A i \in 1 .. Len(pairs) : pairs[i] \in GoString \X V
    BY ListHas
  <2>3. \A i \in 1 .. Len(pairs) : vis[pairs[i][2]] \in Seq(AnyValue)
    BY <2>2
  <2>5. [i \in DOMAIN pairs |-> vis[pairs[i][2]]] \in Seq(Seq(AnyValue))
    BY <2>2, <2>3, IsASeq
  <2>6. ps \in Seq(AnyValue)
    BY <2>5, FlattenType
  <2> HIDE DEF ps
  <2> QED
    BY <2>6, JoinNothing
<1> HIDE DEF f, one, ps, P, none
<1>12. Composes("key", 0, none, "pairs", 0, P, "object", 0, P)
  BY <1>a, ComposesObject3
<1>13. Carries3("object", 0, h, f, none \o ps, P)
  BY <1>6, <1>7, <1>9, <1>10, <1>12, <1>a, CarriesBoth
<1>b. Carries3("object", 0, h, f, ps, P)
  BY <1>10, <1>13
<1> DEFINE y == <<"AMF3Object", MapOf(P), <<>>>>
<1>14. AllIn(one, Plain3) => Composes("opening", n, "AMF3Object", "object", 0, P, "marked", Object3, y)
  <2> SUFFICES ASSUME AllIn(one, Plain3)
               PROVE  Composes("opening", n, "AMF3Object", "object", 0, P, "marked", Object3, y)
    OBVIOUS
  <2>1. v \in Plain3
    BY One3 DEF one
  <2>2. NoEmpty(P)
    BY <2>1 DEF P
  <2> QED
    BY <1>2, <2>2, ComposesMarkedObject3
<1>15. one \o ps = visited
  BY Zenon DEF one, ps
<1> HIDE DEF y
<1>16. Carries3("marked", Object3, g, f, one \o ps, y)
  BY <1>4, <1>5, <1>b, <1>10, <1>14, CarriesBoth
<1>17. visited \in Seq(AnyValue)
  <2>1. one \o ps \in Seq(AnyValue)
    BY <1>10, JoinedRest
  <2> QED
    BY <1>15, <2>1
<1>18. Carries3("value", 0, e, f, visited, y)
  <2>1. Carries3("marked", Object3, Write(e, <<Object3>>), f, visited, y)
    BY <1>15, <1>16, Zenon DEF g
  <2> QED
    BY <1>3, <1>17, <2>1, WithMarker3
<1>19. y = x
  BY DEF y, P
<1> QED
  BY <1>0, <1>18, <1>19, Zenon

\* Visited are first the values of the pairs, then the elements.
VisitedAs(vis, v, pairs, values) ==
  VisitBy(vis, v) = <<v>> \o (FlattenSeq([i \in DOMAIN pairs |-> vis[pairs[i][2]]])
                                \o FlattenSeq([i \in DOMAIN values |-> vis[values[i]]]))

\* A container is visited before its pairs, and these before its elements.
LEMMA VisitContainer ==
    ASSUME NEW V, NEW vis, \A w \in V : vis[w] \in Seq(AnyValue), NEW v \in AnyValue,
           NEW pairs \in List(GoString \X V), NEW values \in List(V),
           PairsOf(v) = pairs, ElementsOf(v) = values
    PROVE  VisitedAs(vis, v, pairs, values)
<1> DEFINE a == [i \in DOMAIN pairs |-> vis[pairs[i][2]]]
           b == [i \in DOMAIN values |-> vis[values[i]]]
<1>1. /\ Len(values) \in Nat /\ DOMAIN values = 1 .. Len(values)
      /\ \A i \in 1 .. Len(values) : values[i] \in V
  BY ListHas
<1>2. /\ Len(pairs) \in Nat /\ DOMAIN pairs = 1 .. Len(pairs)
      /\ \A i \in 1 .. Len(pairs) : pairs[i] \in GoString \X V
  BY ListHas
<1>3. a \in Seq(Seq(AnyValue))
  <2>3. \A i \in 1 .. Len(pairs) : vis[pairs[i][2]] \in Seq(AnyValue)
    BY <1>2
  <2> QED
    BY <1>2, <2>3, IsASeq
<1>4. b \in Seq(Seq(AnyValue))
  <2>4. \A i \in 1 .. Len(values) : vis[values[i]] \in Seq(AnyValue)
    BY <1>1
  <2> QED
    BY <1>1, <2>4, IsASeq
<1>5. VisitBy(vis, v) = <<v>> \o FlattenSeq(a \o b)
  BY Zenon DEF VisitBy
<1> HIDE DEF a, b
<1>6. FlattenSeq(a \o b) = FlattenSeq(a) \o FlattenSeq(b)
  BY <1>3, <1>4, FlattenJoin
<1> QED
  BY <1>5, <1>6, Zenon DEF a, b, VisitedAs

\* The elements are no pairs.
LEMMA NothingJoined ==
    ASSUME NEW V, NEW vis, NEW bec
    PROVE  /\ FlattenSeq([i \in DOMAIN <<>> |-> vis[<<>>[i]]]) = <<>>
           /\ FlattenSeq([i \in DOMAIN <<>> |-> vis[<<>>[i][2]]]) = <<>>
           /\ Pairs(bec, <<>>) = <<>> /\ NoEmpty(<<>>) /\ <<>> \in List(V)
<1>1. /\ [i \in DOMAIN <<>> |-> vis[<<>>[i]]] = <<>>
      /\ [i \in DOMAIN <<>> |-> vis[<<>>[i][2]]] = <<>>
      /\ [i \in DOMAIN <<>> |-> <<<<>>[i][1], bec[<<>>[i][2]]>>] = <<>>
  OBVIOUS
<1>2. <<>> \in List(V)
  BY DEF List, TwoTo24, TwoTo21
<1>3. NoEmpty(<<>>)
  BY DEF NoEmpty
<1>4. Pairs(bec, <<>>) = <<>>
  BY <1>1, Zenon DEF Pairs
<1> QED
  BY <1>1, <1>2, <1>3, <1>4, FlattenNone

\* No key of a plain value is empty.
LEMMA NamedPlain ==
    ASSUME NEW V, NEW v \in Plain3, PairsOf(v) \in List(V), NEW bec
    PROVE  NoEmpty(Pairs(bec, PairsOf(v)))
<1> DEFINE s == PairsOf(v)
<1>1. \A i \in DOMAIN s : s[i][1] # <<>>
  BY DEF Plain3, Keys
<1> HIDE DEF s
<1>2. NoEmpty(Pairs(bec, s))
  BY <1>1 DEF NoEmpty, Pairs
<1> QED
  BY <1>2 DEF s

\* What is not plain is not read, whatever is before it.
LEMMA MarkedTwice3 ==
    ASSUME NEW e \in Good3, NEW n \in Byte, NEW f, NEW visited \in Seq(AnyValue), NEW x,
           Carries3("value", 0, Write(e, <<n>>), f, visited, x), ~AllIn(visited, Plain3), NEW y
    PROVE  Carries3("value", 0, e, f, visited, y)
<1> DEFINE g == Write(e, <<n>>)
           none == <<>>
<1>1. Carries3("marker", n, e, g, none, x)
  BY MarkerWritten3
<1>2. none \in Seq(AnyValue) /\ none \o visited = visited
  OBVIOUS
<1>3. Composes("marker", n, x, "value", 0, x, "any", 0, x)
  BY DEF Composes, ReadsAs
<1>4. Carries3("value", 0, g, f, visited, x)
  OBVIOUS
<1> HIDE DEF g, none
<1>5. Carries3("any", 0, e, f, none \o visited, x)
  BY <1>1, <1>2, <1>3, <1>4, CarriesBoth
<1>6. Carries3("any", 0, e, f, visited, x)
  BY <1>2, <1>5
<1> QED
  BY <1>6, NotPlain3

\* A container whose values are carried is carried.
LEMMA ContainerCarried3 ==
    ASSUME NEW W, NEW enc, NEW vis, NEW bec, Codec3(W, enc, vis, bec),
           \A w \in W : vis[w] \in Seq(AnyValue),
           NEW v \in Container(W), v \in AnyValue, NEW e \in Good3
    PROVE  Carries3("value", 0, e, EncodeByType3(enc, e, v), VisitBy(vis, v), ByType3(bec, v))
<1> DEFINE visited == VisitBy(vis, v)
           f == EncodeByType3(enc, e, v)
           x == ByType3(bec, v)
           ps == PairsOf(v)
           es == ElementsOf(v)
           vp == FlattenSeq([i \in DOMAIN ps |-> vis[ps[i][2]]])
           ve == FlattenSeq([i \in DOMAIN es |-> vis[es[i]]])
<1>0. WrittenByType3(enc, e, v)
  BY EncodedByType3
<1>1. PairsOf(v) \in List(GoString \X W) /\ ElementsOf(v) \in List(W)
  BY Contents
<1>2. v[1] \in {"slice", "AMF0StrictArray", "map", "AMF0Object", "AMF3Object", "AMF3Array",
                "AMF0EcmaArray", "AMF0TypedObject"}
  BY DEF Container
<1>3. visited \in Seq(AnyValue) /\ \A T : AllIn(visited, T) => v \in T
  <2>1. /\ VisitBy(vis, v) \in Seq(AnyValue)
        /\ \A T : AllIn(VisitBy(vis, v), T) <=>
                       /\ v \in T
                       /\ \A i \in DOMAIN PairsOf(v) : AllIn(vis[PairsOf(v)[i][2]], T)
                       /\ \A i \in DOMAIN ElementsOf(v) : AllIn(vis[ElementsOf(v)[i]], T)
    BY <1>1, VisitByHas
  <2> QED BY <2>1, Zenon
<1>4. visited = <<v>> \o (vp \o ve)
  <2>1. ps \in List(GoString \X W) /\ es \in List(W) /\ PairsOf(v) = ps /\ ElementsOf(v) = es
    BY <1>1
  <2> HIDE DEF ps, es
  <2>2. VisitedAs(vis, v, ps, es)
    BY <2>1, VisitContainer
  <2> QED BY <2>2, Zenon DEF VisitedAs
<1>5. v \in Fit3 <=> v[1] \in Tags3
  BY DEF Fit3, Encodable3
<1>6. v \in Plain3 => NoEmpty(Pairs(bec, PairsOf(v)))
  BY <1>1, NamedPlain
<1>7. MapOf(Pairs(bec, PairsOf(v))) = PairsBecome(bec, PairsOf(v))
  BY <1>1, PairsAre
<1> HIDE DEF visited, f, x, ps, es, vp, ve
<1>8. CASE v[1] \in {"AMF0StrictArray", "AMF0Object", "AMF0EcmaArray", "AMF0TypedObject"}
  <2>1. v[1] \notin Tags3
    BY <1>8 DEF Tags3, GoTags
  <2>2. f = Unsupported(e)
    BY <1>0, <2>1, Zenon DEF WrittenByType3, f
  <2>3. ~AllIn(visited, Fit3)
    BY <1>3, <1>5, <2>1
  <2>4. Carries3("value", 0, e, Unsupported(e), visited, x)
    BY <2>3, Refused3
  <2> QED BY <2>2, <2>4, Zenon DEF visited, f, x
<1>9. CASE v[1] = "slice"
  <2>1. es = v[2] /\ ps = <<>>
    BY <1>9 DEF PairsOf, ElementsOf, es, ps
  <2>2. f = EncodeArray(enc, e, es, ps)
    <3>1. f = EncodeArray(enc, e, v[2], <<>>)
      BY <1>0, <1>9, Zenon DEF WrittenByType3, f
    <3> QED BY <2>1, <3>1, Zenon
  <2>3. x = <<"AMF3Array", [dense |-> EachBecomes(bec, es), associative |-> MapOf(Pairs(bec, ps))]>>
    <3>1. x = <<"AMF3Array", [dense |-> EachBecomes(bec, v[2]), associative |-> NoProperties]>>
      BY <1>9, BecomesByType3 DEF x
    <3>2. Pairs(bec, ps) = <<>>
      BY <2>1, NothingJoined
    <3>3. NoProperties = MapOf(Pairs(bec, ps))
      BY <3>2, Zenon DEF NoProperties
    <3> QED BY <2>1, <3>1, <3>3, Zenon
  <2>4. v \in Fit3 /\ v[1] # "time" /\ v[1] \in Containers3
    BY <1>5, <1>9 DEF Tags3, GoTags, Containers3
  <2>5. es \in List(W) /\ ps \in List(GoString \X W) /\ (v \in Plain3 => NoEmpty(Pairs(bec, ps)))
    BY <1>1, <1>6 DEF es, ps
  <2>6. visited = <<v>> \o (FlattenSeq([i \in DOMAIN ps |-> vis[ps[i][2]]])
                              \o FlattenSeq([i \in DOMAIN es |-> vis[es[i]]]))
    BY <1>4, Zenon DEF vp, ve
  <2>7. Carries3("value", 0, e, EncodeArray(enc, e, es, ps), visited, x)
    BY <2>3, <2>4, <2>5, <2>6, ArrayCarried3
  <2> QED BY <2>2, <2>7, Zenon DEF visited, f, x
<1>10. CASE v[1] \in {"map", "AMF3Object"}
  <2>1. ps = v[2] /\ es = <<>>
    BY <1>10 DEF PairsOf, ElementsOf, es, ps
  <2>2. f = EncodeObject3(enc, e, ps)
    <3>1. f = EncodeObject3(enc, e, v[2])
      BY <1>0, <1>10, Zenon DEF WrittenByType3, f
    <3> QED BY <2>1, <3>1, Zenon
  <2>3. x = <<"AMF3Object", MapOf(Pairs(bec, ps)), <<>>>>
    <3>1. x = <<"AMF3Object", PairsBecome(bec, v[2]), <<>>>>
      BY <1>10, BecomesByType3 DEF x
    <3>2. MapOf(Pairs(bec, ps)) = PairsBecome(bec, v[2])
      BY <1>7, <2>1 DEF ps
    <3> QED BY <3>1, <3>2, Zenon
  <2>4. v \in Fit3 /\ v[1] # "time" /\ v[1] \in Containers3
    BY <1>5, <1>10 DEF Tags3, GoTags, Containers3
  <2>5. ps \in List(GoString \X W) /\ (v \in Plain3 => NoEmpty(Pairs(bec, ps)))
    BY <1>1, <1>6 DEF ps
  <2>6. visited = <<v>> \o FlattenSeq([i \in DOMAIN ps |-> vis[ps[i][2]]])
    <3>1. ve = <<>>
      BY <2>1, NothingJoined DEF ve
    <3>2. vp \in Seq(AnyValue)
      <4>1. /\ Len(ps) \in Nat /\ DOMAIN ps = 1 .. Len(ps)
            /\ \A i \in 1 .. Len(ps) : ps[i] \in GoString \X W
        BY <2>5, ListHas
      <4>2. \A i \in 1 .. Len(ps) : vis[ps[i][2]] \in Seq(AnyValue)
        BY <4>1
      <4>3. [i \in DOMAIN ps |-> vis[ps[i][2]]] \in Seq(Seq(AnyValue))
        BY <4>1, <4>2, IsASeq
      <4> QED BY <4>3, FlattenType DEF vp
    <3>3. vp \o ve = vp
      BY <3>1, <3>2, JoinNothing
    <3> QED BY <1>4, <3>3, Zenon DEF vp
  <2>7. Carries3("value", 0, e, EncodeObject3(enc, e, ps), visited, x)
    BY <2>3, <2>4, <2>5, <2>6, ObjectCarried3
  <2> QED BY <2>2, <2>7, Zenon DEF visited, f, x
<1>11. CASE v[1] = "AMF3Array"
  <2> DEFINE g == Write(e, <<Array3>>)
             y == <<"AMF3Array", [dense |-> EachBecomes(bec, es), associative |-> MapOf(Pairs(bec, ps))]>>
  <2>1. es = v[2].dense /\ ps = v[2].associative
    BY <1>11 DEF PairsOf, ElementsOf, es, ps
  <2>2. f = EncodeArray(enc, g, es, ps)
    <3>1. f = EncodeArray(enc, Write(e, <<Array3>>), v[2].dense, v[2].associative)
      BY <1>0, <1>11, Zenon DEF WrittenByType3, f
    <3> QED BY <2>1, <3>1, Zenon
  <2>3. v \in Fit3 /\ v[1] # "time" /\ v \notin Plain3
    BY <1>5, <1>11 DEF Tags3, GoTags, Plain3
  <2>4. ~AllIn(visited, Plain3)
    BY <1>3, <2>3
  <2>5. es \in List(W) /\ ps \in List(GoString \X W)
    BY <1>1 DEF es, ps
  <2>6. visited = <<v>> \o (FlattenSeq([i \in DOMAIN ps |-> vis[ps[i][2]]])
                              \o FlattenSeq([i \in DOMAIN es |-> vis[es[i]]]))
    BY <1>4, Zenon DEF vp, ve
  <2>7. Array3 \in Byte /\ g \in Good3
    <3>1. Array3 \in Byte
      BY Markers3
    <3>2. <<Array3>> \in Seq(Byte)
      BY <3>1
    <3> QED BY <3>1, <3>2, WriteHas3
  <2> HIDE DEF g
  <2>8. Carries3("value", 0, g, EncodeArray(enc, g, es, ps), visited, y)
    BY <2>3, <2>5, <2>6, <2>7, ArrayCarried3
  <2> HIDE DEF y
  <2>9. Carries3("value", 0, g, f, visited, y)
    BY <2>2, <2>8, Zenon
  <2>10. Carries3("value", 0, e, f, visited, x)
    BY <1>3, <2>4, <2>7, <2>9, MarkedTwice3 DEF g
  <2> QED BY <2>10, Zenon DEF visited, f, x
<1> QED
  BY <1>2, <1>8, <1>9, <1>10, <1>11

\* AMF3Encoder and decodeAMF3Value do the same, from any tables of strings and
\* objects that are in step: for values without empty keys, typed dates and arrays
\* and integers of more than 29 bits, in less than the 2^24 bytes of a message, if
\* no date is repeated that came after an array or an object.
THEOREM ValueCarried3 ==
    \A n \in Nat : Codec3(Value[n], EncodeValue3[n], Visit[n], Becomes3[n])
<1> DEFINE P(n) == Codec3(Value[n], EncodeValue3[n], Visit[n], Becomes3[n])
           T == {n \in Nat : P(n)}
<1>1. ASSUME NEW n \in Nat, n # 0 => P(n - 1)
      PROVE  P(n)
  <2> DEFINE enc == Inside(EncodeValue3, n)
             vis == Inside(Visit, n)
             bec == Inside(Becomes3, n)
             W == Within(n)
  <2> SUFFICES ASSUME NEW v \in Value[n], NEW e \in Good3
               PROVE  Carries3("value", 0, e, EncodeValue3[n][v][e], Visit[n][v], Becomes3[n][v])
    BY DEF Codec3
  <2>0. e \in Encoder3
    BY GoodHas3
  <2>1. EncodeValue3[n][v][e] = EncodeByType3(enc, e, v)
    <3>1. EncodeValue3[n] = EncodeStep3(n, enc)
      BY EncodeValue3Is, Zenon
    <3> HIDE DEF enc
    <3>2. EncodeStep3(n, enc)[v] = [g \in Encoder3 |-> EncodeByType3(enc, g, v)]
      BY Zenon DEF EncodeStep3
    <3>3. [g \in Encoder3 |-> EncodeByType3(enc, g, v)][e] = EncodeByType3(enc, e, v)
      BY <2>0, Zenon
    <3> QED BY <3>1, <3>2, <3>3, Zenon
  <2>2. Visit[n][v] = VisitBy(vis, v)
    <3>1. Visit[n] = VisitStep(n, vis)
      BY VisitIs, Zenon
    <3> HIDE DEF vis
    <3> QED BY <3>1, Zenon DEF VisitStep
  <2>3. Becomes3[n][v] = ByType3(bec, v)
    <3>1. Becomes3[n] = BecomeStep3(n, bec)
      BY Becomes3Is, Zenon
    <3> HIDE DEF bec
    <3> QED BY <3>1, Zenon DEF BecomeStep3
  <2>4. v \in AnyValue /\ v \in Scalar \cup Container(W)
    BY WithinIs
  <2>5. CASE v \in Scalar
    <3> HIDE DEF enc, vis, bec
    <3>1. Carries3("value", 0, e, EncodeByType3(enc, e, v), VisitBy(vis, v), ByType3(bec, v))
      BY <2>5, ScalarCarried3
    <3> QED BY <2>1, <2>2, <2>3, <3>1, Zenon
  <2>6. CASE v \in Container(W)
    <3>1. \A w \in W : vis[w] \in Seq(AnyValue)
      <4>1. CASE n = 0
        BY <4>1 DEF Within
      <4>2. CASE n # 0
        <5>1. W = Value[n - 1] /\ vis = Visit[n - 1]
          BY <4>2, Zenon DEF Within, Inside
        <5>2. n - 1 \in Nat
          BY <4>2
        <5> QED BY <5>1, <5>2, VisitHas
      <4> QED BY <4>1, <4>2
    <3>2. Codec3(W, enc, vis, bec)
      <4>1. CASE n = 0
        BY <4>1 DEF Within, Codec3
      <4>2. CASE n # 0
        <5>1. W = Value[n - 1] /\ vis = Visit[n - 1] /\ enc = EncodeValue3[n - 1] /\ bec = Becomes3[n - 1]
          BY <4>2, Zenon DEF Within, Inside
        <5> QED BY <1>1, <4>2, <5>1, Zenon
      <4> QED BY <4>1, <4>2
    <3> HIDE DEF enc, vis, bec, W
    <3>3. Carries3("value", 0, e, EncodeByType3(enc, e, v), VisitBy(vis, v), ByType3(bec, v))
      BY <2>4, <2>6, <3>1, <3>2, ContainerCarried3
    <3> QED BY <2>1, <2>2, <2>3, <3>3, Zenon
  <2> QED BY <2>4, <2>5, <2>6
<1> HIDE DEF P
<1>2. 0 \in T
  BY <1>1
<1>3. ASSUME NEW n \in Nat, n \in T PROVE n + 1 \in T
  <2>1. n + 1 \in Nat /\ (n + 1) - 1 = n /\ P(n)
    BY <1>3
  <2>2. P(n + 1)
    <3> DEFINE m == n + 1
    <3>1. m \in Nat /\ m - 1 = n /\ (m # 0 => P(m - 1))
      BY <2>1
    <3> HIDE DEF m
    <3>2. P(m)
      BY <1>1, <3>1
    <3> QED BY <3>2 DEF m
  <2> QED BY <2>1, <2>2
<1>4. Nat \subseteq T
  <2> HIDE DEF T
  <2> QED BY <1>2, <1>3, SetInduction
<1> QED BY <1>4 DEF P

=============================================================================
