----------------------------- MODULE AmfValues -----------------------------
(***************************************************************************)
(* What the two codecs share: values, and bytes that are read one by one.  *)
(*                                                                         *)
(* A value is a tuple of its Go type and its contents.  A string is the    *)
(* sequence of its bytes, a float64 the eight bytes of its bits.  A map    *)
(* that is encoded is the sequence of <<key, value>> pairs in the order in *)
(* which range happens to visit it; a map that was decoded is a function.  *)
(***************************************************************************)
EXTENDS U29, FiniteSets, SequencesExt

CONSTANTS
  Float64,        \* Go's conversion of an integer to the bits of a float64
  Nesting         \* how deep the values are nested that are encoded

ASSUME NestingAssumption == Nesting \in Nat \ {0}

\* A float64, or a time.Time by its UnixNano, is the eight bytes of its bits; a
\* string, or a list, has less than the 2^24 bytes that a message may have.
Bits == [1 .. 8 -> Byte]
TwoTo24 == TwoTo21 * 8
List(S) == {s \in Seq(S) : Len(s) < TwoTo24}
GoString == List(Byte)

ASSUME FloatAssumption ==
  /\ DOMAIN Float64 \subseteq Int
  /\ \A n \in DOMAIN Float64 : Float64[n] \in Bits
  /\ IsInjective(Float64)
  /\ -2 .. 3 \subseteq DOMAIN Float64

\* A conversion between 64-bit words is given where it is not the identity.
IsConversion(f) == \A word \in DOMAIN f : word \in Bits /\ f[word] \in Bits
Converted(f, word) == IF word \in DOMAIN f THEN f[word] ELSE word

\* The tags of Go's own types that both codecs take.
GoTags == {"nil", "bool", "int", "float64", "string", "slice", "map"}

\* Values that contain no others.
Scalar ==
  {<<"nil">>, <<"AMF0Null">>, <<"AMF0Undefined">>, <<"AMF3Null">>, <<"AMF3Undefined">>,
   <<"other">>}
    \cup {"bool", "AMF0Boolean", "AMF3Boolean"} \X BOOLEAN
    \cup {"int"} \X DOMAIN Float64
    \cup {"AMF3Integer"} \X Int
    \cup {"float64", "AMF0Number", "AMF3Double", "time", "AMF3Date"} \X Bits
    \cup {"string", "AMF0String", "AMF0LongString", "AMF3String"} \X GoString
    \cup {"AMF0Date"} \X [milliseconds : Bits, timezone : [1 .. 2 -> Byte]]

\* The pairs of a map, in an order in which range may visit them: every key once.
Mapping(S) ==
  {pairs \in List(GoString \X S) :
     \A i, j \in DOMAIN pairs : pairs[i][1] = pairs[j][1] => i = j}

\* Those that contain others, which are in S.
Container(S) ==
  {"slice", "AMF0StrictArray"} \X List(S)
    \cup {"map", "AMF0Object", "AMF3Object"} \X Mapping(S)
    \cup {"AMF3Array"} \X [dense : List(S), associative : Mapping(S)]
    \cup {"AMF0EcmaArray"} \X [count : Nat, properties : Mapping(S)]
    \cup {"AMF0TypedObject"} \X [className : GoString, properties : Mapping(S)]

\* What can be encoded: values nested n deep at most.
Value[n \in Nat] == IF n = 0 THEN Scalar ELSE Scalar \cup Container(Value[n - 1])

\* What a function of the depth, and then of the value, gives for values in one
\* that is nested n deep; in a scalar there are none.
Inside(f, n) == IF n = 0 THEN <<>> ELSE f[n - 1]

\* The map that has these pairs; of two with one key, the later one.
MapOf(pairs) ==
  [k \in {pairs[i][1] : i \in DOMAIN pairs} |->
     LET last == CHOOSE i \in DOMAIN pairs :
                   pairs[i][1] = k /\ \A j \in DOMAIN pairs : pairs[j][1] = k => j <= i
     IN  pairs[last][2]]

NoProperties == MapOf(<<>>)

\* properties[key] = value
WithProperty(f, key, value) ==
  [k \in DOMAIN f \cup {key} |-> IF k = key THEN value ELSE f[k]]

\* Big-endian numbers of two and four bytes; like every uint32 here, one of 2^31
\* or more comes out as the int32 with its bits.
UInt16(n) == <<n \div 256, n % 256>>
UInt32(n) ==
  <<(n \div (256 * 256 * 256)) % 256, (n \div (256 * 256)) % 256, (n \div 256) % 256, n % 256>>
SignByte(b) == IF b >= 128 THEN b - 256 ELSE b
Number(bytes) ==
  IF Len(bytes) = 2 THEN bytes[1] * 256 + bytes[2]
  ELSE SignByte(bytes[1]) * TwoTo24 + bytes[2] * (256 * 256) + bytes[3] * 256 + bytes[4]

----------------------------------------------------------------------------
(* Writing.  An encoder has the bytes written, and ok until an error.      *)

\* What the steps make of x, one after the other.
InTurn(steps, x) ==
  LET after[i \in 0 .. Len(steps)] == IF i = 0 THEN x ELSE steps[i][after[i - 1]]
  IN  after[Len(steps)]

Write(e, bytes) == [e EXCEPT !.out = @ \o bytes]
Unsupported(e) == [e EXCEPT !.ok = FALSE]

(* Reading.  A decoder has the bytes not yet read, and ok until an error.  *)

Nothing == <<"nothing">>
Ok(d, value) == [d |-> d, val |-> value]
Failed(d) == Ok([d EXCEPT !.ok = FALSE], Nothing)

\* "if err != nil { return err }": go on with the decoder and the value of r.
Bind(r, next(_, _)) == IF r.d.ok THEN next(r.d, r.val) ELSE r

\* What r reads as a value of Go type tag.
Tagged(tag, r) == Bind(r, LAMBDA d, v : Ok(d, <<tag, v>>))

\* Mutant: io.Reader's Read instead of io.ReadFull: some of the n bytes will do.
TakeSome(d, n) ==
  IF n >= 0 /\ (d.in # <<>> \/ n = 0)
  THEN Ok([d EXCEPT !.in = SubSeq(@, n + 1, Len(@))],
          [i \in 1 .. n |-> IF i <= Len(d.in) THEN d.in[i] ELSE 0])
  ELSE Failed(d)

\* io.ReadFull: n bytes or an error.
Take(d, n) ==
  IF n \in 0 .. Len(d.in)
  THEN Ok([d EXCEPT !.in = SubSeq(@, n + 1, Len(@))], SubSeq(d.in, 1, n))
  ELSE Failed(d)

=============================================================================
