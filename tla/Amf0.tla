-------------------------------- MODULE Amf0 --------------------------------
(***************************************************************************)
(* The AMF0 codec: AMF0Encoder and AMF0Decoder of src/internal/amf0.       *)
(* It keeps no tables: what a value is written as depends on nothing else. *)
(***************************************************************************)
EXTENDS AmfValues

CONSTANTS
  MaxShort,       \* the longest string a two-byte length announces: 65535
  ClassNameKey,   \* the bytes of "__className"
  DateTime        \* the UnixNano of AMF0Date.Time for each Milliseconds

ASSUME MaxShortAssumption == MaxShort \in Nat \ {0} /\ MaxShort < 256 * 256

ASSUME DateTimeAssumption == IsConversion(DateTime)

ASSUME ClassNameAssumption == ClassNameKey \in GoString /\ ClassNameKey # <<>>

Number0 == 0
Boolean0 == 1
String0 == 2
Object0 == 3
Null0 == 5
Undefined0 == 6
EcmaArray0 == 8
ObjectEnd0 == 9
StrictArray0 == 10
Date0 == 11
LongString0 == 12
TypedObject0 == 16

----------------------------------------------------------------------------
(* The encoder.  "encode" is encodeValue for the values in a value, a      *)
(* function of the value and the encoder.                                  *)

NewAMF0Encoder == [out |-> <<>>, ok |-> TRUE]
Encoder0 == [out : Seq(Byte), ok : BOOLEAN]

WriteShort(e, s) ==
  IF Len(s) > MaxShort THEN Unsupported(e) ELSE Write(e, UInt16(Len(s)) \o s)

EncodeLongString(e, s) == Write(e, <<LongString0>> \o UInt32(Len(s)) \o s)

EncodeString0(e, s) ==
  IF Len(s) > MaxShort THEN EncodeLongString(e, s) ELSE WriteShort(Write(e, <<String0>>), s)

\* The keys and values of an object, in the order range gives them, to its end.
EncodePairs0(encode, e, pairs) ==
  LET named == InTurn([i \in DOMAIN pairs |->
                         [f \in Encoder0 |-> encode[pairs[i][2]][WriteShort(f, pairs[i][1])]]], e)
  IN  Write(WriteShort(named, <<>>), <<ObjectEnd0>>)

\* encodeAMF0Value has no case for Go's own types; the one that a map of AMF0Value
\* can have is nil.
OfAMF0Types(pairs) == \A i \in DOMAIN pairs : pairs[i][2][1] \notin GoTags

EncodeTypedPairs0(encode, e, pairs) ==
  IF OfAMF0Types(pairs) THEN EncodePairs0(encode, e, pairs) ELSE Unsupported(e)

EncodeStrictArray(encode, e, values) ==
  InTurn([i \in DOMAIN values |-> encode[values[i]]],
         Write(e, <<StrictArray0>> \o UInt32(Len(values))))

\* By the type of v, with encodeAMF0Value for the values that are typed.  A
\* time.Time is not among what it takes.
EncodeByType0(encode, e, v) ==
  CASE v[1] \in {"float64", "AMF0Number"} -> Write(e, <<Number0>> \o v[2])
    [] v[1] = "int" -> Write(e, <<Number0>> \o Float64[v[2]])
    [] v[1] \in {"bool", "AMF0Boolean"} -> Write(e, <<Boolean0, IF v[2] THEN 1 ELSE 0>>)
    [] v[1] \in {"string", "AMF0String"} -> EncodeString0(e, v[2])
    [] v[1] \in {"map", "AMF0Object"} -> EncodePairs0(encode, Write(e, <<Object0>>), v[2])
    [] v[1] \in {"slice", "AMF0StrictArray"} -> EncodeStrictArray(encode, e, v[2])
    [] v[1] \in {"nil", "AMF0Null"} -> Write(e, <<Null0>>)
    [] v[1] = "AMF0Undefined" -> Write(e, <<Undefined0>>)
    [] v[1] = "AMF0EcmaArray" ->
         EncodeTypedPairs0(encode, Write(e, <<EcmaArray0>> \o UInt32(v[2].count)),
                           v[2].properties)
    [] v[1] = "AMF0Date" ->
         Write(e, <<Date0>> \o v[2].milliseconds \o v[2].timezone)
    [] v[1] = "AMF0LongString" -> EncodeLongString(e, v[2])
    [] v[1] = "AMF0TypedObject" ->
         EncodeTypedPairs0(encode, WriteShort(Write(e, <<TypedObject0>>), v[2].className),
                           v[2].properties)
    [] OTHER -> Unsupported(e)

\* encodeValue for values nested n deep at most.
EncodeValue0[n \in Nat] ==
  [v \in Value[n] |-> [e \in Encoder0 |-> EncodeByType0(Inside(EncodeValue0, n), e, v)]]

----------------------------------------------------------------------------
(* The decoder.  What it gives are Go's values, at every depth.  "inner"   *)
(* has decodeValue and the loops of decodeObject and decodeStrictArray as  *)
(* functions of the decoder.                                               *)

NewAMF0Decoder(bytes) == [in |-> bytes, ok |-> TRUE]
Decoder0 == [in : Seq(Byte), ok : BOOLEAN]

\* An unsigned number of n bytes.
ReadUInt(d, n) == Bind(Take(d, n), LAMBDA e, bytes : Ok(e, Number(bytes)))

\* A string whose length has n bytes.
ReadUTF8(d, n) == Bind(ReadUInt(d, n), LAMBDA e, length : Take(e, length))

ReadObjectEnd(d) ==
  Bind(Take(d, 1), LAMBDA e, marker :
    IF marker = <<ObjectEnd0>> THEN Ok(e, <<>>) ELSE Failed(e))

\* Mutant: an empty key that no end marker follows is a key like any other.
DecodePairsToEnd(inner, d) ==
  Bind(ReadUTF8(d, 2), LAMBDA e, key :
    IF key = <<>> /\ ReadObjectEnd(e).d.ok THEN ReadObjectEnd(e)
    ELSE Bind(inner.value[e], LAMBDA f, v :
           Bind(inner.pairs[f], LAMBDA g, rest : Ok(g, <<<<key, v>>>> \o rest))))

\* Keys and values until the empty key, which the end marker must follow.
DecodePairs0(inner, d) ==
  Bind(ReadUTF8(d, 2), LAMBDA e, key :
    IF key = <<>> THEN ReadObjectEnd(e)
    ELSE Bind(inner.value[e], LAMBDA f, v :
           Bind(inner.pairs[f], LAMBDA g, rest : Ok(g, <<<<key, v>>>> \o rest))))

\* k values; a mistaken k asks for more bytes than there are and ends in an error.
DecodeElements(inner, d, k) ==
  IF k = 0 THEN Ok(d, <<>>)
  ELSE Bind(inner.value[d], LAMBDA e, v :
         Bind(inner.elements[k - 1][e], LAMBDA f, rest : Ok(f, <<v>> \o rest)))

DecodeStrictArray(inner, d) ==
  Bind(ReadUInt(d, 4), LAMBDA e, count :
    IF count < 0 THEN Failed(e) ELSE Tagged("slice", inner.elements[count][e]))

\* A map of the pairs, after those of the sequence first.
DecodeMap(inner, d, first) ==
  Bind(inner.pairs[d], LAMBDA e, pairs : Ok(e, <<"map", MapOf(first \o pairs)>>))

\* The count is read and not used.
DecodeEcmaArray(inner, d) ==
  Bind(ReadUInt(d, 4), LAMBDA e, count : DecodeMap(inner, e, <<>>))

\* AMF0Date.Time: whole milliseconds are left; the zone is not used.
TimeFrom0(ms) == Converted(DateTime, ms)

DecodeDateValue0(d) ==
  Bind(Take(d, 8), LAMBDA e, ms :
    Bind(Take(e, 2), LAMBDA f, zone : Ok(f, <<"time", TimeFrom0(ms)>>)))

\* The class is a property, unless the object has one of that name.
DecodeTypedObject(inner, d) ==
  Bind(ReadUTF8(d, 2), LAMBDA e, class :
    DecodeMap(inner, e, <<<<ClassNameKey, <<"string", class>>>>>>))

\* By the marker, which has been read.
DecodeMarked0(inner, d, marker) ==
  CASE marker = Number0 -> Tagged("float64", Take(d, 8))
    [] marker = Boolean0 -> Bind(Take(d, 1), LAMBDA e, b : Ok(e, <<"bool", b # <<0>>>>))
    [] marker = String0 -> Tagged("string", ReadUTF8(d, 2))
    [] marker = Object0 -> DecodeMap(inner, d, <<>>)
    [] marker \in {Null0, Undefined0} -> Ok(d, <<"nil">>)
    [] marker = EcmaArray0 -> DecodeEcmaArray(inner, d)
    [] marker = StrictArray0 -> DecodeStrictArray(inner, d)
    [] marker = Date0 -> DecodeDateValue0(d)
    [] marker = LongString0 -> Tagged("string", ReadUTF8(d, 4))
    [] marker = TypedObject0 -> DecodeTypedObject(inner, d)
    [] OTHER -> Failed(d)

DecodeByMarker0(inner, d) ==
  Bind(Take(d, 1), LAMBDA e, type : DecodeMarked0(inner, e, type[1]))

\* decodeValue and its loops, as far as n calls of them, one in the other, go.
Decoding0[n \in Nat] ==
  [value |-> [d \in Decoder0 |->
                IF n = 0 THEN Failed(d) ELSE DecodeByMarker0(Inside(Decoding0, n), d)],
   pairs |-> [d \in Decoder0 |->
                IF n = 0 THEN Failed(d) ELSE DecodePairs0(Inside(Decoding0, n), d)],
   elements |-> [k \in Nat |-> [d \in Decoder0 |->
                IF n = 0 THEN Failed(d) ELSE DecodeElements(Inside(Decoding0, n), d, k)]]]

\* Calls nest less deep than there are bytes.
Decode0(d) == Decoding0[Len(d.in) + 1].value[d]

=============================================================================
