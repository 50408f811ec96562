-------------------------------- MODULE Amf3 --------------------------------
(***************************************************************************)
(* The AMF3 codec: AMF3Encoder and AMF3Decoder of src/internal/amf3.       *)
(*                                                                         *)
(* Each keeps tables of what it has written or read, to which later bytes  *)
(* refer by index.  The two object tables are not filled alike: the        *)
(* encoder enters dates alone, the decoder arrays and objects as well.     *)
(***************************************************************************)
EXTENDS AmfValues

CONSTANTS
    UnixMillis,     \* float64(t.UnixNano()) / 1e6
    UnixTime        \* the UnixNano of time.Unix(0, int64(f * 1e6))

ASSUME UnixAssumption == IsConversion(UnixMillis) /\ IsConversion(UnixTime)

Undefined3 == 0
Null3 == 1
False3 == 2
True3 == 3
Integer3 == 4
Double3 == 5
String3 == 6
Date3 == 8
Array3 == 9
Object3 == 10

MinInt == -TwoTo28
MaxInt == TwoTo28 - 1

----------------------------------------------------------------------------
(* The encoder: strs is its string table, objs its table of dates.         *)

NewAMF3Encoder == [out |-> <<>>, strs |-> <<>>, objs |-> <<>>, ok |-> TRUE]
Encoder3 == [out : Seq(Byte), strs : Seq(Seq(Byte)), objs : Seq(Bits), ok : BOOLEAN]

WriteNumber(e, n) == Write(e, WriteU29(n))

\* Where table has x already, counted from 0; -1 if it has not.
IndexOf(table, x) == SelectInSeq(table, LAMBDA y : y = x) - 1

\* Mutant: the empty string is entered like any other.
WriteStringAlways(e, s) ==
  LET known == IndexOf(e.strs, s)
  IN  IF known >= 0 THEN WriteNumber(e, 2 * known)
      ELSE Write(WriteNumber([e EXCEPT !.strs = Append(@, s)], 2 * Len(s) + 1), s)

\* The empty string is never in the table.
WriteStringWithReference(e, s) ==
  LET known == IndexOf(e.strs, s)
  IN  IF s = <<>> THEN WriteNumber(e, 1)
      ELSE IF known >= 0 THEN WriteNumber(e, 2 * known)
      ELSE Write(WriteNumber([e EXCEPT !.strs = Append(@, s)], 2 * Len(s) + 1), s)

\* A float64 has not room for every nanosecond: two times may have one.
MillisOf(time) == Converted(UnixMillis, time)

\* The table is searched by time, to the nanosecond.
EncodeDate(e, time) ==
  LET started == Write(e, <<Date3>>)
      known == IndexOf(e.objs, time)
  IN  IF known >= 0 THEN WriteNumber(started, 2 * known)
      ELSE Write(WriteNumber([started EXCEPT !.objs = Append(@, time)], 1), MillisOf(time))

\* Key and value, in the order range gives them.  "encode" is encodeValue for
\* the values in a value, a function of the value and the encoder.
EncodePairs3(encode, e, pairs) ==
  InTurn([i \in DOMAIN pairs |->
            [f \in Encoder3 |-> encode[pairs[i][2]][WriteStringWithReference(f, pairs[i][1])]]], e)

EncodeArray(encode, e, dense, associative) ==
  LET started == WriteNumber(Write(e, <<Array3>>), 2 * Len(dense) + 1)
      named == WriteStringWithReference(EncodePairs3(encode, started, associative), <<>>)
  IN  InTurn([i \in DOMAIN dense |-> encode[dense[i]]], named)

\* Every object is an anonymous dynamic one.
EncodeObject3(encode, e, pairs) ==
  LET started == WriteStringWithReference(WriteNumber(Write(e, <<Object3>>), 11), <<>>)
  IN  WriteStringWithReference(EncodePairs3(encode, started, pairs), <<>>)

\* A typed date and a typed array: their marker is written here and written
\* again by the function for the untyped one.
EncodeTyped3(encode, e, v) ==
  CASE v[1] = "AMF3Date" -> EncodeDate(Write(e, <<Date3>>), v[2])
    [] v[1] = "AMF3Array" ->
         EncodeArray(encode, Write(e, <<Array3>>), v[2].dense, v[2].associative)
    [] OTHER -> Unsupported(e)

\* By the type of v, with encodeAMF3Value for the values that are typed.
EncodeByType3(encode, e, v) ==
  CASE v[1] = "AMF3Undefined" -> Write(e, <<Undefined3>>)
    [] v[1] \in {"nil", "AMF3Null"} -> Write(e, <<Null3>>)
    [] v[1] \in {"bool", "AMF3Boolean"} -> Write(e, <<IF v[2] THEN True3 ELSE False3>>)
    [] v[1] = "AMF3Integer" \/ (v[1] = "int" /\ v[2] \in MinInt .. MaxInt) ->
         WriteNumber(Write(e, <<Integer3>>), v[2])
    [] v[1] = "int" /\ v[2] \notin MinInt .. MaxInt -> Write(e, <<Double3>> \o Float64[v[2]])
    [] v[1] \in {"float64", "AMF3Double"} -> Write(e, <<Double3>> \o v[2])
    [] v[1] \in {"string", "AMF3String"} ->
         WriteStringWithReference(Write(e, <<String3>>), v[2])
    [] v[1] = "time" -> EncodeDate(e, v[2])
    [] v[1] = "slice" -> EncodeArray(encode, e, v[2], <<>>)
    [] v[1] \in {"map", "AMF3Object"} -> EncodeObject3(encode, e, v[2])
    [] OTHER -> EncodeTyped3(encode, e, v)

\* encodeValue for values nested n deep at most.
EncodeValue3[n \in Nat] ==
  [v \in Value[n] |-> [e \in Encoder3 |-> EncodeByType3(Inside(EncodeValue3, n), e, v)]]

----------------------------------------------------------------------------
(* The decoder: strs is its string table; objs has the dates, and for each *)
(* array and object that it came by its tag alone.  "inner" has            *)
(* decodeAMF3Value and the loops of decodeArrayValue and decodeObjectValue *)
(* as functions of the decoder.                                            *)

NewAMF3Decoder(bytes) == [in |-> bytes, strs |-> <<>>, objs |-> <<>>, ok |-> TRUE]
Tabled == {"AMF3Date"} \X Bits \cup {<<"AMF3Array">>, <<"AMF3Object">>}
Decoder3 == [in : Seq(Byte), strs : Seq(Seq(Byte)), objs : Seq(Tabled), ok : BOOLEAN]

ReadNumber(d) ==
  IF U29Length(d.in) = 0 THEN Failed(d)
  ELSE Ok([d EXCEPT !.in = SubSeq(@, U29Length(@) + 1, Len(@))], ReadU29(d.in))

Refers(handle) == handle % 2 = 0

\* Entry n of a table, from 0 on.
Entry(d, table, n) == IF n \in 0 .. Len(table) - 1 THEN Ok(d, table[n + 1]) ELSE Failed(d)

ReadStringWithReference(d) ==
  Bind(ReadNumber(d), LAMBDA e, h :
    IF Refers(h) THEN Entry(e, e.strs, h \div 2)
    ELSE IF h = 1 THEN Ok(e, <<>>)
    ELSE Bind(Take(e, h \div 2), LAMBDA f, s : Ok([f EXCEPT !.strs = Append(@, s)], s)))

\* The n-th object if it is of the type wanted.  A date is the date; an array
\* is a copy without its dense part, an object one without its traits, and
\* either shares its map with the original, which the value names by n.
Referred(d, n, tag) ==
  Bind(Entry(d, d.objs, n), LAMBDA e, obj :
    IF obj[1] # tag THEN Failed(e)
    ELSE Ok(e, IF tag = "AMF3Date" THEN obj ELSE <<"again", tag, n>>))

\* The conversion cuts off what is left of a nanosecond.
TimeFrom3(ms) == Converted(UnixTime, ms)
ReadTime(d) == Bind(Take(d, 8), LAMBDA e, ms : Ok(e, TimeFrom3(ms)))

DecodeDateValue(d) ==
  Bind(ReadNumber(d), LAMBDA e, h :
    IF Refers(h) THEN Referred(e, h \div 2, "AMF3Date")
    ELSE Bind(Tagged("AMF3Date", ReadTime(e)),
              LAMBDA f, date : Ok([f EXCEPT !.objs = Append(@, date)], date)))

\* Keys and values until the empty key.
DecodePairs3(inner, d) ==
  Bind(ReadStringWithReference(d), LAMBDA e, key :
    IF key = <<>> THEN Ok(e, <<>>)
    ELSE Bind(inner.value[e], LAMBDA f, v :
           Bind(inner.pairs[f], LAMBDA g, rest : Ok(g, <<<<key, v>>>> \o rest))))

\* k values; a mistaken k asks for more bytes than there are and ends in an error.
DecodeDense(inner, d, k) ==
  IF k = 0 THEN Ok(d, <<>>)
  ELSE Bind(inner.value[d], LAMBDA e, v :
         Bind(inner.dense[k - 1][e], LAMBDA f, rest : Ok(f, <<v>> \o rest)))

\* An array or an object is in the table before what it contains.
Entered(d, tag) == [d EXCEPT !.objs = Append(@, <<tag>>)]

DecodeArrayValue(inner, d) ==
  Bind(ReadNumber(d), LAMBDA e, h :
    IF Refers(h) THEN Referred(e, h \div 2, "AMF3Array")
    ELSE Bind(inner.pairs[Entered(e, "AMF3Array")], LAMBDA f, named :
           IF h < 0 THEN Failed(f)
           ELSE Bind(inner.dense[h \div 2][f], LAMBDA g, dense :
                  Ok(g, <<"AMF3Array", [dense |-> dense, associative |-> MapOf(named)]>>))))

\* What its handle says of traits is not looked at.
DecodeObjectValue(inner, d) ==
  Bind(ReadNumber(d), LAMBDA e, h :
    IF Refers(h) THEN Referred(e, h \div 2, "AMF3Object")
    ELSE Bind(ReadStringWithReference(Entered(e, "AMF3Object")), LAMBDA f, class :
           Bind(inner.pairs[f], LAMBDA g, pairs :
             Ok(g, <<"AMF3Object", MapOf(pairs), class>>))))

\* By the marker, which has been read.
DecodeMarked3(inner, d, marker) ==
  CASE marker = Undefined3 -> Ok(d, <<"AMF3Undefined">>)
    [] marker = Null3 -> Ok(d, <<"AMF3Null">>)
    [] marker \in {False3, True3} -> Ok(d, <<"AMF3Boolean", marker = True3>>)
    [] marker = Integer3 -> Tagged("AMF3Integer", ReadNumber(d))
    [] marker = Double3 -> Tagged("AMF3Double", Take(d, 8))
    [] marker = String3 -> Tagged("AMF3String", ReadStringWithReference(d))
    [] marker = Date3 -> DecodeDateValue(d)
    [] marker = Array3 -> DecodeArrayValue(inner, d)
    [] marker = Object3 -> DecodeObjectValue(inner, d)
    [] OTHER -> Failed(d)

DecodeByMarker3(inner, d) ==
  Bind(Take(d, 1), LAMBDA e, type : DecodeMarked3(inner, e, type[1]))

\* decodeAMF3Value and its loops, as far as n calls of them, one in the other, go.
Decoding3[n \in Nat] ==
  [value |-> [d \in Decoder3 |->
                IF n = 0 THEN Failed(d) ELSE DecodeByMarker3(Inside(Decoding3, n), d)],
   pairs |-> [d \in Decoder3 |->
                IF n = 0 THEN Failed(d) ELSE DecodePairs3(Inside(Decoding3, n), d)],
   dense |-> [k \in Nat |-> [d \in Decoder3 |->
                IF n = 0 THEN Failed(d) ELSE DecodeDense(Inside(Decoding3, n), d, k)]]]

\* Calls nest less deep than there are bytes.
DecodeAMF3Value(d) == Decoding3[Len(d.in) + 1].value[d]

----------------------------------------------------------------------------
(* What Decode gives: the value itself in Go's types, what it contains as  *)
(* decoded.                                                                *)

\* fmt.Sprintf("%d", n), for the index of a list: eight digits at most.
Decimal(n) ==
  LET more == Cardinality({k \in 1 .. 7 : 10 ^ k <= n})
  IN  [i \in 1 .. more + 1 |-> 48 + ((n \div 10 ^ (more + 1 - i)) % 10)]

\* An array with named elements becomes a map of them, and its dense part is put
\* there under 0, 1, ...
ArrayToGo(dense, associative) ==
  LET indexed == MapOf([i \in DOMAIN dense |-> <<Decimal(i - 1), dense[i]>>])
  IN  IF associative = NoProperties THEN <<"slice", dense>>
      ELSE <<"map", [k \in DOMAIN associative \cup DOMAIN indexed |->
                       IF k \in DOMAIN indexed THEN indexed[k] ELSE associative[k]]>>

ToGo3(v) ==
  CASE v[1] \in {"AMF3Undefined", "AMF3Null"} -> <<"nil">>
    [] v[1] = "AMF3Boolean" -> <<"bool", v[2]>>
    [] v[1] = "AMF3Integer" -> <<"int", v[2]>>
    [] v[1] = "AMF3Double" -> <<"float64", v[2]>>
    [] v[1] = "AMF3String" -> <<"string", v[2]>>
    [] v[1] = "AMF3Date" -> <<"time", v[2]>>
    [] v[1] = "AMF3Array" -> ArrayToGo(v[2].dense, v[2].associative)
    [] v[1] = "AMF3Object" -> <<"map", v[2]>>
    [] v[1] = "again" -> v

Decode3(d) == Bind(DecodeAMF3Value(d), LAMBDA e, v : Ok(e, ToGo3(v)))

=============================================================================
