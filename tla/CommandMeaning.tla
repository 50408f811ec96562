--------------------------- MODULE CommandMeaning ---------------------------
(***************************************************************************)
(* What a command ought to be when it arrives, said of the values alone,   *)
(* and the properties that compare it with what the codecs make of it.     *)
(***************************************************************************)
EXTENDS Commands

----------------------------------------------------------------------------
(* The Go value that a value becomes.                                      *)

\* AMF3: an integer of 29 bits stays one, any other becomes a float64.
Int3(n) == IF n \in MinInt .. MaxInt THEN <<"AMF3Integer", n>> ELSE <<"AMF3Double", Float64[n]>>

\* The class is a property, unless the object has one of that name.
WithClass(class, properties) ==
  IF ClassNameKey \in DOMAIN properties THEN properties
  ELSE WithProperty(properties, ClassNameKey, <<"string", class>>)

\* "becomes" is the same for the values in a value.
PairsBecome(becomes, pairs) ==
  MapOf([i \in DOMAIN pairs |-> <<pairs[i][1], becomes[pairs[i][2]]>>])
EachBecomes(becomes, values) == [i \in DOMAIN values |-> becomes[values[i]]]

\* Inside an array or an object AMF3 leaves the decoder's own types.
ByType3(becomes, v) ==
  CASE v[1] = "nil" -> <<"AMF3Null">>
    [] v[1] = "bool" -> <<"AMF3Boolean", v[2]>>
    [] v[1] = "int" -> Int3(v[2])
    [] v[1] = "float64" -> <<"AMF3Double", v[2]>>
    [] v[1] = "string" -> <<"AMF3String", v[2]>>
    [] v[1] \in {"time", "AMF3Date"} -> <<"AMF3Date", TimeFrom3(MillisOf(v[2]))>>
    [] v[1] = "slice" ->
         <<"AMF3Array", [dense |-> EachBecomes(becomes, v[2]), associative |-> NoProperties]>>
    [] v[1] = "AMF3Array" ->
         <<"AMF3Array", [dense |-> EachBecomes(becomes, v[2].dense),
                         associative |-> PairsBecome(becomes, v[2].associative)]>>
    [] v[1] \in {"map", "AMF3Object"} -> <<"AMF3Object", PairsBecome(becomes, v[2]), <<>>>>
    [] OTHER -> v

Becomes3[n \in Nat] == [v \in Value[n] |-> ByType3(Inside(Becomes3, n), v)]

\* AMF0 gives Go's values, and every number as a float64.
ByType0(becomes, v) ==
  CASE v[1] = "int" -> <<"float64", Float64[v[2]]>>
    [] v[1] = "AMF0Number" -> <<"float64", v[2]>>
    [] v[1] = "AMF0Boolean" -> <<"bool", v[2]>>
    [] v[1] \in {"AMF0String", "AMF0LongString"} -> <<"string", v[2]>>
    [] v[1] \in {"AMF0Null", "AMF0Undefined"} -> <<"nil">>
    [] v[1] \in {"slice", "AMF0StrictArray"} -> <<"slice", EachBecomes(becomes, v[2])>>
    [] v[1] \in {"map", "AMF0Object"} -> <<"map", PairsBecome(becomes, v[2])>>
    [] v[1] = "AMF0EcmaArray" -> <<"map", PairsBecome(becomes, v[2].properties)>>
    [] v[1] = "AMF0Date" -> <<"time", TimeFrom0(v[2].milliseconds)>>
    [] v[1] = "AMF0TypedObject" ->
         <<"map", WithClass(v[2].className, PairsBecome(becomes, v[2].properties))>>
    [] OTHER -> v

Becomes0[n \in Nat] == [v \in Value[n] |-> ByType0(Inside(Becomes0, n), v)]

Becomes(encoding, v) ==
  IF encoding = 3 THEN ToGo3(Becomes3[Nesting][v]) ELSE Becomes0[Nesting][v]

Meaning(s) ==
  Command(s.command.name, s.command.transactionID, Becomes(s.encoding, s.command.commandObj),
          [i \in DOMAIN s.command.args |-> Becomes(s.encoding, s.command.args[i])])

----------------------------------------------------------------------------
(* What can be built, and what arrives.                                    *)

\* The key and value pairs in v, and the values in v.
PairsOf(v) ==
  CASE v[1] \in {"map", "AMF0Object", "AMF3Object"} -> v[2]
    [] v[1] = "AMF3Array" -> v[2].associative
    [] v[1] \in {"AMF0EcmaArray", "AMF0TypedObject"} -> v[2].properties
    [] OTHER -> <<>>
ElementsOf(v) ==
  CASE v[1] \in {"slice", "AMF0StrictArray"} -> v[2]
    [] v[1] = "AMF3Array" -> v[2].dense
    [] OTHER -> <<>>

\* v and everything in it, in the order in which it is written.
VisitBy(visit, v) ==
  LET pairs == PairsOf(v)
      inside == [i \in DOMAIN pairs |-> visit[pairs[i][2]]]
                  \o [i \in DOMAIN ElementsOf(v) |-> visit[ElementsOf(v)[i]]]
  IN  <<v>> \o FlattenSeq(inside)

Visit[n \in Nat] == [v \in Value[n] |-> VisitBy(Inside(Visit, n), v)]

VisitCommand(c) ==
  Visit[Nesting][c.commandObj] \o FlattenSeq([i \in DOMAIN c.args |-> Visit[Nesting][c.args[i]]])

Keys(v) == {PairsOf(v)[i][1] : i \in DOMAIN PairsOf(v)}

Tags0 == GoTags \cup {"AMF0Number", "AMF0Boolean", "AMF0String", "AMF0LongString", "AMF0Null",
                      "AMF0Undefined", "AMF0Object", "AMF0StrictArray", "AMF0EcmaArray",
                      "AMF0TypedObject", "AMF0Date"}
Tags3 == GoTags \cup {"time", "AMF3Integer", "AMF3Double", "AMF3String", "AMF3Boolean",
                      "AMF3Null", "AMF3Undefined", "AMF3Date", "AMF3Array", "AMF3Object"}

\* AMF0 has no time.Time, no long keys, and no nil in a typed container; AMF3
\* writes all it knows.
Encodable0(v) ==
  /\ v[1] \in Tags0
  /\ \A k \in Keys(v) : Len(k) <= MaxShort
  /\ v[1] = "AMF0TypedObject" => Len(v[2].className) <= MaxShort
  /\ v[1] \in {"AMF0EcmaArray", "AMF0TypedObject"} => OfAMF0Types(v[2].properties)
Encodable3(v) == v[1] \in Tags3

Buildable(s) ==
  LET visited == VisitCommand(s.command)
  IN  \A i \in DOMAIN visited :
        IF s.encoding = 3 THEN Encodable3(visited[i]) ELSE Encodable0(visited[i])

\* A date that comes twice has no array and no object before its first time.
DatesBeforeContainers(visited) ==
  \A i, j \in DOMAIN visited :
    /\ i < j /\ visited[i][1] = "time" /\ visited[j] = visited[i]
    /\ \A k \in 1 .. i - 1 : visited[k] # visited[i]
    => \A k \in 1 .. i : visited[k][1] \notin {"slice", "map", "AMF3Object"}

NoEmptyKey(visited) == \A i \in DOMAIN visited : <<>> \notin Keys(visited[i])

NoTypedContainers(visited) ==
  \A i \in DOMAIN visited : visited[i][1] \notin {"AMF3Date", "AMF3Array"}

NoWideInteger(visited) ==
  \A i \in DOMAIN visited : visited[i][1] = "AMF3Integer" => visited[i][2] \in MinInt .. MaxInt

\* Something in it has no form that can be read back.
Unreadable(s) ==
  LET visited == VisitCommand(s.command)
  IN  ~NoEmptyKey(visited) \/ (s.encoding = 3 /\ ~NoWideInteger(visited))

\* It has typed dates or arrays, which AMF3 writes with their marker twice.
Typed(s) == s.encoding = 3 /\ ~NoTypedContainers(VisitCommand(s.command))

Plain(s) ==
  LET visited == VisitCommand(s.command)
  IN  /\ NoEmptyKey(visited)
      /\ s.encoding = 3 => /\ NoTypedContainers(visited)
                           /\ DatesBeforeContainers(visited)
                           /\ NoWideInteger(visited)

----------------------------------------------------------------------------
(* Invariants                                                              *)

\* Each variable has its type; in particular every byte written is a byte.
CommandsTypeOK ==
  /\ builderEncoding \in Encodings
  /\ parserEncoding \in Encodings
  /\ message # None =>
       /\ sent # None /\ sent.ok /\ parsed = None
       /\ \A i \in DOMAIN message.bytes : message.bytes[i] \in Byte
       /\ message.whole \in BOOLEAN
  /\ parsed # None => parsed.encoding \in Encodings /\ sent # None
  /\ understood # None =>
       understood.as \in {"connect", "publish", "play"} /\ parsed # None
  /\ followers \subseteq {"builder", "parser"}
  /\ followers # {} => understood # None

Read == parsed # None
SameEncoding == Read /\ parsed.encoding = sent.encoding

\* BuildCommand fails exactly for values its codec has no form for, and what
\* is read of a whole message is the command that was built, if no key is empty
\* and, in AMF3, no array or date is a typed one, no typed integer has more than
\* 29 bits, and no date is repeated that came after an array or an object.  A date
\* arrives as what the conversions of both codecs leave of it: from AMF3 some
\* nanoseconds early (amf3.go:332, 773), from AMF0 in whole milliseconds.
ArrivesWhole ==
  /\ sent # None => (sent.ok <=> Buildable(sent))
  /\ SameEncoding /\ parsed.whole /\ Plain(sent) => parsed.command = Meaning(sent)

\* A command with an empty key, or in AMF3 with a typed integer of more than 29
\* bits, never arrives, whole or cut: the decoders end an object at the empty key
\* (amf0.go:583, amf3.go:946) and sign-extend what WriteU29 has cut, so no bytes
\* at all give that command; it is another one, or none.
UnreadableIsLost ==
  SameEncoding /\ Unreadable(sent) /\ ~Typed(sent) => parsed.command # Meaning(sent)

\* A message that lost its tail is refused, or gives a command that is right as
\* far as it goes: the loop over the arguments ends at the first that is not
\* all there (io.ReadFull), and says nothing.
CutIsPrefix ==
  SameEncoding /\ ~parsed.whole /\ Plain(sent) /\ parsed.command # Refused =>
    LET meant == Meaning(sent)
    IN  /\ parsed.command = [meant EXCEPT !.args = parsed.command.args]
        /\ IsPrefix(parsed.command.args, meant.args)

\* No command of one encoding is taken for a command of the other: the marker of
\* a string in one marks no string in the other.
OtherEncodingRefused ==
  Read /\ ~SameEncoding => parsed.command = Refused

\* What the connect command's map says of a field, in the type the field has.
Said(field) ==
  LET meant == Becomes0[Nesting][sent.command.commandObj][2]
      key == Text[field]
  IN  IF key \in DOMAIN meant /\ meant[key][1] = ZeroOf(field)[1] THEN meant[key]
      ELSE ZeroOf(field)

\* Of a connect command in AMF0 the parser understands every field as it was
\* sent, and keeps what else there was (commands.go:228).
ConnectUnderstood ==
  /\ understood # None /\ understood.as = "connect" /\ understood.result # Refused
  /\ sent.encoding = 0 /\ Plain(sent)
  => LET known == {Text[f] : f \in ConnectFields}
         obj == Meaning(sent).commandObj[2]
     IN  /\ \A f \in ConnectFields : understood.result.fields[f] = Said(f)
         /\ understood.result.additional = [k \in DOMAIN obj \ known |-> obj[k]]

\* The Go string, bool or float64 that v arrives as.  A number that AMF3 sends as
\* an integer comes back an int32, and is none of them.
ArrivesAs(v) ==
  CASE v[1] \in {"string", "AMF0String", "AMF0LongString", "AMF3String"} -> <<"string", v[2]>>
    [] v[1] \in {"bool", "AMF0Boolean", "AMF3Boolean"} -> <<"bool", v[2]>>
    [] v[1] \in {"float64", "AMF0Number", "AMF3Double"} -> <<"float64", v[2]>>
    [] v[1] = "int" /\ (sent.encoding = 0 \/ v[2] \notin MinInt .. MaxInt) ->
         <<"float64", Float64[v[2]]>>
    [] OTHER -> <<"other">>

\* What is asked for as argument i.
Asked(i, default) ==
  LET args == sent.command.args
  IN  IF i \in DOMAIN args /\ ArrivesAs(args[i])[1] = default[1] THEN ArrivesAs(args[i])
      ELSE default

\* AMF3 sends it as an integer.
AsInteger(v) == v[1] = "AMF3Integer" \/ (v[1] = "int" /\ v[2] \in MinInt .. MaxInt)

\* What a play or a publish command asks for is understood as it was sent, in
\* either encoding, if no number goes as an AMF3 integer; a command without its
\* strings is refused, and for what is missing or no number the default stands.
ArgumentsUnderstood ==
  /\ understood # None /\ understood.as # "connect" /\ parsed.whole /\ Plain(sent)
  /\ sent.encoding = 3 => \A i \in DOMAIN sent.command.args : ~AsInteger(sent.command.args[i])
  => LET args == sent.command.args
         strings == IF understood.as = "publish" THEN 1 .. 2 ELSE 1 .. 1
         result == understood.result
     IN  /\ result = Refused <=>
              \E i \in strings : i \notin DOMAIN args \/ ArrivesAs(args[i])[1] # "string"
         /\ result # Refused => result.streamName = args[1][2]
         /\ result # Refused /\ understood.as = "publish" => result.type = args[2][2]
         /\ result # Refused /\ understood.as = "play" =>
              /\ result.start = Asked(2, <<"float64", Float64[-2]>>)
              /\ result.duration = Asked(3, <<"float64", Float64[-1]>>)
              /\ result.reset = Asked(4, <<"bool", TRUE>>)

\* Did the connect command ask for AMF3?
AskedFor3 == Said("objectEncoding") = <<"float64", Float64[3]>>

\* What an end speaks that follows a command of which the application has made r.
Agreed(r) == IF r # Refused /\ AskedFor3 THEN 3 ELSE 0

Follow(encoding) ==
  /\ "builder" \in followers => builderEncoding = encoding
  /\ "parser" \in followers => parserEncoding = encoding

\* An end that follows a connect command in AMF0, and is not set otherwise
\* afterwards, speaks AMF3 exactly if the command asks for it, whatever it spoke
\* before.  Two ends that follow one command speak the same.
FollowsConnect ==
  followers # {} /\ sent.encoding = 0 /\ Plain(sent) => Follow(Agreed(understood.result))

\* The two together: what a connect command in AMF0 says is understood, and done
\* at either end (commands.go:163, 228, 403).
ConnectObeyed == ConnectUnderstood /\ FollowsConnect

----------------------------------------------------------------------------
(* What the documentation says and the code does not keep.                 *)

\* README: "The same connection can seamlessly handle both formats": of a command
\* that both have a form for the application learns the same in either, and who
\* follows a connect command speaks what it asks for, in whichever it came.
FormatsAlike ==
  /\ understood # None /\ understood.result # Refused
  /\ parsed.whole /\ Plain(sent) /\ Buildable([sent EXCEPT !.encoding = 0])
  => LET args == Meaning([sent EXCEPT !.encoding = 0]).args
         result == understood.result
     IN  /\ understood.as = "connect" => \A f \in ConnectFields : result.fields[f] = Said(f)
         /\ understood.as = "publish" => result = ParsePublishCommand(args)
         /\ understood.as = "play" => result = ParsePlayCommand(args)
         /\ followers # {} => Follow(Agreed(result))

=============================================================================
