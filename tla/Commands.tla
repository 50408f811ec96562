------------------------------ MODULE Commands ------------------------------
(***************************************************************************)
(* A CommandBuilder at one end, a CommandParser at the other, and one      *)
(* command message at a time between them, which may lose its tail.        *)
(*                                                                         *)
(* The two choose their codec each for itself; what arrives depends on the *)
(* choice, on the codec's tables, and on Go's types, which the parser      *)
(* asserts and the codec does not always give back.                        *)
(***************************************************************************)
EXTENDS Amf3, Amf0

CONSTANTS
  Text,           \* the bytes of each name the code spells out
  Commands,       \* what BuildCommand may be called with
  Infos           \* the maps BuildConnectResult and BuildConnectError may be given

ASSUME TextAssumption ==
  /\ IsInjective(Text)
  /\ \A s \in DOMAIN Text : Text[s] \in GoString /\ Text[s] # <<>>

\* A command with values as deep as Nesting allows.
CommandSet ==
  [name : GoString, transactionID : Bits, commandObj : Value[Nesting], args : Seq(Value[Nesting])]

ASSUME CommandsAssumption ==
  /\ Commands \subseteq CommandSet
  /\ \A p \in Infos : <<"map", p>> \in Value[Nesting]

VARIABLES
  builderEncoding,
  parserEncoding,
  sent,           \* what the builder was given, by which encoding, and whether it could
  message,        \* its bytes, and whether they are all there
  parsed,         \* what the parser made of them, and by which encoding
  understood,     \* what the application asked the parser to make of that
  followers       \* history: the ends whose encoding is the one that asks for

\* No command, no message, nothing parsed or understood.
None == [none |-> TRUE]

vars == <<builderEncoding, parserEncoding, sent, message, parsed, understood,
          followers>>

Encodings == {0, 3}

----------------------------------------------------------------------------
(* CommandBuilder                                                          *)

Command(name, transactionID, commandObj, args) ==
  [name |-> name, transactionID |-> transactionID, commandObj |-> commandObj, args |-> args]

\* Name, transaction, object and arguments, to one encoder.
Values(c) == <<<<"string", c.name>>, <<"float64", c.transactionID>>, c.commandObj>> \o c.args

BuildCommand(encoding, c) ==
  LET encode == IF encoding = 3 THEN EncodeValue3[Nesting] ELSE EncodeValue0[Nesting]
  IN  InTurn([i \in DOMAIN Values(c) |-> encode[Values(c)[i]]],
             IF encoding = 3 THEN NewAMF3Encoder ELSE NewAMF0Encoder)

String(s) == <<"string", Text[s]>>

ConnectResult(name, transactionID, properties, information) ==
  Command(Text[name], transactionID, <<"map", properties>>, <<<<"map", information>>>>)

CreateStreamResult(transactionID, streamID) ==
  Command(Text["_result"], transactionID, <<"nil">>, <<<<"float64", streamID>>>>)

\* The status as a map, details only if there are some.
OnStatus(transactionID, commandObj, level, code, description, details) ==
  LET always == <<<<Text["level"], String(level)>>, <<Text["code"], String(code)>>,
                  <<Text["description"], <<"string", description>>>>>>
      status == IF details = <<>> THEN always
                ELSE Append(always, <<Text["details"], <<"string", details>>>>)
  IN  Command(Text["onStatus"], transactionID, commandObj, <<<<"map", status>>>>)

PublishResult(transactionID) ==
  OnStatus(transactionID, <<"nil">>, "status", "NetStream.Publish.Start",
           Text["Stream is now published"], <<>>)

PlayResult(transactionID) ==
  OnStatus(transactionID, <<"nil">>, "status", "NetStream.Play.Start",
           Text["Stream is now playing"], <<>>)

BuildError(transactionID, code, description) ==
  OnStatus(transactionID, <<"nil">>, "error", code, description, <<>>)

\* What the builder's own functions are asked for.
ConnectResults(name) == {ConnectResult(name, Float64[1], p, i) : p \in Infos, i \in Infos}
StreamResults == {CreateStreamResult(Float64[2], Float64[1])}
PublishResults == {PublishResult(Float64[0])}
PlayResults == {PlayResult(Float64[0])}
ErrorStatuses ==
  {BuildError(Float64[0], "NetStream.Play.StreamNotFound", Text["Stream is now playing"])}
Statuses ==
  {OnStatus(Float64[0], <<"map", p>>, "warning", "NetStream.Play.Start", <<>>, details) :
     p \in Infos, details \in {<<>>, Text["details"]}}

AnyCommand ==
  Commands \cup ConnectResults("_result") \cup ConnectResults("_error") \cup StreamResults
    \cup PublishResults \cup PlayResults \cup ErrorStatuses \cup Statuses

\* The length of a message is a number of three bytes.
ASSUME SmallAssumption ==
  \A c \in AnyCommand : \A encoding \in Encodings : Len(BuildCommand(encoding, c).out) < TwoTo24

----------------------------------------------------------------------------
(* CommandParser                                                           *)

Refused == [refused |-> TRUE]

NewDecoder(encoding, data) ==
  IF encoding = 3 THEN NewAMF3Decoder(data) ELSE NewAMF0Decoder(data)

Decode(encoding, d) == IF encoding = 3 THEN Decode3(d) ELSE Decode0(d)

Decoder(encoding) == IF encoding = 3 THEN Decoder3 ELSE Decoder0

\* Every value up to the first that cannot be decoded, whatever the reason, and n
\* values at most.
ArgumentsFrom(next, encoding, d) ==
  LET r == Decode(encoding, d) IN IF r.d.ok THEN <<r.val>> \o next[r.d] ELSE <<>>

Arguments[n \in Nat] ==
  [encoding \in Encodings |-> [d \in Decoder(encoding) |->
    IF n = 0 THEN <<>> ELSE ArgumentsFrom(Inside(Arguments, n)[encoding], encoding, d)]]

\* Each takes a byte at least.
AdditionalArgs(encoding, d) == Arguments[Len(d.in)][encoding][d]

\* Name, transaction and object, each if the ones before it have been read.
ReadHead(encoding, data) ==
  Bind(Decode(encoding, NewDecoder(encoding, data)), LAMBDA d, name :
    Bind(Decode(encoding, d), LAMBDA e, transaction :
      Bind(Decode(encoding, e), LAMBDA f, object : Ok(f, <<name, transaction, object>>))))

\* Mutant: what is not a string is taken for an empty name, what is not a number
\* for the transaction 0.
CommandUnchecked(encoding, r) ==
  IF ~r.d.ok THEN Refused
  ELSE Command(IF r.val[1][1] = "string" THEN r.val[1][2] ELSE <<>>,
               IF r.val[2][1] = "float64" THEN r.val[2][2] ELSE Float64[0],
               r.val[3], AdditionalArgs(encoding, r.d))

\* What follows the three values r.
CommandOf(encoding, r) ==
  IF ~r.d.ok THEN Refused
  ELSE IF r.val[1][1] # "string" \/ r.val[2][1] # "float64" THEN Refused
  ELSE Command(r.val[1][2], r.val[2][2], r.val[3], AdditionalArgs(encoding, r.d))

ParseCommand(encoding, data) == CommandOf(encoding, ReadHead(encoding, data))

StringFields == {"app", "type", "flashVer", "swfUrl", "tcUrl", "pageUrl"}
BoolFields == {"fpad"}
NumberFields == {"audioCodecs", "videoCodecs", "videoFunction", "objectEncoding", "capabilities"}
ConnectFields == StringFields \cup BoolFields \cup NumberFields

ASSUME NamesAssumption ==
  ConnectFields
    \cup {"connect", "publish", "play", "_result", "_error", "onStatus", "level", "code",
          "description", "details", "status", "error", "warning", "NetStream.Publish.Start",
          "NetStream.Play.Start", "NetStream.Play.StreamNotFound", "Stream is now published",
          "Stream is now playing"}
    \subseteq DOMAIN Text

ZeroOf(field) ==
  IF field \in StringFields THEN <<"string", <<>>>>
  ELSE IF field \in BoolFields THEN <<"bool", FALSE>> ELSE <<"float64", Float64[0]>>

\* A field that is absent, or is not of its Go type, keeps its zero value.
Field(obj, field) ==
  LET key == Text[field]
  IN  IF key \in DOMAIN obj /\ obj[key][1] = ZeroOf(field)[1] THEN obj[key] ELSE ZeroOf(field)

ParseConnectCommand(commandObj) ==
  LET unknown == DOMAIN commandObj[2] \ {Text[f] : f \in ConnectFields}
  IN  IF commandObj[1] # "map" THEN Refused
      ELSE [fields |-> [f \in ConnectFields |-> Field(commandObj[2], f)],
            additional |-> [k \in unknown |-> commandObj[2][k]]]

ParsePublishCommand(args) ==
  IF Len(args) < 2 THEN Refused
  ELSE IF args[1][1] # "string" \/ args[2][1] # "string" THEN Refused
  ELSE [streamName |-> args[1][2], type |-> args[2][2]]

\* The i-th argument, or the default if it is absent or of another Go type.
Optional(args, i, default) ==
  IF Len(args) >= i /\ args[i][1] = default[1] THEN args[i] ELSE default

\* Mutant: the duration is read where the start is.
ParsePlayCommandSwapped(args) ==
  IF Len(args) < 1 \/ args[1][1] # "string" THEN Refused
  ELSE [streamName |-> args[1][2],
        start |-> Optional(args, 3, <<"float64", Float64[-2]>>),
        duration |-> Optional(args, 2, <<"float64", Float64[-1]>>),
        reset |-> Optional(args, 4, <<"bool", TRUE>>)]

ParsePlayCommand(args) ==
  IF Len(args) < 1 THEN Refused
  ELSE IF args[1][1] # "string" THEN Refused
  ELSE [streamName |-> args[1][2],
        start |-> Optional(args, 2, <<"float64", Float64[-2]>>),
        duration |-> Optional(args, 3, <<"float64", Float64[-1]>>),
        reset |-> Optional(args, 4, <<"bool", TRUE>>)]

----------------------------------------------------------------------------
Init ==
  /\ builderEncoding = 0
  /\ parserEncoding = 0
  /\ sent = None
  /\ message = None
  /\ parsed = None
  /\ understood = None
  /\ followers = {}

\* Mutant: what was written before the error is a message all the same.
BuiltAnyway(c, e) ==
  /\ sent = None
  /\ sent' = [command |-> c, encoding |-> builderEncoding, ok |-> e.ok]
  /\ message' = [bytes |-> e.out, whole |-> TRUE]
  /\ UNCHANGED <<builderEncoding, parserEncoding, parsed, understood, followers>>

\* The builder has written command c to e; a value it cannot encode leaves no
\* message.
Built(c, e) ==
  /\ sent = None
  /\ sent' = [command |-> c, encoding |-> builderEncoding, ok |-> e.ok]
  /\ message' = IF e.ok THEN [bytes |-> e.out, whole |-> TRUE] ELSE None
  /\ UNCHANGED <<builderEncoding, parserEncoding, parsed, understood, followers>>

Build(c) == Built(c, BuildCommand(builderEncoding, c))

BuildSome(commands) == \E c \in commands : Build(c)

BuildAny == BuildSome(Commands)
BuildConnectResult == BuildSome(ConnectResults("_result"))
BuildConnectError == BuildSome(ConnectResults("_error"))
BuildCreateStreamResult == BuildSome(StreamResults)
BuildPublishResult == BuildSome(PublishResults)
BuildPlayResult == BuildSome(PlayResults)
BuildErrorStatus == BuildSome(ErrorStatuses)
BuildOnStatus == BuildSome(Statuses)

\* A peer, or what is between, delivers less than was built.
Cut ==
  /\ message # None /\ message.whole
  /\ \E n \in 0 .. Len(message.bytes) - 1 :
       message' = [bytes |-> SubSeq(message.bytes, 1, n), whole |-> FALSE]
  /\ UNCHANGED <<builderEncoding, parserEncoding, sent, parsed, understood, followers>>

Parse ==
  /\ message # None
  /\ parsed' = [command |-> ParseCommand(parserEncoding, message.bytes),
                encoding |-> parserEncoding, whole |-> message.whole]
  /\ message' = None
  /\ UNCHANGED <<builderEncoding, parserEncoding, sent, understood, followers>>

\* The application asks for the command's meaning by its name.
Understand(name, result) ==
  /\ parsed # None /\ understood = None
  /\ parsed.command # Refused
  /\ parsed.command.name = Text[name]
  /\ understood' = [as |-> name, result |-> result]
  /\ UNCHANGED <<builderEncoding, parserEncoding, sent, message, parsed, followers>>

UnderstandConnect == Understand("connect", ParseConnectCommand(parsed.command.commandObj))
UnderstandPublish == Understand("publish", ParsePublishCommand(parsed.command.args))
UnderstandPlay == Understand("play", ParsePlayCommand(parsed.command.args))

SetBuilderEncoding ==
  /\ builderEncoding' \in Encodings
  /\ followers' = followers \ {"builder"}
  /\ UNCHANGED <<parserEncoding, sent, message, parsed, understood>>

SetParserEncoding ==
  /\ parserEncoding' \in Encodings
  /\ followers' = followers \ {"parser"}
  /\ UNCHANGED <<builderEncoding, sent, message, parsed, understood>>

\* Mutant: an encoding once chosen is never given up.
EncodingFromConnectOnly(connect, before) ==
  IF connect # Refused /\ connect.fields["objectEncoding"] = <<"float64", Float64[3]>>
  THEN 3 ELSE before

\* AMF3 if that is what the connect command asks for, else AMF0, whatever it
\* was before; so for a nil command.
EncodingFromConnect(connect, before) ==
  IF connect # Refused /\ connect.fields["objectEncoding"] = <<"float64", Float64[3]>>
  THEN 3 ELSE 0

BuilderFollows ==
  /\ understood # None /\ understood.as = "connect"
  /\ builderEncoding' = EncodingFromConnect(understood.result, builderEncoding)
  /\ followers' = followers \cup {"builder"}
  /\ UNCHANGED <<parserEncoding, sent, message, parsed, understood>>

ParserFollows ==
  /\ understood # None /\ understood.as = "connect"
  /\ parserEncoding' = EncodingFromConnect(understood.result, parserEncoding)
  /\ followers' = followers \cup {"parser"}
  /\ UNCHANGED <<builderEncoding, sent, message, parsed, understood>>

\* The application is done with the command, or with the error.
Forget ==
  /\ sent # None /\ message = None
  /\ sent' = None
  /\ parsed' = None
  /\ understood' = None
  /\ followers' = {}
  /\ UNCHANGED <<builderEncoding, parserEncoding, message>>

Next ==
  \/ BuildAny \/ BuildConnectResult \/ BuildConnectError \/ BuildCreateStreamResult
  \/ BuildPublishResult \/ BuildPlayResult \/ BuildErrorStatus \/ BuildOnStatus
  \/ Cut \/ Parse
  \/ UnderstandConnect \/ UnderstandPublish \/ UnderstandPlay
  \/ SetBuilderEncoding \/ SetParserEncoding \/ BuilderFollows \/ ParserFollows
  \/ Forget

Spec == Init /\ [][Next]_vars
=============================================================================
