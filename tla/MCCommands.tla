----------------------------- MODULE MCCommands -----------------------------
(***************************************************************************)
(* Commands for the model checker: every codec's kinds of values, every    *)
(* order of two dates and two containers in three arguments, and the       *)
(* commands that the application looks into.                               *)
(***************************************************************************)
EXTENDS CommandMeaning

MCNames ==
  <<"connect", "publish", "play", "_result", "_error", "onStatus", "level", "code",
    "description", "details", "status", "error", "warning", "NetStream.Publish.Start",
    "NetStream.Play.Start", "NetStream.Play.StreamNotFound", "app", "type", "flashVer",
    "swfUrl", "tcUrl", "pageUrl", "fpad", "audioCodecs", "videoCodecs",
    "videoFunction", "objectEncoding", "capabilities", "__className",
    "Stream is now published", "Stream is now playing">>

\* One byte for each name: 1, 2, ...
MCText == [s \in ToSet(MCNames) |-> <<SelectInSeq(MCNames, LAMBDA t : t = s)>>]

Ints == {-TwoTo28 - 1, -TwoTo28, -2, -1, 0, 1, 2, 3, 127, 128, TwoTo14, TwoTo21 + 5,
         TwoTo28 - 1, TwoTo28}

\* Their bits, by sign and exponent and the first bits of the fraction.
MCFloat64 == [n \in Ints |->
  CASE n = -TwoTo28 - 1 -> <<193, 176, 0, 0, 1, 0, 0, 0>>
    [] n = -TwoTo28 -> <<193, 176, 0, 0, 0, 0, 0, 0>>
    [] n = -2 -> <<192, 0, 0, 0, 0, 0, 0, 0>>
    [] n = -1 -> <<191, 240, 0, 0, 0, 0, 0, 0>>
    [] n = 0 -> <<0, 0, 0, 0, 0, 0, 0, 0>>
    [] n = 1 -> <<63, 240, 0, 0, 0, 0, 0, 0>>
    [] n = 2 -> <<64, 0, 0, 0, 0, 0, 0, 0>>
    [] n = 3 -> <<64, 8, 0, 0, 0, 0, 0, 0>>
    [] n = 127 -> <<64, 95, 192, 0, 0, 0, 0, 0>>
    [] n = 128 -> <<64, 96, 0, 0, 0, 0, 0, 0>>
    [] n = TwoTo14 -> <<64, 208, 0, 0, 0, 0, 0, 0>>
    [] n = TwoTo21 + 5 -> <<65, 64, 0, 2, 128, 0, 0, 0>>
    [] n = TwoTo28 - 1 -> <<65, 175, 255, 255, 254, 0, 0, 0>>
    [] n = TwoTo28 -> <<65, 176, 0, 0, 0, 0, 0, 0>>]

----------------------------------------------------------------------------
F(n) == <<"float64", MCFloat64[n]>>
I(n) == <<"int", n>>
S(s) == <<"string", s>>
\* 1700000000001 ms after 1970, and a nanosecond more: one float64, from which
\* 64 ns before the first are read; and a date that is read as it was.
D == <<"time", <<23, 151, 156, 254, 54, 57, 66, 64>>>>
E == <<"time", <<23, 151, 156, 254, 54, 57, 66, 65>>>>
X == <<"time", <<22, 85, 242, 157, 120, 124, 0, 0>>>>
DMillis == <<66, 120, 188, 254, 86, 128, 16, 0>>
XMillis == <<66, 119, 107, 179, 231, 0, 0, 0>>
MCUnixMillis == [t \in {D[2], E[2], X[2]} |-> IF t = X[2] THEN XMillis ELSE DMillis]
MCUnixTime == [ms \in {DMillis, XMillis} |->
  IF ms = XMillis THEN X[2] ELSE <<23, 151, 156, 254, 54, 57, 66, 0>>]

\* Half a millisecond more, of which AMF0Date.Time makes D.
HalfMillis == <<66, 120, 188, 254, 86, 128, 24, 0>>
MCDateTime == [ms \in {HalfMillis, XMillis} |-> IF ms = XMillis THEN X[2] ELSE D[2]]

a == <<97>>
b == <<98>>
long == <<97, 98, 99, 100>>

\* A command called by one letter, and one with arguments only.
Call(obj, args) == Command(a, MCFloat64[2], obj, args)
With(args) == Call(<<"nil">>, args)

Singles == {
  <<"nil">>, <<"bool", TRUE>>, <<"bool", FALSE>>, F(3), S(<<>>), S(a), S(long), D, X,
  <<"slice", <<>>>>, <<"slice", <<I(3), S(a), <<"nil">>, <<"slice", <<S(a)>>>>>>>>,
  <<"map", <<>>>>, <<"map", <<<<a, I(3)>>, <<b, <<"map", <<<<a, S(b)>>>>>>>>>>>>,
  <<"map", <<<<b, S(a)>>, <<a, S(b)>>>>>>,
  <<"map", <<<<<<>>, I(1)>>>>>>, <<"map", <<<<a, F(1)>>, <<<<>>, <<"nil">>>>>>>>,
  <<"map", <<<<long, I(1)>>>>>>, <<"other">>} \cup {I(n) : n \in Ints}

Typed3 == {
  <<"AMF3Undefined">>, <<"AMF3Null">>, <<"AMF3Boolean", TRUE>>, <<"AMF3Integer", 5>>,
  <<"AMF3Integer", TwoTo28>>, <<"AMF3Double", MCFloat64[3]>>, <<"AMF3String", a>>,
  <<"AMF3Date", D[2]>>, <<"AMF3Array", [dense |-> <<I(3)>>, associative |-> <<>>]>>,
  <<"AMF3Array", [dense |-> <<S(a)>>, associative |-> <<<<a, I(3)>>>>]>>,
  <<"AMF3Object", <<<<a, <<"AMF3Integer", 3>>>>>>>>}

Typed0 == {
  <<"AMF0Number", MCFloat64[3]>>, <<"AMF0Boolean", FALSE>>, <<"AMF0String", a>>,
  <<"AMF0LongString", a>>, <<"AMF0Null">>, <<"AMF0Undefined">>,
  <<"AMF0Object", <<<<a, <<"AMF0Null">>>>>>>>,
  <<"AMF0StrictArray", <<<<"AMF0Boolean", TRUE>>, <<"AMF0String", b>>>>>>,
  <<"AMF0EcmaArray", [count |-> 9, properties |-> <<<<a, <<"AMF0Number", MCFloat64[1]>>>>>>]>>,
  <<"AMF0Date", [milliseconds |-> HalfMillis, timezone |-> <<0, 60>>]>>,
  <<"AMF0Date", [milliseconds |-> XMillis, timezone |-> <<0, 0>>]>>,
  <<"AMF0EcmaArray", [count |-> 1, properties |-> <<<<a, <<"AMF0String", b>>>>, <<b, <<"nil">>>>>>]>>,
  <<"AMF0TypedObject", [className |-> b, properties |-> <<<<a, <<"nil">>>>>>]>>,
  <<"AMF0Object", <<<<a, <<"nil">>>>>>>>, <<"AMF0StrictArray", <<<<"nil">>>>>>,
  <<"AMF0TypedObject", [className |-> b, properties |-> <<<<a, <<"AMF0Undefined">>>>>>]>>,
  <<"AMF0TypedObject", [className |-> long, properties |-> <<>>]>>}

\* Two dates, an array, an array with a date in it and an object, one to three
\* of them in every order.
Dated == {D, E, <<"slice", <<>>>>, <<"slice", <<D>>>>, <<"map", <<<<a, E>>>>>>}
DatedArgs == UNION {[1 .. n -> Dated] : n \in 1 .. 3}
             \cup {<<x, D, E, E>> : x \in Dated}

Connects == {
  <<<<MCText["app"], S(a)>>, <<MCText["objectEncoding"], F(3)>>>>,
  <<<<MCText["objectEncoding"], I(3)>>, <<MCText["fpad"], <<"bool", TRUE>>>>, <<a, S(b)>>>>,
  <<<<MCText["objectEncoding"], S(a)>>, <<MCText["tcUrl"], I(3)>>>>,
  <<<<MCText["capabilities"], F(2)>>, <<MCText["objectEncoding"], F(0)>>>>}

MCCommandSet ==
  {With(<<v>>) : v \in Singles \cup Typed3 \cup Typed0}
    \cup {With(args) : args \in DatedArgs}
    \cup {With(<<S(a), S(b), S(b), S(a), S(long), S(long)>>)}
    \cup {Call(obj, <<S(a)>>) : obj \in {<<"map", <<<<a, D>>>>>>, <<"slice", <<D>>>>, D}}
    \cup {Command(long, MCFloat64[0], <<"nil">>, <<>>)}
    \cup {Command(MCText["connect"], MCFloat64[1], <<"map", c>>, <<>>) : c \in Connects}
    \cup {Command(MCText["connect"], MCFloat64[1], <<"nil">>, <<S(a)>>)}
    \cup {Command(MCText["publish"], MCFloat64[1], <<"nil">>, args) :
             args \in {<<S(a), S(b)>>, <<S(a)>>, <<I(1), S(b)>>, <<S(a), <<"nil">>>>,
                       <<<<"AMF0String", a>>, <<"AMF0LongString", b>>>>,
                       <<<<"AMF3String", a>>, S(b)>>}}
    \cup {Command(MCText["play"], MCFloat64[1], <<"nil">>, args) :
             args \in {<<S(a)>>, <<S(a), F(-2)>>, <<S(a), F(1), F(2)>>, <<>>, <<F(1)>>,
                       <<S(a), I(1), I(2), <<"bool", FALSE>>>>,
                       <<S(a), <<"AMF0Number", MCFloat64[1]>>, D, <<"AMF0Boolean", FALSE>>>>,
                       <<S(a), <<"AMF0Number", MCFloat64[1]>>, S(b), <<"AMF0Boolean", FALSE>>>>,
                       <<S(a), <<"AMF3Double", MCFloat64[1]>>, D, <<"AMF3Boolean", FALSE>>>>,
                       <<S(a), I(TwoTo28), F(2), <<"nil">>>>}}

MCClassNameKey == MCText["__className"]

MCInfos == {<<>>, <<<<MCText["code"], S(a)>>, <<MCText["level"], S(a)>>>>}

=============================================================================
