# Verification of gortmp

This directory holds a TLA+ model of gortmp, the model-checking runs over it and
machine-checked proofs about it. It covers the library in `pkg/rtmp`: how messages
are cut into chunks and put together again, how two ends shake hands, and how the
server's goroutines share a connection; the codecs and command messages in
`internal/`; and the stream manager of the example server in `cmd/rtmp-server`.
`PROJECT.json` lists, for each definition, the lines of code it stands for; this file says what the parts are, what is shown
about them, and on which assumptions.

## 1. The system

| Part | Code | State it keeps | Operations |
|---|---|---|---|
| Chunk stream reader | `pkg/rtmp/chunk_streamer.go` | last header per chunk stream, messages in assembly, read chunk size, byte counter | `ReadMessage`, `SetReadChunkSize` |
| Chunk stream writer | `pkg/rtmp/chunk_streamer.go` | last header per chunk stream, next automatic id, write chunk size | `WriteMessage`, `SetWriteChunkSize` |
| Handshake | `pkg/rtmp/handshaker.go` | state, both ends' times and random data | `DoHandshake` on either side |
| Server | `pkg/rtmp/server.go` | listener, context, `running`, the map of clients | `Start`, `Stop`, `acceptLoop`, `GetConnections` |
| Server connection | `pkg/rtmp/server.go` | connection state, socket, `writeLock` | `handleConnection`, `start`, `ReadMessage`, `WriteMessage`, `Close`, four callbacks |
| Client | `pkg/rtmp/client.go` | connection state | stubs that return nil; `Close` |
| Stream manager | `cmd/rtmp-server/main.go` | streams, publishers, subscribers | `AddStream` ... `ListStreams`, the callbacks |
| AMF0 codec | `internal/amf0/amf0.go` | none | `Encode`, `Decode` |
| AMF3 codec | `internal/amf3/amf3.go` | table of strings, table of objects, on either side | `Encode`, `Decode` |
| Commands | `internal/protocol/commands.go` | the encoding of the parser, the encoding of the builder | `ParseCommand`, `ParseConnectCommand` ..., `BuildCommand`, `BuildConnectResult` ..., `SetAMFEncoding`, `SetEncodingFromConnect` |

**How they interact.** The accept loop starts one goroutine per connection. It
registers the connection in `s.clients`, sets deadlines, makes the chunk streamer,
calls `OnConnect`, and in `start` runs the handshake in *another* goroutine, waits
for it or for a timer, and then loops: read a message, call `OnMessage`, feed a
SetChunkSize message back to the chunk streamer. `Close` may be called by that
goroutine, by `Stop` and by the application, and calls `OnDisconnect`. The
application reaches registered connections through `GetConnections` from any
goroutine, in particular to write to one connection from another's `OnMessage`.
The payload of a command message is a sequence of AMF values, which the application
has `CommandParser` and `CommandBuilder` read and write; the library itself does not
call them. `clientsMux` protects the map, `writeLock` the writer; the connection's state, the
listener and `running` are read in places that hold no lock.

**What is hard.**

- *Chunks*: nothing on the wire says where a chunk ends. The two ends agree only
  because both derive the same inherited header, chunk size and presence of an
  extended timestamp. Chunk streams interleave; sizes change between messages;
  a write can fail in the middle. A peer may announce a length that shrinks while a
  message is being assembled, and unsigned arithmetic then wraps.
- *Handshake*: two ends in lockstep over a stream that TCP cuts where it likes,
  each packet read with a single `Read`, and messages of the application in between.
- *Server*: check-then-act on the connection state and the connection count, a
  map emptied while handlers register, `Stop` while the accept loop is between
  `Accept` and the handler, an early return that leaves a mutex locked, goroutines
  that outlive the one that waits for them, deadlines set once.
- *Stream manager*: the callbacks act on snapshots of the map.
- *Codecs and commands*: an AMF3 value refers by index to strings and dates before it,
  so the tables of both ends must grow alike; what an encoder writes and what a decoder
  reads are hundreds of lines apart; parser and builder hold an encoding each, which a
  connect command is to switch; `ParseCommand` reads arguments until one cannot be
  decoded and takes every error for the end.

**What makes each part correct.** Reader: indices in range, and no message handed
on with a hole, for every peer. Writer and reader: together a queue of messages.
Handshake: success is mutual, exact and leaves the stream at a message boundary;
nobody waits for ever. Server: the map holds only connections with a live handler,
no socket is left open, callbacks pair up, the last state is the right one, every
goroutine ends. Stream manager: subscribers only of existing streams, each once, and
a connection that has gone is in no stream. Codecs and commands: what was built
arrives with the same meaning or is refused, whole or cut, and both ends settle on the
encoding the connect command asked for.

## 2. Modules

| Module | What it is |
|---|---|
| `ChunkFormat` | headers and messages, the fields' widths, the basic header and its inverse |
| `ChunkReader` | the reading half of `ChunkStreamer`; `ReadChunk` is one turn of `ReadMessage`'s loop |
| `AnyPeer` | `ChunkReader` fed by a peer that keeps no rule of the protocol |
| `ChunkWriter` | the writing half of `ChunkStreamer` |
| `ChunkLink` | writer, wire and reader composed |
| `MessageFifo` | abstract: a queue of messages that may break |
| `Handshake` | both `Handshaker`s and the two directions between them |
| `RtmpServer` | `Server` and `ServerConnection`, one program counter per goroutine |
| `StreamManager` | the example server's `StreamManager` and the callbacks that call it |
| `StreamRegistry` | abstract: publishers and sets of subscribers by name |
| `U29` | AMF3's numbers of one to four bytes |
| `AmfValues` | what the codecs share: values, bytes written, bytes read |
| `Amf3`, `Amf0` | the codecs, encoder and decoder |
| `Commands` | `CommandBuilder`, `CommandParser` and a message on its way between them |
| `CommandMeaning` | what a command ought to be when it arrives, said type by type with neither bytes nor tables, and the properties |
| `MCAnyPeer`, `MCChunkLink`, `MCCommands`, `MCHandshake`, `MCRtmpServer`, `MCStreamManager` | small instances for TLC |
| `ChunkReaderProofs`, `AnyPeerProofs`, `ChunkLinkProofs`, `HandshakeProofs`, `RtmpServerProofs`, `StreamManagerProofs`, `CodecProofs`, `CommandsProofs` | theorems |

Inside a module a definition named like a mutated one (`ReadSizeUnchecked` before
`SetReadChunkSize`, ...) is a *mutant*: the same operation with a plausible bug. It
is used by no action. For each property of a passing run `PROJECT.json` names the
mutant that breaks it.

### Chunk modules

`readStreamStates`, `writeStreamStates`, the messages in assembly, the chunk sizes
and the counters are the fields of `ChunkStreamer`. A chunk is a record of header
fields and data, and a step of the reader is one chunk: `ReadMessage` is called by
one goroutine per connection, so nothing happens between its `Read`s that it could
notice. That a reader may take wrong *bytes* is kept by `InStep` in `ChunkLink`: if
the layout the reader expects differs from the layout the writer used (length of the
basic header, presence of the extended timestamp, length of the data), the link is
`garbled`. A `Write` that fails leaves a cut chunk and a broken link.

The numbers 2^24 and 2^32 are the constants `U24` and `U32`, so that TLC can reach
both edges; the proofs hold for all values. `Messages` carry real payload, because
order and completeness of the bytes is what the properties are about.

Left out: chunk stream ids 1 and above 65599 and payloads of 2^24 bytes or more,
which the writer encodes wrongly; `Message.Length` other than `len(Data)`. With `Steady`
TRUE, as in the run `link` and the proofs, a step of the timestamp that needs more than
three bytes, which every step back does, is left out too: the writer then appends an
extended timestamp to a type 1 header, which the reader does not look for. Extended
timestamps of type 0 headers occur in `link` at the mark and beyond it.

The chunk size changes by an announcement followed by `SetWriteChunkSize`, as the
protocol asks for. The library offers `SetWriteChunkSize` but no operation that does
both, and `handleConnection` puts the configured size in use on both directions
without announcing it (server.go:364-377): `InitialSize` is one constant for both
ends, which presumes ends configured alike. Two sizes that differ from the start are not
modelled; the hazard at server.go:372 says so.

### Handshake

A packet is a sequence of units: a time, a second time or zero, and `RandomSize`
units of random data; C0 and S0 are one unit. `wire[p]` is the queue of units on
their way to `p`. A packet's `Read` takes any number of units that have arrived up
to the size of its buffer, what is missing stays zero, and the number read is
ignored: that is what the code does. `own` and `heard` are the time and random data
an end drew and read: `clientTime` and `clientRandom` of the client's Handshaker are
`own["client"]`, of the server's `heard["server"]`, and so on. The second times of
C2 and S2, which nobody reads, are left out. Each of the twelve `send`/`receive`
functions is an action.

`Broadcast` is `ServerConnection.WriteMessage` on a connection that is in the map while
the ends shake hands: it takes a message in hand (`writing`), and `WritePiece` puts any
part of it on the wire. `writeChunk` has a call of `conn.Write` for each header and for the
data, and `DoHandshake` does not take `writeLock`, so S0, S1 and S2 may go out in the middle
of a message. (A packet of the handshake is one `Write`, which Go's connection does not mix
with another.) The server may be through and the client still before its last `Read`, so
a message may come in front of S0, between or around any two packets, and after S2. What
is left of a message when the connection is closed is never written. `Breaks` and `CloseUnderway` stand for everything that
makes a `Read` or `Write` fail or closes the socket: deadlines, `WithTimeout`, the
handshake timer, `Stop`, the network. A basic header of format 0 on chunk stream 3
is the byte 3, which is also the version: `MCMessages` contains it.

### RtmpServer

Each goroutine has a program counter: `loops[l]` for the accept loop of the l-th
`Start`, `pc[c]` for the handler of connection `c`, `handshake[c]`, `stopping`, `app`
for an application goroutine that calls `Close`, `writing` for calls of
`WriteMessage`. A section under `clientsMux` is one step; everything between two
accesses to shared state that another goroutine can see is split. `Close` is six
steps: test, mark Closing, remove from the map, call `OnDisconnect`, shut the socket,
set Closed. `Stop` closes the listener and then the clients; it holds `clientsMux`
over its loop, so the loop is one step, in which a failing `Close` leaves the mutex
locked for good (`clientsMux = "leaked"`). `OnMessage` waits for `writeLock`, because
`ReadMessage` takes it to count bytes.

`AcceptError` ends an `Accept` on a closed listener, and may end one on an open listener
too. `HandshakeEnds` sends the answer of `DoHandshake` into the channel; it may come at any
time, as an error even on an open socket (a peer that breaks the rules, a read deadline).

`Dial`, `ReadOK`, `AppCloses` and the start of a `WriteMessage` are the environment's.
Byte counters and `lastActivity` are left out; `streams` and `streamsMux` are used
by nothing; `OnPublish` and `OnPlay` are called by nothing.

### StreamManager

`streams` maps a name to a pointer into `infos`, or to nil; `infos` keeps every
`StreamInfo` made, because `onPublish` and `onPlay` read `stream.Active` through a
pointer after `GetStream` has released the mutex. A method of the manager is part of
one step. `onPublish` is three steps (`GetStream`, the look at `Active`, `AddStream`),
`onPlay` likewise; `onDisconnect` is a step for `ListStreams` and one for each name of
the snapshot, in any order, as a Go map is walked. `handler[c]` is the goroutine that
runs the callbacks of `c`, one at a time. `closing[c]` has two `OnDisconnect`s: the
handler's own, and one from `Stop` or the application, which may overlap a callback or
the other one (`RtmpServer` shows how: `CallbacksPaired` bounds them to one only if the
application does not close). `overlapped` is no variable of the code: it remembers that
a callback of the connection ran while or after `OnDisconnect` was called.

The library never calls `OnPublish` and `OnPlay`, so in the program as it stands the
map stays empty; the module takes them to be called as server.go:59-63 says.
`onMessage` changes nothing and is left out: `forwardToSubscribers` walks the
subscribers of a snapshot, which `ListStreams` makes without any (main.go:168-175,
399), so no media reach a subscriber, and `handleMetadata` writes into the copy.

### Codecs and commands

The codecs are functions, so `Amf3` and `Amf0` have no variables: an encoder is a
record of the bytes written, its tables and whether an error has occurred, and a
decoder one of the bytes left, its tables and `ok`. `Bind` is the code's `if err != nil
{ return err }`. `encodeValue` and `decodeValue` call themselves; here the calls are a
function of the depth, `EncodeValue3[n]` and `EncodeValue0[n]`, `Decoding3[n]` and
`Decoding0[n]`, each of which uses its own at `n - 1`, so that they can be reasoned about
by induction. An encoder goes as deep as the value, a decoder no deeper than it has bytes. `Value[n]`
is all values nested `n` deep, and `Nesting` bounds those that are built. The wrapper
`DecodeAMF0`, which nothing calls, is left out.

A value is a pair of its Go type and its contents. A map to be encoded
is the sequence of its pairs, each key once, in the order in which `range` visits them,
which Go leaves open (`Mapping`); a map that was decoded is a function. Bytes are numbers, because order, length and
markers are what may go wrong, but three things stand for more than they show: a
float64 is the row of its eight bytes in the table `Float64`, `MaxShort` stands for
65535, and `Text` gives each string literal of the code one byte. Integers end at 32
bits. A time is the eight bytes of its `UnixNano`, and the conversions are constants, given
where they are not the identity: `UnixMillis`, `float64(t.UnixNano()) / 1e6` (amf3.go:332);
`UnixTime`, `int64(f * 1e6)` (amf3.go:773); `DateTime`, which is `AMF0Date.Time`
(amf0.go:115). Two times a nanosecond apart may have one float64, and what is read may be some
nanoseconds early: the instance has 1700000000001 ms after 1970, which comes back 64 ns
before, and the next nanosecond, which does too, while the table of dates tells them apart. A reference to an array or object that the decoder
resolves is kept as a name for what it shares (`<<"again", type, n>>`): the code gives the
map or slice itself, one value in two places, and with a value that holds itself nothing
finite would say what is shared. `make` of an AMF0 array's announced length (amf0.go:725)
is an ordinary step: memory is not modelled.

The assumptions: `SmallAssumption`, a built message is shorter than 2^24 bytes, as its
header says; `FloatAssumption`, no two integers have one float64, and those the code
spells out have one; `UnixAssumption` and `DateTimeAssumption`, a conversion takes 64-bit
words to 64-bit words; `TextAssumption` and `NamesAssumption`, the string literals the
code uses are there, differ and are not empty; `ClassNameAssumption`, and so is the key
under which the class of a typed object is put; `CommandsAssumption`, commands are of Go's types.

`Commands` has a message in flight, the two encodings, and what the application has
made of the command. `Cut` (a message arrives without its tail) and `Forget` (the
application is done with it) are the environment's. `followers` is no variable of the
code: it remembers which ends have followed the connect command in hand.

`CommandMeaning` is the reference definition: `Becomes3` and `Becomes0` say type by type
what a value turns into, without a byte or a table, `Buildable` what has a form at all,
and `Plain` which commands survive.

## 3. Runs

| Run | Question | Instance |
|---|---|---|
| `any_peer` | Does the reader stay in bounds, and are its messages whole, for any peer? | two chunk streams, lengths that grow and shrink in mid-message, chunk sizes 1 to 2, `U24` = `U32` = 8 |
| `link` | Do writer, wire and reader implement `MessageFifo`? Do the ends stay aligned? Does every message arrive? | chunk streams 2, 3 and 64, sizes 0 to 4, three messages with stamps below, at and above the extended mark |
| `handshake` | Is success mutual and exact, is the stream left at a boundary, do both ends come to an end? | packets of 4 units, two clock values, two messages in between, each in any pieces, faults |
| `server` | Is the map consistent with handlers and sockets in every interleaving? Do callbacks pair, is the last state right? | two connections, limit 1, one `Start`, one application `Close` |
| `server_live` | Does every goroutine of a connection, and every accept loop, end? Is the last state right also with a writer? | one connection, `WriteMessage` by the application, two `Start`s |
| `commands` | Does a command arrive as what it was built from, whole or cut, in both encodings, and is a connect command in AMF0 obeyed? | every kind of value each codec takes, to depth two; every order of two dates and three containers in up to three arguments; each message whole and cut at each byte |
| `streams` | Do maps, pointers and slices behave as a registry, and does a connection that has gone leave nothing behind? | two connections, each closed by its handler, by somebody else or both, two names, two `StreamInfo`s |

**Properties.** `AssemblyInBounds`: `message.Data[bytesRead:]` is in range.
`NoHoles`: no message is returned before each byte came. `Aligned`, `HeadersAgree`,
`SizesAgree`: the two ends' ideas match, extended timestamps of full headers among
them. `ImplementsFifo`: refinement.
`EveryMessageArrives`: what was written is received unless the connection breaks.
`Agreement`: if either end reports success, each holds the other's true time and
random data. `HandsOverAtBoundary`: after success nothing of the handshake is left for the
chunk reader; the client's finds whole messages, the last of them perhaps still being
written. `NoStandoff`: while the connection is
open, an end whose `Read` finds nothing has a peer that will move first; it has neither
finished nor is it waiting in a `Read` that finds nothing. `BothEnd`: neither end waits
for ever, even without deadlines. `NoGhosts`, `NoOpenSocketLeft`, `CallbacksPaired`,
`SettlesClosed`, `HandlersEnd`, `HandshakesEnd`, `LoopsEnd`: section 1's list; `CallbacksPaired` has two parts, `OnDisconnect` and the messages, which
come after `OnConnect` and when the handshake goroutine has ended: a handler that its
timeout has freed leaves that goroutine with the socket, and two readers of one stream
would take it apart.
`HandshakesEnd` assumes no end of `DoHandshake` while its socket is open, so it says that
each way the handler leaves shuts the socket under the goroutine (`HandshakeFails` above
all), that the channel takes an answer nobody waits for, and that nothing but a `Stop` that
keeps the mutex stops the handler before. `LeavesNothingBehind`: when an `OnDisconnect` that no callback of its connection
overlapped has returned, the connection is in no stream. Without that condition it is
false: an `onPublish` that has passed its check adds the stream after the visit, and
nobody ever removes it. `ImplementsRegistry`: refinement, in which nobody leaves a
stream but by disconnecting; `SubscribedOnce`: a subscriber is in the slice once. `ArrivesWhole`: `BuildCommand`
fails exactly for a value without a form, and what is read of a whole message is what
`CommandMeaning` says if the command is `Plain`; a date counts as read when it is what the
conversions of both ends leave of it. `UnreadableIsLost`: a command with an empty key
somewhere (it ends a map), or in AMF3 with a typed integer of more than 29 bits, is never
read as it was meant, whole or cut. It leaves out typed dates and arrays in AMF3 (`Typed`),
whose marker is written twice: most such commands are lost, but not all. Of the arguments
`T1, T2, T3, T4, T5, AMF3Date T5`, five dates and the fifth again as a typed one, the second
marker of the last is taken for a reference to entry 4, which is T5, and the command is read
as it was meant. `CutIsPrefix`: a message without its tail is refused or gives a command
that is right as far as it goes. `ConnectObeyed`: every field of a connect command in AMF0 is
understood as it was sent, and an end that follows it speaks AMF3 exactly if it asks for
that. `ArgumentsUnderstood`: what the application is told of a publish or play command is
what the peer said, if no number goes as an AMF3 integer. `OtherEncodingRefused`: no command
in one encoding is one in the other. What AMF3 makes of connect commands, integers and
repeated dates is against the documentation, and is told below. Each component has one type invariant beside these; that of the
server also says that `acceptLoop` hands on a connection and nothing else.

**Why the bounds are enough.**

- `any_peer`: a chunk size of 1 or 2 and lengths up to 4 give messages of one to
  four chunks, and both edges of the modulo arithmetic; a second chunk stream is
  what interleaving needs, and a third brings no new pair.
- `link`: three messages are the least that has a first header, a compressed one
  and one after a change (of type, length, message stream or chunk size); with the mark at
  7 the stamps 6, 7 and 8 are a plain full header, the mark itself and a stamp beyond it; ids 2 and
  64 are both forms of basic header the instance's widths allow; `LastAutoID` = 3
  makes the automatic id wrap.
- `handshake`: with two units of random data a packet can be cut inside each of its
  fields' boundaries and inside the random data; equal and different clocks are both
  there; two messages can stand in for S0 and S1 both.
- `server`: the properties relate a connection to the map, the limit and one closer;
  two connections make them compete for the limit and `Stop`'s loop. `server_live`
  adds a writer and a restart with one connection, as the goroutines of different
  connections meet only in the map; the application's own `Close` is in `server` only,
  for the two together are beyond the time a run should take, and the theorems about
  `CallbacksPaired` and `SettlesClosed` have both. `MaxStarts` = 2 is a restart.
- `streams`: two names make a snapshot with a part visited and a part not; two
  connections are both publisher and subscriber of either's streams, and two
  `StreamInfo`s are a stream and its replacement or two streams at once. Names and
  connections are symmetric, and all properties of the run are safety.
- `commands`: the codecs are defined type by type, so each type once, each pair of types
  whose tables can interfere, and each container in a container are all there is to
  meet; integers are at both sides of every length of a 29-bit number; `MaxShort` = 3
  puts strings on both sides of a long one. A message is cut at every byte.
- `MaxStreams`, `MaxSent`, `MaxReceived`, `MaxStarts`, `MaxAppCloses`, `MaxBroadcasts` and
  `WrittenTo` bound what the environment does and nothing in the code. Deadlock is
  not checked where the environment's bounded activity ends, which is every run;
  the liveness properties say what must not be stuck.

**Fairness.** `WF(WriteChunk)` and `WF(Receive)`: `WriteMessage`'s loop and the
reading goroutine go on. Handshake: weak fairness of each end's own next step; no
deadline is assumed, nor that a message that was begun is finished. Server: weak fairness of
every goroutine's steps, including the handshake timer behind `HandshakeFails` and the write
deadline behind `WriteReturns`, with two exceptions, since nothing makes a peer answer:
`DoHandshake` need end only when its socket is closed (`WF(HandshakeEnds /\ socket = "closed")`;
its deadlines may be switched off), and an `Accept` on an open listener need not return. Two assumptions are strong. `SF(ReadFails)`: the read deadline is set
once per connection and never renewed (server.go:342-351), so a connection cannot
read successfully for ever; with a negative `ReadTimeout` this would not hold.
`SF(OnMessage)`: a Go mutex is handed to a waiter that starves, so `writeLock` cannot
be taken by others for ever. Peers may do anything or nothing. Of the application it is
assumed that its callbacks return and that a `Close` it has called is carried out; not that
it calls anything.

### What the documentation says and the code does not do

Each of these is a run that ends in a counterexample.

| Run | Said | Done |
|---|---|---|
| `timestamps` | README.md:377 "Proper timestamp handling" | the delta of a type 1 header is stored in a field that is not the one encoded: later messages of a chunk stream arrive with the first one's timestamp |
| `complete` | handshaker.go:53 "DoHandshake performs the complete RTMP handshake." | two correct ends fail when TCP delivers a packet in two segments |
| `limit` | server.go:50 "MaxConnections specifies the maximum number of concurrent connections." | the limit is compared with the registered connections, and a connection is registered later, by its handler |
| `stop` | server.go:231 "Stop stops the RTMP server and closes all client connections." | a connection accepted and not yet registered stays open |
| `formats` | README.md:60 "The same connection can seamlessly handle both formats", 58 "`objectEncoding: 3` - Uses AMF3 format", 390 "Automatic type conversion between Go types and AMF types" | the parser asserts Go's types, and what was decoded from AMF3 has others: of a connect command in AMF3 no field is understood, and who follows it goes back to AMF0; a start or duration that comes as an AMF3 integer is replaced by the default |

Two more are said here and have no run of their own. README.md:377 covers extended
timestamps too: a timestamp that goes back, or forward by 0xFFFFFF or more, puts one behind
a type 1 header (chunk_streamer.go:293, 219), the reader takes it for payload (line 373 is
for type 0), and the chunks are lost from there on; `Aligned` is false with `Steady` FALSE.
And README.md:49, 383 promise AMF3's reference tables and dates, while the encoder's table
has dates alone (amf3.go:316-326) and the decoder's arrays and objects too (lines 777, 845,
923): a date that is repeated after one of those is read as something else or refused;
`ArrivesWhole` is false without `DatesBeforeContainers`.

## 4. Proofs

Theorems hold for every value of the constants; assumptions are the named `ASSUME`s
of the modules, for the link also `Steady`, and nothing else.

**The reader** (`AnyPeerProofs`, `ChunkReaderProofs`). `ReaderInv` is the conjunction
of the types, `AssemblyInBounds` and `NoHoles`. It is inductive as it stands, but none
of its parts is. The bounds need the types of the message in assembly. That no hole
is handed on needs the half of `NoHoles` about messages in assembly: the buffer is
filled from the front, exactly up to `bytesRead` (`Filled`). A chunk is then copied
in where the filled part ends, and a message is handed on when `bytesRead` has reached
the length of the *buffer*, which is the length announced first, also when a chunk of a
peer that changed its mind brought more than was missing. Theorems: `ReaderInvariant`, `ReaderTypes`,
`AssemblyBounds`, `MessagesWhole`. `BasicHeaderRoundTrip` says that for every format
and every id from 2 to 65599 the reader takes exactly the bytes the writer made and
finds the format and the id again.

**The link** (`ChunkLinkProofs`). A chunk in flight does not say what it is: its length,
type and message stream may be those of an earlier chunk, its end depends on a chunk
size that has changed since, and nothing in the state of either end recalls which
message it was cut from. The invariant `InStepInv` therefore says that there is a
*pedigree*: a sequence `g` that tells for each chunk in flight its origin, that is the
message, its number, the offset, the chunk size it was cut with and its format. Beside
types, and `Aligned` itself, `LinkInv(g)` has eight parts. The chunks are what the pedigree says (`Described`); neighbours are chunks
of one message, or the end of one and the start of the next, cut with the size that the
first leaves in force (`Chained`); they are the messages sent (`Numbered`); the last ends
its message, and the size then in force is the one the writer is about to use (`AtEnd`);
the first continues what is in assembly, with the reader's size (`AtStart`); only the
last chunk of a broken link is cut (`CutLast`); what a short header leaves out the
reader will hold when it gets there (`HeadersCarried`, where `Holds` looks back to the
last chunk before it of the same chunk stream); what was received is what was sent
(`Faithful`). A step of the reader drops the pedigree's head (`ReceiveInv`: `TakesChunk`
says that the chunk is read as it was written, `ChunkTaken` what it leaves behind); a
message appends the origins of its chunks (`DataWritten`); a failed write cuts the
pedigree (`WriteFailsInv`); putting an announced size in use changes nothing that `AtEnd` speaks of.
Theorems: `LinkInvariant`, `LinkTypesKept`, `StaysAligned`, `HeadersStayAgreed`,
`SizesStayAgreed`, and `LinkImplementsFifo`, the refinement, for all messages below 2^24
bytes, all chunk sizes and any number of changes of the chunk size. Assumptions:
`Steady`, without which the code does not have the property (section 2); and
`LinkAssumption`: applications change the size by announcing it, with 31 bits, and chunk
stream 2 is there for the announcement.

**The handshake** (`HandshakeProofs`). `Agreement` says nothing of what is on the
wire, so it is not inductive. `AgreementInv` adds, for each function the server can
be in, what the client can have put on the wire for it: `BeforeC0`, `BeforeC1`,
`BeforeC2`. The argument: a C1 that was read short leaves at the head of the stream a
unit that is zero or random, never a time, so that the next check fails (`C1Short`);
if C1 was read whole, a C2 that was read short ends in a zero where random data must
be; so the server passes its check only on the whole of C2, with both ends
knowing each other (`AfterC2`). Random data of the client can come back in S2 alone
(`EchoOnlyInS2`), whatever was broadcast, so a client that succeeds does so after the
server. What this rests on: random data is not zero and the two ends' differ (`Random`),
clocks are after 1970 (`HandshakeAssumption`). Theorems: `HandshakeInvariant`,
`HandshakeTypes`, `HandshakeAgrees`.

`HandsOverAtBoundary` needs more. Messages are written in pieces, and a packet of the server
may stand between two of them, so while the handshake lasts the wire says nothing of
messages. `BoundaryInv` says instead that there is a *text*, all that the pieces so far
come to, and gives an account of it (`Account`). `Begun`: with what is still in hand the
text is whole messages. `Counted`: while the client may yet succeed, what it has taken and
what is on its wire are as long as what the server's functions have sent and the text; a
client that gets through its reads took whole packets, whichever bytes they were.
`S2OnWire`: once the server is done, the client's wire is units that are none of the client's
random data, then the echo of C1, and then an end of the text. The client's last `Read`
finds the echo exactly if it starts at S2 and gets all of it, so nothing of the handshake is
left; and by the count what is left is as long as the text, so it is the whole of it.
`AfterS2`: from then on the wire and what is in hand are whole messages. That it is *whole*
messages is kept as a set, `Stream(k)`: what `k` writes at most have left. Theorems:
`BoundaryInvariant`, `HandsOver`.

`NoStandoff` is the safety half of `BothEnd`. Its invariant, `NothingMissing`, is an
account of each direction: while nobody has closed or failed, what is on the wire and what
the reading functions so far were to take come to at least what the writing functions so
far have sent. A `Read` cut short takes less than its packet, which leaves more, and so does
a piece of a message; hence the account is an inequality, and holds however the stream is cut. An
end that finds nothing has been sent no more than it has taken, and by the order of the
twelve functions its peer is then in one that sends, or in one whose packet is on the wire
already. Theorems: `HandshakeDelivers`, `HandshakeNeverStands`.

**The server** (`RtmpServerProofs`). `ServerInv` is `TypeOK` and five parts.
`LoopInv`: a connection in the hands of an accept loop is in the hands of one only.
`AppInv`: the application closes and writes to registered connections only.
`FreshInv`: before it is registered a connection is Connected, open and not in the map.
`ClientsInv`: while the map is usable its entries are open and no closer has passed the
removal. `SocketInv`: a connection that is over, or called Closed, is shut. `NoGhosts`
needs `ClientsInv`, which needs `FreshInv` to know what registration adds and `AppInv`
to know that the application's `Close` cannot precede it; `NoOpenSocketLeft` is a part
of `SocketInv`. Theorems: `ServerInvariant`, `ServerTypes`, `ClientsLive`,
`SocketsClosed`, for any number of connections, restarts, closes and writers.

**Callbacks** (also in `RtmpServerProofs`). On top of `ServerInv`, `CallbackInv` has
`SettlesClosed`, the part of `CallbacksPaired` about `OnDisconnect` (`DisconnectAnswers`)
and three parts they need. `AppOwns`: the
application is inside `Close` only for a connection it has asked to be closed, which is
what allows `OnDisconnect` a second caller. `ConnectedFirst`: `OnConnect` comes before
everything else a handler does, so that no `OnDisconnect` precedes it. `Notified`:
whoever is past `OnDisconnect` in `Close`, and any connection in state Closed, has been
notified; a second closer therefore finds a state that it leaves alone. `AcceptsForever`
rests on one fact beside the types: a server that runs has a listener (`HasListener`).
The messages' part has an invariant of its own, `HandshakeInv`: an answer is in the
channel only when the goroutine that sends it has ended, and the handler goes to its
message loop with an answer in hand. Theorems: `CallbackInvariant`,
`HandshakeBeforeMessages`, `CallbacksPair`, `LastStateClosed`, `AcceptsForever`. The last
is about the invariant `AcceptsUntilStopped`: until the first `Stop`, and while no `Close` of
the operating system has failed, a loop accepts on the server's listener, whatever
connections do. `LastStateClosed` is as wide as the code allows: a connection that
`OnConnect` announced and whose handler has ended is Closed, or in Error by a write that
failed on it, unless the application is in the middle of closing it itself.

**The stream manager** (`StreamManagerProofs`). `SwapRemoves` is the lemma about
slices: swap and cut removes the one subscriber and no other. `ManagerInv` adds that a
stream that is there is active, so that snapshots are complete, and that no two names
share a `StreamInfo`. One lemma per method says what it does to its name and that it
leaves the others alone (`Untouched`); both the invariant and the refinement rest on
these. `CleanAt` is the invariant of `onDisconnect`'s loop: every stream the connection
is still tied to is in the unvisited part of the snapshot, and its own streams are
there as its own. Theorems: `StreamsInvariant`, `StreamsTypes`, `SubscribersOnce`,
`DisconnectCleans`, and `StreamsImplementRegistry`, the refinement.

**The codecs** (`CodecProofs`). `ValueCarried0`: for every value of every depth,
`encodeValue` of AMF0 fails exactly if something in the value has no form (a `time.Time`, a
long key, nil among the properties of an `AMF0EcmaArray` or `AMF0TypedObject`), and otherwise,
if no key in it is empty, `decodeValue` reads of the bytes what `Becomes0` says and not a
byte more, *whatever follows*. The last words are what makes it an induction: the bytes of
a value are followed by those of its neighbours. `ValueCarried3` says the same of AMF3, in
messages of less than 2^24 bytes, from any tables that are in step, and for any conversions
of times: a date becomes what encoder's and decoder's leave of it. The encoder's table has
dates, the decoder's has dates, arrays and objects, so they are not alike; `InStep` says
what is left to hold when the values `w` are still to come: a date of the encoder's table
that still comes is at the same index of the decoder's, and a date that comes twice in `w`
comes the first time while the tables are alike and before any container of `w`. The
values are taken in the order of `Visit`; each step shows that the tables are in step for
the rest. `U29RoundTrip`: an integer of 29 bits is read as it was written, with as many
bytes as were written; one lemma for each of the four lengths, and one for two's
complement. `U29LosesTopBit`: the same bytes as a length or reference of 2^28 or more are
read as a negative number, because the decoder sign-extends every number.

Two things are done by hand there. The library's induction takes an operator, so an
induction is written out with the set of numbers for which the claim holds
(`LeastNatural`: a set of naturals that is not empty has a least one). And a recursive
function is only known to satisfy its equation when a function that does is shown to
exist, which the section on recursions does once for every one of the codecs'.

**Commands** (`CommandsProofs`). `CommandsInv` says that each variable is what the code
makes of those before it: what was `sent` is a command and was built or not
(`SentAs`), a message is its first bytes (`MessageOf`), what was `parsed` is what
`ParseCommand` makes of such bytes (`ParsedOf`), what was `understood` is what the
`Parse...Command` functions make of that (`UnderstoodOf`), and who follows has the
encoding it asks for (`FollowersOf`). The properties are then about the functions:

- `WholeCommandArrives`: name, transaction, object and arguments are values written one
  after the other by one encoder, and the codecs' theorems apply from the tables that the
  ones before leave (`ReadsOne`, `ReadsAll`). `FlattenSeq` of what they visit is what
  `Plain` speaks of.
- `CutCommandIsPrefix`: a decoder that has read a value has not looked behind it
  (stability: of the bytes with others after them it reads the same). So of less than a
  value it reads nothing: else it would read it of the whole value too, and leave bytes.
  Arguments are thus read up to the cut and not beyond.
- `OtherEncodingIsRefused`: the first byte of a name is the marker of a string, which in
  the other encoding is a marker of something else or of nothing.
- `ArgumentsAreUnderstood`, `ConnectIsObeyed`: type by type, what arrives is of the
  Go type that the parser asserts exactly if it was sent as one of those `ArrivesAs` names;
  and no other integer has the float64 of 3.
- `UnreadableNeverArrives`: everything in a value that a decoder gives was read by it or
  by a call inside it (`Decoded0`, `Decoded3`), of whatever bytes; and what is read has no
  empty key, and no integer of more than 29 bits. What a value ought to become has
  one, at the same place, if the value has (`ReadMeansNamed`, `ReadMeansSound`); that a
  map's keys differ is what keeps a later pair from hiding it.

Beside these: `CommandsInvariant`, and `CommandsTyped`, which includes that every byte
that is ever written is a byte. They hold for all commands, of any depth and with any
number of arguments, and for every cut.

**Only model-checked.** What needs fairness (`EveryMessageArrives`, `BothEnd`,
`HandlersEnd`, `HandshakesEnd`, `LoopsEnd`), which the prover cannot do. Conversely
`AcceptsUntilStopped` is proved (`AcceptsForever`) and has no run.

## 5. Not modelled yet, and why

- *Client*: `Connect`, `Publish`, `Subscribe`, `WriteMessage` and `ReadMessage` are
  stubs that return nil (the state stays Disconnected, `ReadMessage` returns no message
  and no error), so there is nothing that `Close` could interfere with.
- *Example client*, names and `String` methods: no behaviour.
- *Nil payloads, custom `Unmarshal` targets* and other Go values that the AMF encoders
  refuse are the one value `<<"other">>`.
- A peer that interleaves several unfinished messages on one chunk stream, and abort
  messages, which the code ignores.

## 6. Plan

In the order of what matters most.

1. Done: `ChunkFormat`, `ChunkReader`, `AnyPeer`, `ChunkWriter`, `ChunkLink`,
   `MessageFifo`, `RtmpServer`, `Handshake`, `StreamManager`, `StreamRegistry`, with the
   proofs of section 4.
2. Done: `U29`, `Amf3`, `Amf0`, `Commands`, `CommandMeaning`, with the proofs of section 4;
   every safety property of a passing run is a theorem.
3. Done: what cannot arrive (`UnreadableIsLost`), and the safety half of the handshake's
   liveness (`NoStandoff`).
4. Two ends of a link that start from different chunk sizes, as the configuration allows.
5. What the server's liveness properties rest on and is safety: that a goroutine that waits
   has somebody to wait for.
6. A peer that sends several messages at once on one chunk stream.
