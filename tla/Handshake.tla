------------------------------ MODULE Handshake ------------------------------
(***************************************************************************)
(* The handshake of pkg/rtmp/handshaker.go: a client's and a server's      *)
(* Handshaker on the two ends of one connection.  A packet C1, S1, C2 or   *)
(* S2 is a sequence of units (a time, a second time or zero, random data), *)
(* the version C0 or S0 is one unit, and the connection is a queue of      *)
(* units in each direction.  A conn.Read takes the units that have         *)
(* arrived, one at least and as many as its buffer holds at most: where    *)
(* TCP cuts the stream is not the writer's choice.                         *)
(***************************************************************************)
EXTENDS Integers, Sequences, SequencesExt

CONSTANTS
    RandomSize,     \* units of random data in a packet
    Times,          \* what the ends' clocks may show
    Messages,       \* what a program may write to a connection still in its handshake
    MaxBroadcasts,  \* bound: how often it does
    Faults          \* whether an end may lose the connection or run out of time

ASSUME HandshakeAssumption ==
    /\ RandomSize \in Nat \ {0}
    /\ Times \subseteq Nat \ {0}
    /\ Messages \subseteq Seq(Nat)
    /\ MaxBroadcasts \in Nat
    /\ Faults \in BOOLEAN

Ends == {"client", "server"}
Peer(p) == IF p = "client" THEN "server" ELSE "client"

HandshakeVersion == 3
PacketSize == 2 + RandomSize

\* What rand.Read gives an end: never zero bytes, never what the peer drew.
Random(p) == [i \in 1..RandomSize |-> IF p = "client" THEN -1 ELSE -2]

\* Mutant: the second time is taken for random data.
IdentityWithZero(packet) == [time |-> packet[1], random |-> SubSeq(packet, 2, PacketSize)]

\* The fields a peer's C1 or S1 is remembered by: clientTime and clientRandom,
\* or serverTime and serverRandom.
Identity(packet) == [time |-> packet[1], random |-> SubSeq(packet, 3, PacketSize)]
Unset == [time |-> 0, random |-> [i \in 1..RandomSize |-> 0]]

\* C1, S1, and the echoes C2 and S2 (whose second time nobody reads).
Packet(id) == <<id.time, 0>> \o id.random

\* The buffer of a packet after one Read: what has not come is still zero.
Buffer(units) ==
    [i \in 1..PacketSize |-> IF i <= Len(units) THEN units[i] ELSE 0]

-----------------------------------------------------------------------------
VARIABLES
    pc,          \* the function each DoHandshake is in, "done" or "failed"
    state,       \* h.state
    own,         \* the identity the end has drawn for itself
    heard,       \* the identity it has read from the peer
    wire,        \* the units on their way to each end
    closed,      \* whether the end has closed the connection
    writing,     \* what WriteMessage, under writeLock, has still to write
    broadcasts   \* messages it began while the handshake was going on

vars == <<pc, state, own, heard, wire, closed, writing, broadcasts>>

ClientSteps == {"sendC0", "sendC1", "receiveS0", "receiveS1", "sendC2", "receiveS2"}
ServerSteps == {"receiveC0", "receiveC1", "sendS0", "sendS1", "receiveC2", "sendS2"}
Ended == {"done", "failed"}

Init ==
    /\ pc = [client |-> "sendC0", server |-> "receiveC0"]
    /\ state = [p \in Ends |-> "Uninitialized"]
    /\ own = [p \in Ends |-> Unset]
    /\ heard = [p \in Ends |-> Unset]
    /\ wire = [p \in Ends |-> <<>>]
    /\ closed = [p \in Ends |-> FALSE]
    /\ writing = <<>>
    /\ broadcasts = 0

\* The end leaves function `from` without an error, in state st, for `to`.
Proceed(p, from, to, st) ==
    /\ pc[p] = from
    /\ pc' = [pc EXCEPT ![p] = to]
    /\ state' = [state EXCEPT ![p] = st]

Fail(p) ==
    /\ pc' = [pc EXCEPT ![p] = "failed"]
    /\ state' = [state EXCEPT ![p] = "Error"]

\* A Write that succeeds; what a closed peer is sent goes nowhere.
Write(p, units) ==
    /\ ~closed[p]
    /\ wire' = IF closed[Peer(p)] THEN wire
               ELSE [wire EXCEPT ![Peer(p)] = @ \o units]
    /\ UNCHANGED <<closed, writing, broadcasts>>

\* A Read into a buffer of `size` units that finds n of them.
Read(p, n, size) ==
    /\ ~closed[p]
    /\ n <= Len(wire[p]) /\ n <= size
    /\ wire' = [wire EXCEPT ![p] = SubSeq(@, n + 1, Len(@))]
    /\ UNCHANGED <<closed, writing, broadcasts>>

Arrived(p, n) == Buffer(SubSeq(wire[p], 1, n))

-----------------------------------------------------------------------------
SendVersion(p, from, to, st) ==
    /\ Proceed(p, from, to, st)
    /\ Write(p, <<HandshakeVersion>>)
    /\ UNCHANGED <<own, heard>>

SendIdentity(p, from, to, t) ==
    LET id == [time |-> t, random |-> Random(p)]
    IN  /\ Proceed(p, from, to, state[p])
        /\ own' = [own EXCEPT ![p] = id]
        /\ Write(p, Packet(id))
        /\ UNCHANGED heard

SendEcho(p, from, to, st) ==
    /\ Proceed(p, from, to, st)
    /\ Write(p, Packet(heard[p]))
    /\ UNCHANGED <<own, heard>>

ReceiveVersion(p, from, to) ==
    /\ pc[p] = from
    /\ Read(p, 1, 1)
    /\ IF wire[p][1] = HandshakeVersion THEN Proceed(p, from, to, state[p]) ELSE Fail(p)
    /\ UNCHANGED <<own, heard>>

ReceiveIdentity(p, from, to, st, n) ==
    /\ Proceed(p, from, to, st)
    /\ Read(p, n, PacketSize)
    /\ heard' = [heard EXCEPT ![p] = Identity(Arrived(p, n))]
    /\ UNCHANGED own

\* Mutants: only the length is looked at; only the time is.
EchoUnchecked(p, packet) == Len(packet) = PacketSize
EchoMatchesTime(p, packet) == Identity(packet).time = own[p].time

\* An echo must carry the reader's own time and, by compareBytes, random data.
EchoMatches(p, packet) == Identity(packet) = own[p]

ReceiveEcho(p, from, to, st, n) ==
    /\ pc[p] = from
    /\ Read(p, n, PacketSize)
    /\ IF EchoMatches(p, Arrived(p, n)) THEN Proceed(p, from, to, st) ELSE Fail(p)
    /\ UNCHANGED <<own, heard>>

-----------------------------------------------------------------------------
(* doClientHandshake and doServerHandshake, function by function.           *)

sendC0 == SendVersion("client", "sendC0", "sendC1", "VersionSent")
sendC1(t) == SendIdentity("client", "sendC1", "receiveS0", t)
receiveS0 == ReceiveVersion("client", "receiveS0", "receiveS1")

\* Mutant: C2 is left for after S2.
receiveS1WithoutAck(n) ==
    ReceiveIdentity("client", "receiveS1", "receiveS2", state["client"], n)

receiveS1(n) == ReceiveIdentity("client", "receiveS1", "sendC2", state["client"], n)
sendC2 == SendEcho("client", "sendC2", "receiveS2", "AckSent")
receiveS2(n) == ReceiveEcho("client", "receiveS2", "done", "HandshakeDone", n)

receiveC0 == ReceiveVersion("server", "receiveC0", "receiveC1")
receiveC1(n) == ReceiveIdentity("server", "receiveC1", "sendS0", "VersionSent", n)
sendS0 == SendVersion("server", "sendS0", "sendS1", state["server"])
sendS1(t) == SendIdentity("server", "sendS1", "receiveC2", t)
receiveC2(n) == ReceiveEcho("server", "receiveC2", "sendS2", state["server"], n)
sendS2 == SendEcho("server", "sendS2", "done", "HandshakeDone")

doClientHandshake ==
    \/ sendC0
    \/ \E t \in Times : sendC1(t)
    \/ receiveS0
    \/ \E n \in 1..PacketSize : receiveS1(n)
    \/ sendC2
    \/ \E n \in 1..PacketSize : receiveS2(n)

doServerHandshake ==
    \/ receiveC0
    \/ \E n \in 1..PacketSize : receiveC1(n)
    \/ sendS0
    \/ \E t \in Times : sendS1(t)
    \/ \E n \in 1..PacketSize : receiveC2(n)
    \/ sendS2

\* A Read or Write of a connection that either end has closed.  (A field that
\* the failing function has set before is not looked at again.)
ConnectionGone(p) ==
    /\ pc[p] \notin Ended
    /\ \E q \in Ends : closed[q]
    /\ Fail(p)
    /\ UNCHANGED <<own, heard, wire, closed, writing, broadcasts>>

\* Mutant: the server leaves a failed connection open.
ClientCloseAfterError(p) ==
    /\ p = "client"
    /\ pc[p] = "failed"
    /\ ~closed[p]
    /\ closed' = [closed EXCEPT ![p] = TRUE]
    /\ UNCHANGED <<pc, state, own, heard, wire, writing, broadcasts>>

\* The caller gives the connection up after an error.
CloseAfterError(p) ==
    /\ pc[p] = "failed"
    /\ ~closed[p]
    /\ closed' = [closed EXCEPT ![p] = TRUE]
    /\ UNCHANGED <<pc, state, own, heard, wire, writing, broadcasts>>

\* A deadline passes, the network fails: the Read or Write returns an error.
Breaks(p) ==
    /\ Faults
    /\ pc[p] \notin Ended
    /\ Fail(p)
    /\ UNCHANGED <<own, heard, wire, closed, writing, broadcasts>>

\* HandshakeTimeout, or the program, closes the connection under the handshake.
CloseUnderway(p) ==
    /\ Faults
    /\ pc[p] \notin Ended
    /\ ~closed[p]
    /\ closed' = [closed EXCEPT ![p] = TRUE]
    /\ UNCHANGED <<pc, state, own, heard, wire, writing, broadcasts>>

\* ServerConnection.WriteMessage asks only that the connection is not being
\* closed: the server has it in its map before the handshake begins, and the
\* client may still be in its own when the server's is over.  One message is
\* written at a time, under writeLock.
Broadcast(m) ==
    /\ writing = <<>>
    /\ broadcasts < MaxBroadcasts
    /\ ~closed["server"]
    /\ ~closed["client"]
    /\ \E p \in Ends : pc[p] \notin Ended
    /\ writing' = m
    /\ broadcasts' = broadcasts + 1
    /\ UNCHANGED <<pc, state, own, heard, wire, closed>>

\* writeChunk makes a call of conn.Write for each header and for the data, and
\* the handshake takes no lock: its packets may go out between two of them.
\* What is left when the connection is closed is never written.
WritePiece(n) ==
    /\ n <= Len(writing)
    /\ ~closed["server"]
    /\ ~closed["client"]
    /\ wire' = [wire EXCEPT !["client"] = @ \o SubSeq(writing, 1, n)]
    /\ writing' = SubSeq(writing, n + 1, Len(writing))
    /\ UNCHANGED <<pc, state, own, heard, closed, broadcasts>>

Client == doClientHandshake \/ ConnectionGone("client") \/ CloseAfterError("client")
Server == doServerHandshake \/ ConnectionGone("server") \/ CloseAfterError("server")

Next ==
    \/ Client
    \/ Server
    \/ \E p \in Ends : Breaks(p) \/ CloseUnderway(p)
    \/ \E m \in Messages : Broadcast(m)
    \/ \E n \in 1..Len(writing) : WritePiece(n)

\* Both goroutines run and TCP delivers; nothing else is promised, no deadline
\* in particular, nor that a message that was begun is ever finished.
Spec == Init /\ [][Next]_vars /\ WF_vars(Client) /\ WF_vars(Server)

-----------------------------------------------------------------------------
HandshakeStates == {"Uninitialized", "VersionSent", "AckSent", "HandshakeDone", "Error"}
Units == Int
Identities == [time : Units, random : [1..RandomSize -> Units]]

\* The type invariant: the fields of both Handshakers and the two directions
\* of the connection (handshaker.go:21-32).
HandshakeTypeOK ==
    /\ pc \in [Ends -> ClientSteps \cup ServerSteps \cup Ended]
    /\ state \in [Ends -> HandshakeStates]
    /\ own \in [Ends -> Identities]
    /\ heard \in [Ends -> Identities]
    /\ wire \in [Ends -> Seq(Units)]
    /\ closed \in [Ends -> BOOLEAN]
    /\ writing \in Seq(Nat)
    /\ broadcasts \in 0..MaxBroadcasts

Done(p) == state[p] = "HandshakeDone"

\* An end that reports success has the peer's true time and random data, and
\* the peer has its own, however the stream was cut and whatever was written
\* in between: a packet read short (handshaker.go:231, 281) or a broadcast
\* taken for a part of S1 is found out by the other end's check of the echo.
Agreement ==
    \A p \in Ends : Done(p) => \A q \in Ends : heard[q] = own[Peer(q)]

\* A successful handshake has consumed its own bytes, all of them and no
\* others: the chunk reader that takes the connection over (server.go:549)
\* starts at the first byte of a message, and what has come, with what is still
\* to be written of the last message, is messages from end to end.
HandsOverAtBoundary ==
    /\ Done("server") => wire["server"] = <<>>
    /\ Done("client") =>
          \E ms \in SeqOf(Messages, MaxBroadcasts) :
              wire["client"] \o writing = FlattenSeq(ms)

\* An end in a function that reads, with nothing there for its Read to take.
Receives == {"receiveS0", "receiveS1", "receiveS2", "receiveC0", "receiveC1", "receiveC2"}
Starves(p) == pc[p] \in Receives /\ wire[p] = <<>>

\* While the connection is open, an end that starves has a peer that will move
\* first: it has not finished, and it does not starve as well.  The order of
\* the functions (handshaker.go:67-108, 111-152) makes it so, and a Read that is
\* cut short or takes what another goroutine wrote (handshaker.go:231, 281)
\* leaves more for the next one, never less.
NoStandoff ==
    (\A q \in Ends : ~closed[q]) =>
        \A p \in Ends : Starves(p) => pc[Peer(p)] # "done" /\ ~Starves(Peer(p))

\* Neither end waits for ever for the other, without any deadline: each sends
\* before it needs an answer, and one that fails closes (server.go:528-537).
BothEnd == <>(pc["client"] \in Ended) /\ <>(pc["server"] \in Ended)

\* handshaker.go:53: "DoHandshake performs the complete RTMP handshake."  With
\* a peer that follows the protocol, and nobody closing or timing out, neither
\* end reports an error.
CompletesUndisturbed == \A p \in Ends : state[p] # "Error"
=============================================================================
