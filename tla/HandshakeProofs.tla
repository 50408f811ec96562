--------------------------- MODULE HandshakeProofs ---------------------------
(***************************************************************************)
(* Proofs about Handshake, for every packet size, any clocks, any messages *)
(* written in between and any number of them.                              *)
(***************************************************************************)
EXTENDS Handshake, TLAPS, SequenceTheorems, WellFoundedInduction

-----------------------------------------------------------------------------
(* Packets and buffers.                                                      *)

\* PacketSize counts the two times and the random data (handshaker.go:14).
LEMMA Sizes == RandomSize \in Nat /\ RandomSize >= 1 /\ PacketSize \in Nat /\ PacketSize = RandomSize + 2
BY HandshakeAssumption DEF PacketSize

\* The clocks show no time before 1970 (handshaker.go:171, 303).
LEMMA TimesPositive == \A t \in Times : t \in Nat /\ t # 0
BY HandshakeAssumption

\* A sequence is a function on its indices.
LEMMA SeqIsFunction ==
    ASSUME NEW s \in Seq(Int), NEW k \in Nat, Len(s) = k
    PROVE  s \in [1..k -> Int]
OBVIOUS

\* Functions that agree everywhere are equal.
LEMMA SameFunction ==
    ASSUME NEW S, NEW f \in [S -> Int], NEW g \in [S -> Int], \A i \in S : f[i] = g[i]
    PROVE  f = g
OBVIOUS

\* What rand.Read fills in is a field of random data (handshaker.go:181, 313).
LEMMA RandomType ==
    ASSUME NEW p \in Ends
    PROVE  /\ Random(p) \in [1..RandomSize -> Int]
           /\ \A i \in 1..RandomSize : Random(p)[i] < 0
BY Sizes DEF Random

\* The layout of a packet (handshaker.go:168-184).
LEMMA PacketLayout ==
    ASSUME NEW id \in Identities
    PROVE  /\ Packet(id) \in Seq(Int)
           /\ Len(Packet(id)) = PacketSize
           /\ Packet(id)[1] = id.time
           /\ Packet(id)[2] = 0
           /\ \A i \in 3..PacketSize : Packet(id)[i] = id.random[i - 2]
<1>1. id.time \in Int /\ id.random \in [1..RandomSize -> Int]
  BY DEF Identities, Units
<1>2. id.random \in Seq(Int) /\ Len(id.random) = RandomSize
  BY <1>1, Sizes
<1>3. <<id.time, 0>> \in Seq(Int) /\ Len(<<id.time, 0>>) = 2
  BY <1>1
<1> QED
  BY <1>1, <1>2, <1>3, Sizes, ConcatProperties DEF Packet

\* A buffer is as long as a packet and zero where nothing came.
LEMMA BufferLayout ==
    ASSUME NEW units \in Seq(Int)
    PROVE  /\ Buffer(units) \in Seq(Int)
           /\ Len(Buffer(units)) = PacketSize
           /\ \A i \in 1..PacketSize :
                Buffer(units)[i] = IF i <= Len(units) THEN units[i] ELSE 0
BY Sizes DEF Buffer

\* The fields found in a buffer (handshaker.go:236-239).
LEMMA IdentityLayout ==
    ASSUME NEW packet \in Seq(Int), Len(packet) = PacketSize
    PROVE  /\ Identity(packet) \in Identities
           /\ Identity(packet).time = packet[1]
           /\ \A i \in 1..RandomSize : Identity(packet).random[i] = packet[i + 2]
<1>1. SubSeq(packet, 3, PacketSize) \in Seq(Int)
  BY Sizes, SubSeqProperties
<1>2. Len(SubSeq(packet, 3, PacketSize)) = RandomSize
  BY Sizes, SubSeqProperties
<1>3. \A i \in 1..RandomSize : SubSeq(packet, 3, PacketSize)[i] = packet[i + 2]
  BY Sizes, SubSeqProperties
<1>4. SubSeq(packet, 3, PacketSize) \in [1..RandomSize -> Int]
  BY <1>1, <1>2, Sizes, SeqIsFunction
<1>5. packet[1] \in Int
  BY Sizes
<1>6. /\ Identity(packet).time = packet[1]
      /\ Identity(packet).random = SubSeq(packet, 3, PacketSize)
  BY DEF Identity
<1>7. Identity(packet) \in Identities
  BY <1>4, <1>5 DEF Identity, Identities, Units
<1> QED
  BY <1>3, <1>6, <1>7

\* Reading a packet whole yields the identity it was made from.
LEMMA IdentityOfPacket ==
    ASSUME NEW id \in Identities
    PROVE  Identity(Packet(id)) = id
<1>1. /\ Identity(Packet(id)) \in Identities
      /\ Identity(Packet(id)).time = id.time
      /\ \A i \in 1..RandomSize : Identity(Packet(id)).random[i] = Packet(id)[i + 2]
  BY PacketLayout, IdentityLayout
<1>2. ASSUME NEW i \in 1..RandomSize
      PROVE  Identity(Packet(id)).random[i] = id.random[i]
  <2>1. i + 2 \in 3..PacketSize /\ (i + 2) - 2 = i
    BY Sizes
  <2>2. Packet(id)[i + 2] = id.random[(i + 2) - 2]
    BY <2>1, PacketLayout
  <2> QED
    BY <1>1, <2>1, <2>2
<1>3. id.random \in [1..RandomSize -> Int] /\ Identity(Packet(id)).random \in [1..RandomSize -> Int]
  BY <1>1 DEF Identities, Units
<1>4. Identity(Packet(id)).random = id.random
  <2> DEFINE f == Identity(Packet(id)).random
             g == id.random
  <2>1. /\ f \in [1..RandomSize -> Int]
        /\ g \in [1..RandomSize -> Int]
        /\ \A i \in 1..RandomSize : f[i] = g[i]
    BY <1>2, <1>3
  <2> HIDE DEF f, g
  <2>2. f = g
    BY <2>1, SameFunction
  <2> QED
    BY <2>2 DEF f, g
<1> QED
  BY <1>1, <1>4 DEF Identities

\* What a Read of n units leaves on the wire, and what it takes off.
LEMMA ReadCut ==
    ASSUME NEW s \in Seq(Int), NEW n \in 1..Len(s)
    PROVE  /\ SubSeq(s, 1, n) \in Seq(Int)
           /\ Len(SubSeq(s, 1, n)) = n
           /\ \A i \in 1..n : SubSeq(s, 1, n)[i] = s[i]
           /\ SubSeq(s, n + 1, Len(s)) \in Seq(Int)
           /\ Len(SubSeq(s, n + 1, Len(s))) = Len(s) - n
           /\ \A i \in 1..(Len(s) - n) : SubSeq(s, n + 1, Len(s))[i] = s[i + n]
<1>1. n \in Nat /\ Len(s) \in Nat /\ n >= 1 /\ n <= Len(s)
  OBVIOUS
<1> QED
  BY <1>1, SubSeqProperties

\* What the first n units of a message leave of it.
LEMMA PieceCut ==
    ASSUME NEW s \in Seq(Nat), NEW n \in 1..Len(s)
    PROVE  /\ SubSeq(s, 1, n) \in Seq(Nat) /\ SubSeq(s, n + 1, Len(s)) \in Seq(Nat)
           /\ SubSeq(s, 1, n) \in Seq(Int)
           /\ s = SubSeq(s, 1, n) \o SubSeq(s, n + 1, Len(s))
<1> DEFINE front == SubSeq(s, 1, n)
           back == SubSeq(s, n + 1, Len(s))
<1>1. n \in Nat /\ Len(s) \in Nat /\ n >= 1 /\ n <= Len(s)
  OBVIOUS
<1>2. /\ front \in Seq(Nat) /\ Len(front) = n /\ \A i \in 1..n : front[i] = s[i]
      /\ back \in Seq(Nat) /\ Len(back) = Len(s) - n
      /\ \A i \in 1..(Len(s) - n) : back[i] = s[i + n]
  BY <1>1, SubSeqProperties
<1> HIDE DEF front, back
<1>3. front \in Seq(Int) /\ back \in Seq(Int)
  BY <1>2
<1>4. s = front \o back
  <2>1. front \in Seq(Nat) /\ back \in Seq(Nat)
    BY <1>2
  <2>2. /\ front \o back \in Seq(Nat) /\ Len(front \o back) = Len(front) + Len(back)
        /\ \A i \in 1..Len(front) + Len(back) :
             (front \o back)[i] = IF i <= Len(front) THEN front[i] ELSE back[i - Len(front)]
    BY <2>1, ConcatProperties, Zenon
  <2>3. Len(front) + Len(back) = Len(s)
    <3>1. Len(front) = n /\ Len(back) = Len(s) - n
      BY <1>2
    <3> QED
      BY <1>1, <3>1
  <2>4. ASSUME NEW i \in 1..Len(s) PROVE s[i] = (front \o back)[i]
    <3>1. (front \o back)[i] = IF i <= n THEN front[i] ELSE back[i - n]
      BY <1>2, <2>2, <2>3, Zenon
    <3>2. i \in Nat /\ i >= 1 /\ i <= Len(s)
      BY <1>1
    <3>3. CASE i <= n
      <4>1. i \in 1..n
        BY <1>1, <3>2, <3>3
      <4> QED
        BY <1>2, <3>1, <3>3, <4>1, Zenon
    <3>4. CASE ~(i <= n)
      <4>1. i - n \in 1..(Len(s) - n) /\ (i - n) + n = i
        BY <1>1, <3>2, <3>4
      <4>2. back[i - n] = s[(i - n) + n]
        BY <1>2, <4>1, Zenon
      <4> QED
        BY <3>1, <3>4, <4>1, <4>2, Zenon
    <3> QED
      BY <3>3, <3>4
  <2>5. Len(s) = Len(front \o back)
    BY <2>2, <2>3
  <2> QED
    BY <2>2, <2>4, <2>5, SeqEqual
<1> QED
  BY <1>2, <1>3, <1>4 DEF front, back

-----------------------------------------------------------------------------
(* Types.                                                                    *)

\* An identity an end draws is a time and random data (handshaker.go:171-184).
LEMMA OwnType ==
    ASSUME NEW p \in Ends, NEW t \in Times
    PROVE  [time |-> t, random |-> Random(p)] \in Identities
BY RandomType, HandshakeAssumption DEF Identities, Units

\* NewHandshaker makes Handshakers of these types (handshaker.go:35-41).
LEMMA InitTypes == Init => HandshakeTypeOK
<1> SUFFICES ASSUME Init PROVE HandshakeTypeOK
  OBVIOUS
<1>1. Unset \in Identities
  BY Sizes DEF Unset, Identities, Units
<1>2. <<>> \in Seq(Int)
  OBVIOUS
<1> QED
  BY <1>1, <1>2, HandshakeAssumption
     DEF Init, HandshakeTypeOK, Ends, ClientSteps, ServerSteps, HandshakeStates, Units

\* A successful Write leaves a queue of units (handshaker.go:156, 186).
LEMMA WriteType ==
    ASSUME HandshakeTypeOK, NEW p \in Ends, NEW units \in Seq(Int), Write(p, units)
    PROVE  /\ wire' \in [Ends -> Seq(Units)]
           /\ closed' \in [Ends -> BOOLEAN]
           /\ broadcasts' \in 0..MaxBroadcasts
           /\ writing' \in Seq(Nat)
<1>1. Peer(p) \in Ends /\ wire[Peer(p)] \in Seq(Int)
  BY DEF HandshakeTypeOK, Ends, Peer, Units
<1>2. wire[Peer(p)] \o units \in Seq(Int)
  BY <1>1, ConcatProperties
<1> QED
  BY <1>1, <1>2 DEF HandshakeTypeOK, Write, Units

\* So does a Read, and what it takes off is a queue of units too
\* (handshaker.go:229-233).
LEMMA ReadType ==
    ASSUME HandshakeTypeOK, NEW p \in Ends, NEW n \in Nat \ {0}, NEW size, Read(p, n, size)
    PROVE  /\ wire' \in [Ends -> Seq(Units)]
           /\ closed' \in [Ends -> BOOLEAN]
           /\ broadcasts' \in 0..MaxBroadcasts
           /\ writing' \in Seq(Nat)
           /\ n \in 1..Len(wire[p])
           /\ Arrived(p, n) \in Seq(Int)
           /\ Len(Arrived(p, n)) = PacketSize
<1>1. wire[p] \in Seq(Int) /\ n \in 1..Len(wire[p])
  BY DEF HandshakeTypeOK, Units, Read
<1>2. /\ SubSeq(wire[p], n + 1, Len(wire[p])) \in Seq(Int)
      /\ SubSeq(wire[p], 1, n) \in Seq(Int)
  BY <1>1, ReadCut
<1>3. /\ wire' = [wire EXCEPT ![p] = SubSeq(wire[p], n + 1, Len(wire[p]))]
      /\ UNCHANGED <<closed, writing, broadcasts>>
  BY DEF Read
<1>4. /\ wire' \in [Ends -> Seq(Units)]
      /\ closed' \in [Ends -> BOOLEAN]
      /\ broadcasts' \in 0..MaxBroadcasts
      /\ writing' \in Seq(Nat)
  BY <1>2, <1>3 DEF HandshakeTypeOK, Units
<1>5. Arrived(p, n) \in Seq(Int) /\ Len(Arrived(p, n)) = PacketSize
  BY <1>2, BufferLayout DEF Arrived
<1> QED
  BY <1>1, <1>4, <1>5

\* An end that goes on, or fails, is in a function and a state of the code's
\* (handshaker.go:67-152).
LEMMA ProceedType ==
    ASSUME HandshakeTypeOK, NEW p \in Ends, NEW from,
           NEW to \in ClientSteps \cup ServerSteps \cup Ended,
           NEW st \in HandshakeStates, Proceed(p, from, to, st)
    PROVE  /\ pc' \in [Ends -> ClientSteps \cup ServerSteps \cup Ended]
           /\ state' \in [Ends -> HandshakeStates]
BY DEF HandshakeTypeOK, Proceed

\* ... or is in Error, wherever it was.
LEMMA FailType ==
    ASSUME HandshakeTypeOK, NEW p \in Ends, Fail(p)
    PROVE  /\ pc' \in [Ends -> ClientSteps \cup ServerSteps \cup Ended]
           /\ state' \in [Ends -> HandshakeStates]
BY DEF HandshakeTypeOK, Fail, HandshakeStates, Ended

\* A packet is read into a buffer of PacketSize bytes.
LEMMA ReadSizes == 1..PacketSize \subseteq Nat \ {0}
BY Sizes

\* Each function of DoHandshake keeps the types (handshaker.go:67-152).
LEMMA SendVersionTypes ==
    ASSUME HandshakeTypeOK, NEW p \in Ends, NEW from,
           NEW to \in ClientSteps \cup ServerSteps \cup Ended,
           NEW st \in HandshakeStates, SendVersion(p, from, to, st)
    PROVE  HandshakeTypeOK'
<1>1. <<HandshakeVersion>> \in Seq(Int)
  BY DEF HandshakeVersion
<1> QED
  BY <1>1, WriteType, ProceedType, FailType DEF SendVersion, HandshakeTypeOK

\* C1 and S1 carry an identity of the right shape (handshaker.go:167, 299).
LEMMA SendIdentityTypes ==
    ASSUME HandshakeTypeOK, NEW p \in Ends, NEW from,
           NEW to \in ClientSteps \cup ServerSteps \cup Ended,
           NEW t \in Times, SendIdentity(p, from, to, t)
    PROVE  HandshakeTypeOK'
<1>1. [time |-> t, random |-> Random(p)] \in Identities
  BY OwnType
<1>2. Packet([time |-> t, random |-> Random(p)]) \in Seq(Int)
  BY <1>1, PacketLayout
<1>3. state[p] \in HandshakeStates
  BY DEF HandshakeTypeOK
<1>4. own' \in [Ends -> Identities] /\ heard' \in [Ends -> Identities]
  BY <1>1 DEF SendIdentity, HandshakeTypeOK
<1> QED
  BY <1>2, <1>3, <1>4, WriteType, ProceedType, FailType DEF SendIdentity, HandshakeTypeOK

\* C2 and S2 carry one that was read (handshaker.go:191, 345).
LEMMA SendEchoTypes ==
    ASSUME HandshakeTypeOK, NEW p \in Ends, NEW from,
           NEW to \in ClientSteps \cup ServerSteps \cup Ended,
           NEW st \in HandshakeStates, SendEcho(p, from, to, st)
    PROVE  HandshakeTypeOK'
<1>1. heard[p] \in Identities
  BY DEF HandshakeTypeOK
<1>2. Packet(heard[p]) \in Seq(Int)
  BY <1>1, PacketLayout
<1> QED
  BY <1>2, WriteType, ProceedType, FailType DEF SendEcho, HandshakeTypeOK

\* C0 and S0 are one unit each (handshaker.go:215, 266).
LEMMA ReceiveVersionTypes ==
    ASSUME HandshakeTypeOK, NEW p \in Ends, NEW from,
           NEW to \in ClientSteps \cup ServerSteps \cup Ended,
           ReceiveVersion(p, from, to)
    PROVE  HandshakeTypeOK'
<1>1. state[p] \in HandshakeStates
  BY DEF HandshakeTypeOK
<1>2. 1 \in Nat \ {0} /\ Read(p, 1, 1) /\ UNCHANGED <<own, heard>>
  BY DEF ReceiveVersion
<1>3. Proceed(p, from, to, state[p]) \/ Fail(p)
  BY DEF ReceiveVersion
<1> QED
  BY <1>1, <1>2, <1>3, ReadType, ProceedType, FailType DEF HandshakeTypeOK

\* What is remembered of C1 and S1 is an identity (handshaker.go:229, 279).
LEMMA ReceiveIdentityTypes ==
    ASSUME HandshakeTypeOK, NEW p \in Ends, NEW from,
           NEW to \in ClientSteps \cup ServerSteps \cup Ended,
           NEW st \in HandshakeStates, NEW n \in 1..PacketSize,
           ReceiveIdentity(p, from, to, st, n)
    PROVE  HandshakeTypeOK'
<1>1. n \in Nat \ {0} /\ Read(p, n, PacketSize)
  BY ReadSizes DEF ReceiveIdentity
<1>2. Identity(Arrived(p, n)) \in Identities
  BY <1>1, ReadType, IdentityLayout
<1>3. own' \in [Ends -> Identities] /\ heard' \in [Ends -> Identities]
  BY <1>2 DEF ReceiveIdentity, HandshakeTypeOK
<1>4. Proceed(p, from, to, st)
  BY DEF ReceiveIdentity
<1> QED
  BY <1>1, <1>3, <1>4, ReadType, ProceedType, FailType DEF HandshakeTypeOK

\* C2 and S2 are compared and forgotten (handshaker.go:245, 322).
LEMMA ReceiveEchoTypes ==
    ASSUME HandshakeTypeOK, NEW p \in Ends, NEW from,
           NEW to \in ClientSteps \cup ServerSteps \cup Ended,
           NEW st \in HandshakeStates, NEW n \in 1..PacketSize,
           ReceiveEcho(p, from, to, st, n)
    PROVE  HandshakeTypeOK'
<1>1. n \in Nat \ {0} /\ Read(p, n, PacketSize) /\ UNCHANGED <<own, heard>>
  BY ReadSizes DEF ReceiveEcho
<1>2. Proceed(p, from, to, st) \/ Fail(p)
  BY DEF ReceiveEcho
<1> QED
  BY <1>1, <1>2, ReadType, ProceedType, FailType DEF HandshakeTypeOK

\* Every step of the two handshakes, and of what may befall them.
LEMMA NextTypes == HandshakeTypeOK /\ [Next]_vars => HandshakeTypeOK'
<1> SUFFICES ASSUME HandshakeTypeOK, [Next]_vars
             PROVE  HandshakeTypeOK'
  OBVIOUS
<1> USE DEF Ends
<1>1. CASE doClientHandshake
  <2>1. CASE sendC0
    BY <2>1, SendVersionTypes DEF sendC0, ClientSteps, HandshakeStates
  <2>2. ASSUME NEW t \in Times, sendC1(t) PROVE HandshakeTypeOK'
    BY <2>2, SendIdentityTypes DEF sendC1, ClientSteps
  <2>3. CASE receiveS0
    BY <2>3, ReceiveVersionTypes DEF receiveS0, ClientSteps
  <2>4. ASSUME NEW n \in 1..PacketSize, receiveS1(n) PROVE HandshakeTypeOK'
    BY <2>4, ReceiveIdentityTypes DEF receiveS1, ClientSteps, HandshakeTypeOK
  <2>5. CASE sendC2
    BY <2>5, SendEchoTypes DEF sendC2, ClientSteps, HandshakeStates
  <2>6. ASSUME NEW n \in 1..PacketSize, receiveS2(n) PROVE HandshakeTypeOK'
    BY <2>6, ReceiveEchoTypes DEF receiveS2, Ended, HandshakeStates
  <2> QED
    BY <1>1, <2>1, <2>2, <2>3, <2>4, <2>5, <2>6 DEF doClientHandshake
<1>2. CASE doServerHandshake
  <2>1. CASE receiveC0
    BY <2>1, ReceiveVersionTypes DEF receiveC0, ServerSteps
  <2>2. ASSUME NEW n \in 1..PacketSize, receiveC1(n) PROVE HandshakeTypeOK'
    BY <2>2, ReceiveIdentityTypes DEF receiveC1, ServerSteps, HandshakeStates
  <2>3. CASE sendS0
    BY <2>3, SendVersionTypes DEF sendS0, ServerSteps, HandshakeTypeOK
  <2>4. ASSUME NEW t \in Times, sendS1(t) PROVE HandshakeTypeOK'
    BY <2>4, SendIdentityTypes DEF sendS1, ServerSteps
  <2>5. ASSUME NEW n \in 1..PacketSize, receiveC2(n) PROVE HandshakeTypeOK'
    BY <2>5, ReceiveEchoTypes DEF receiveC2, ServerSteps, HandshakeTypeOK
  <2>6. CASE sendS2
    BY <2>6, SendEchoTypes DEF sendS2, Ended, HandshakeStates
  <2> QED
    BY <1>2, <2>1, <2>2, <2>3, <2>4, <2>5, <2>6 DEF doServerHandshake
<1>3. ASSUME NEW p \in Ends, ConnectionGone(p) \/ Breaks(p) PROVE HandshakeTypeOK'
  BY <1>3, FailType DEF ConnectionGone, Breaks, HandshakeTypeOK
<1>4. ASSUME NEW p \in Ends, CloseAfterError(p) \/ CloseUnderway(p) PROVE HandshakeTypeOK'
  BY <1>4 DEF CloseAfterError, CloseUnderway, HandshakeTypeOK
<1>5. ASSUME NEW m \in Messages, Broadcast(m) PROVE HandshakeTypeOK'
  <2>1. m \in Seq(Nat)
    BY HandshakeAssumption
  <2>2. broadcasts' \in 0..MaxBroadcasts
    BY <1>5, HandshakeAssumption DEF Broadcast, HandshakeTypeOK
  <2> QED
    BY <1>5, <2>1, <2>2 DEF Broadcast, HandshakeTypeOK
<1>6. ASSUME NEW n \in 1..Len(writing), WritePiece(n) PROVE HandshakeTypeOK'
  <2>1. writing \in Seq(Nat)
    BY DEF HandshakeTypeOK
  <2>2. SubSeq(writing, 1, n) \in Seq(Int) /\ SubSeq(writing, n + 1, Len(writing)) \in Seq(Nat)
    BY <2>1, PieceCut
  <2>3. wire["client"] \o SubSeq(writing, 1, n) \in Seq(Int)
    BY <2>2, ConcatProperties DEF HandshakeTypeOK, Units
  <2> QED
    BY <1>6, <2>2, <2>3 DEF WritePiece, HandshakeTypeOK, Units
<1>7. CASE UNCHANGED vars
  BY <1>7 DEF vars, HandshakeTypeOK
<1> QED
  BY <1>1, <1>2, <1>3, <1>4, <1>5, <1>6, <1>7 DEF Next, Client, Server

\* Both Handshakers keep their Go types, whatever the connection does.
THEOREM HandshakeTypes == Spec => []HandshakeTypeOK
BY InitTypes, NextTypes, PTL DEF Spec

-----------------------------------------------------------------------------
(* Agreement.  Its inductive invariant says, for each function the server    *)
(* can be in, what the client may have put on the wire for it: nothing but   *)
(* C0, C1 and C2 goes to the server.  A C1 that was read short leaves a unit *)
(* that is no time at the head of the stream, where C2's time is looked for. *)

\* The client's packets, and whether it has drawn what they are made from.
C1 == Packet(own["client"])
C2 == Packet(heard["client"])
Drawn(p) == own[p].time \in Times /\ own[p].random = Random(p)

\* Where the client is with C1, then C2, as its last packet; it may have failed
\* after it.
SentC1 == pc["client"] \in {"receiveS0", "receiveS1", "sendC2", "failed"} /\ Drawn("client")
SentC2 == pc["client"] \in {"receiveS2", "done", "failed"} /\ Drawn("client")

BeforeC0 ==
    pc["server"] = "receiveC0" /\ ~closed["server"] =>
        \/ wire["server"] = <<>> /\ pc["client"] \in {"sendC0", "failed"}
        \/ wire["server"] = <<HandshakeVersion>> /\ pc["client"] \in {"sendC1", "failed"}
        \/ wire["server"] = <<HandshakeVersion>> \o C1 /\ SentC1
        \/ wire["server"] = (<<HandshakeVersion>> \o C1) \o C2 /\ SentC2

BeforeC1 ==
    pc["server"] = "receiveC1" /\ ~closed["server"] =>
        \/ wire["server"] = <<>> /\ pc["client"] \in {"sendC1", "failed"}
        \/ wire["server"] = C1 /\ SentC1
        \/ wire["server"] = C1 \o C2 /\ SentC2

C1Short == wire["server"] # <<>> /\ wire["server"][1] <= 0
C1Whole ==
    /\ heard["server"] = own["client"]
    /\ \/ wire["server"] = <<>> /\ SentC1
       \/ wire["server"] = C2 /\ SentC2

BeforeC2 ==
    pc["server"] \in {"sendS0", "sendS1", "receiveC2"} /\ ~closed["server"] =>
        /\ C1Short \/ C1Whole
        /\ pc["client"] \in {"receiveS0", "receiveS1", "sendC2", "receiveS2", "done", "failed"}

AfterC2 ==
    pc["server"] \in {"sendS2", "done"} =>
        /\ heard["server"] = own["client"]
        /\ heard["client"] = own["server"]
        /\ wire["server"] = <<>>
        /\ pc["client"] \in {"receiveS2", "done", "failed"}

\* The client's random data comes back in S2 alone, the server's last packet.
EchoOnlyInS2 ==
    pc["server"] # "done" =>
        \A i \in 1..Len(wire["client"]) : wire["client"][i] # -1

OwnDrawn ==
    /\ pc["client"] \in {"receiveS0", "receiveS1", "sendC2", "receiveS2", "done"} => Drawn("client")
    /\ pc["server"] \in {"receiveC2", "sendS2", "done"} => Drawn("server")

ServerFirst ==
    /\ \A p \in Ends : Done(p) => pc[p] = "done"
    /\ pc["client"] = "done" => pc["server"] = "done"
    /\ pc["client"] \in ClientSteps \cup Ended
    /\ pc["server"] \in ServerSteps \cup Ended

AgreementInv ==
    /\ HandshakeTypeOK
    /\ BeforeC0 /\ BeforeC1 /\ BeforeC2 /\ AfterC2
    /\ EchoOnlyInS2
    /\ OwnDrawn
    /\ ServerFirst

-----------------------------------------------------------------------------
(* What Reads, Writes and the control do, end by end.                        *)

\* The units in front and those behind, when two writes have met on the wire.
LEMMA CutJoined ==
    ASSUME NEW a \in Seq(Int), NEW b \in Seq(Int)
    PROVE  /\ SubSeq(a \o b, 1, Len(a)) = a
           /\ SubSeq(a \o b, Len(a) + 1, Len(a \o b)) = b
OBVIOUS

\* Sequences joined one after the other, in whatever grouping.
LEMMA Associative ==
    \A s, t, u \in Seq(Int) : (s \o t) \o u = s \o (t \o u)
OBVIOUS

\* The empty sequence adds nothing.
LEMMA EmptyJoined ==
    \A s \in Seq(Int) : <<>> \o s = s /\ s \o <<>> = s
OBVIOUS

\* Lengths add up.
LEMMA LengthJoined ==
    \A s, t \in Seq(Int) : s \o t \in Seq(Int) /\ Len(s \o t) = Len(s) + Len(t)
BY ConcatProperties

\* Packets written one after the other are on the wire in that order.
LEMMA JoinedOnWire ==
    ASSUME NEW a \in Seq(Int), NEW b \in Seq(Int), NEW c \in Seq(Int)
    PROVE  /\ (a \o b) \o c = a \o (b \o c)
           /\ <<>> \o a = a
           /\ a \o <<>> = a
<1>1. (a \o b) \o c = a \o (b \o c)
  BY Associative, Zenon
<1>2. <<>> \o a = a /\ a \o <<>> = a
  BY EmptyJoined, Zenon
<1> QED
  BY <1>1, <1>2, Zenon

\* A Write reaches the other end unless that has closed (handshaker.go:156).
LEMMA WriteEffect ==
    ASSUME HandshakeTypeOK, NEW p \in Ends, NEW units, Write(p, units)
    PROVE  /\ wire'[p] = wire[p]
           /\ wire'[Peer(p)] = IF closed[Peer(p)] THEN wire[Peer(p)]
                               ELSE wire[Peer(p)] \o units
           /\ closed' = closed
BY DEF HandshakeTypeOK, Write, Peer, Ends

\* A Read consumes what has come for the reader alone (handshaker.go:231).
LEMMA ReadEffect ==
    ASSUME HandshakeTypeOK, NEW p \in Ends, NEW n, NEW size, Read(p, n, size)
    PROVE  /\ wire'[p] = SubSeq(wire[p], n + 1, Len(wire[p]))
           /\ wire'[Peer(p)] = wire[Peer(p)]
           /\ closed' = closed
           /\ ~closed[p]
           /\ n <= Len(wire[p])
BY DEF HandshakeTypeOK, Read, Peer, Ends

\* Going on, and failing, concern one end (handshaker.go:67-152).
LEMMA ProceedEffect ==
    ASSUME HandshakeTypeOK, NEW p \in Ends, NEW from, NEW to, NEW st, Proceed(p, from, to, st)
    PROVE  /\ pc[p] = from
           /\ pc'[p] = to /\ pc'[Peer(p)] = pc[Peer(p)]
           /\ state'[p] = st /\ state'[Peer(p)] = state[Peer(p)]
BY DEF HandshakeTypeOK, Proceed, Peer, Ends

\* Failing concerns one end too.
LEMMA FailEffect ==
    ASSUME HandshakeTypeOK, NEW p \in Ends, Fail(p)
    PROVE  /\ pc'[p] = "failed" /\ pc'[Peer(p)] = pc[Peer(p)]
           /\ state'[p] = "Error" /\ state'[Peer(p)] = state[Peer(p)]
BY DEF HandshakeTypeOK, Fail, Peer, Ends

\* A packet taken off the wire whole, in front of whatever follows it.
LEMMA WholePacket ==
    ASSUME NEW a \in Seq(Int), Len(a) = PacketSize, NEW rest \in Seq(Int)
    PROVE  /\ Buffer(SubSeq(a \o rest, 1, PacketSize)) = a
           /\ SubSeq(a \o rest, PacketSize + 1, Len(a \o rest)) = rest
<1>1. /\ SubSeq(a \o rest, 1, PacketSize) = a
      /\ SubSeq(a \o rest, PacketSize + 1, Len(a \o rest)) = rest
  BY CutJoined
<1>2. Buffer(a) \in Seq(Int) /\ Len(Buffer(a)) = PacketSize
  BY BufferLayout
<1>3. ASSUME NEW i \in 1..PacketSize PROVE Buffer(a)[i] = a[i]
  <2>1. Buffer(a)[i] = IF i <= Len(a) THEN a[i] ELSE 0
    BY BufferLayout
  <2> QED
    BY <2>1, Sizes
<1>4. Buffer(a) = a
  BY <1>2, <1>3, SeqEqual
<1> QED
  BY <1>1, <1>4

\* A packet cut by TCP: the stream goes on inside it, and the buffer's last
\* unit is still zero (handshaker.go:281).
LEMMA CutPacket ==
    ASSUME NEW a \in Seq(Int), Len(a) = PacketSize, NEW rest \in Seq(Int),
           NEW n \in 1..PacketSize, n # PacketSize
    PROVE  /\ SubSeq(a \o rest, n + 1, Len(a \o rest)) # <<>>
           /\ SubSeq(a \o rest, n + 1, Len(a \o rest))[1] = a[n + 1]
           /\ Buffer(SubSeq(a \o rest, 1, n))[PacketSize] = 0
<1> DEFINE s == a \o rest
<1>1. /\ s \in Seq(Int)
      /\ Len(s) = PacketSize + Len(rest)
      /\ Len(rest) \in Nat
      /\ \A i \in 1..(PacketSize + Len(rest)) : s[i] = IF i <= PacketSize THEN a[i] ELSE rest[i - PacketSize]
  <2>1. /\ a \o rest \in Seq(Int)
        /\ Len(a \o rest) = Len(a) + Len(rest)
        /\ \A i \in 1..(Len(a) + Len(rest)) :
              (a \o rest)[i] = IF i <= Len(a) THEN a[i] ELSE rest[i - Len(a)]
    BY ConcatProperties
  <2> QED
    BY <2>1
<1> HIDE DEF s
<1>2. /\ n \in Nat /\ n < PacketSize /\ n <= Len(s)
      /\ 1 \in 1..(Len(s) - n)
      /\ n + 1 \in 1..(PacketSize + Len(rest)) /\ n + 1 <= PacketSize
      /\ n \in 1..Len(s)
  BY <1>1, Sizes
<1>3. s[n + 1] = a[n + 1]
  BY <1>1, <1>2
<1>4. /\ SubSeq(s, n + 1, Len(s)) \in Seq(Int)
      /\ Len(SubSeq(s, n + 1, Len(s))) = Len(s) - n
      /\ SubSeq(s, n + 1, Len(s))[1] = s[1 + n]
      /\ SubSeq(s, 1, n) \in Seq(Int)
      /\ Len(SubSeq(s, 1, n)) = n
  BY <1>1, <1>2, ReadCut
<1>5. SubSeq(s, n + 1, Len(s)) # <<>>
  <2>1. Len(SubSeq(s, n + 1, Len(s))) # 0
    BY <1>1, <1>2, <1>4
  <2>2. Len(<<>>) = 0
    BY EmptySeq
  <2> QED
    BY <2>1, <2>2, Zenon
<1>6. SubSeq(s, n + 1, Len(s))[1] = a[n + 1]
  <2>1. 1 + n = n + 1
    BY <1>2
  <2> QED
    BY <1>3, <1>4, <2>1, Zenon
<1>7. Buffer(SubSeq(s, 1, n))[PacketSize] = 0
  <2>1. PacketSize \in 1..PacketSize /\ ~(PacketSize <= n)
    BY <1>2, Sizes
  <2> QED
    BY <1>4, <2>1, BufferLayout
<1> QED
  BY <1>5, <1>6, <1>7 DEF s

\* Only the first unit of a drawn packet is a time (handshaker.go:168-184).
LEMMA OneTimePerPacket ==
    ASSUME NEW p \in Ends, own[p] \in Identities, Drawn(p), NEW i \in 2..PacketSize
    PROVE  Packet(own[p])[i] <= 0
<1>1. CASE i = 2
  BY <1>1, PacketLayout
<1>2. CASE i # 2
  <2>1. i \in 3..PacketSize /\ i - 2 \in 1..RandomSize
    BY <1>2, Sizes
  <2>2. Packet(own[p])[i] = Random(p)[i - 2]
    BY <2>1, PacketLayout DEF Drawn
  <2>3. Random(p)[i - 2] \in Int /\ Random(p)[i - 2] < 0
    BY <2>1, RandomType
  <2> QED
    BY <2>2, <2>3
<1> QED
  BY <1>1, <1>2

-----------------------------------------------------------------------------
(* Each function of the client keeps the invariant.                          *)

\* C0 is the first unit the server can find (handshaker.go:68-73).
LEMMA SendC0Inv == AgreementInv /\ sendC0 => AgreementInv'
<1> SUFFICES ASSUME AgreementInv, sendC0
             PROVE  AgreementInv'
  OBVIOUS
<1> USE DEF Ends
<1>1. HandshakeTypeOK /\ HandshakeTypeOK'
  BY NextTypes DEF AgreementInv, Next, Client, doClientHandshake
<1>2. /\ pc["client"] = "sendC0"
      /\ pc'["client"] = "sendC1" /\ pc'["server"] = pc["server"]
      /\ state'["client"] = "VersionSent" /\ state'["server"] = state["server"]
  BY <1>1, ProceedEffect DEF sendC0, SendVersion, Peer
<1>3. /\ wire'["client"] = wire["client"]
      /\ wire'["server"] = IF closed["server"] THEN wire["server"]
                           ELSE wire["server"] \o <<HandshakeVersion>>
      /\ closed' = closed
  BY <1>1, WriteEffect DEF sendC0, SendVersion, Peer
<1>4. own' = own /\ heard' = heard
  BY DEF sendC0, SendVersion
<1>5. BeforeC0'
  <2>1. <<>> \o <<HandshakeVersion>> = <<HandshakeVersion>>
    BY DEF HandshakeVersion
  <2> QED
    BY <1>2, <1>3, <2>1 DEF AgreementInv, BeforeC0, SentC1, SentC2
<1>6. BeforeC1' /\ BeforeC2' /\ AfterC2'
  BY <1>2, <1>3, <1>4 DEF AgreementInv, BeforeC1, BeforeC2, AfterC2, SentC1, SentC2
<1>7. EchoOnlyInS2'
  BY <1>2, <1>3 DEF AgreementInv, EchoOnlyInS2
<1>8. OwnDrawn' /\ ServerFirst'
  BY <1>2, <1>4 DEF AgreementInv, OwnDrawn, ServerFirst, Done, Drawn, ClientSteps
<1> QED
  BY <1>1, <1>5, <1>6, <1>7, <1>8 DEF AgreementInv

\* C1 follows it, made of what has just been drawn (handshaker.go:75-79).
LEMMA SendC1Inv ==
    ASSUME AgreementInv, NEW t \in Times, sendC1(t)
    PROVE  AgreementInv'
<1> USE DEF Ends
<1> DEFINE id == [time |-> t, random |-> Random("client")]
<1>1. HandshakeTypeOK /\ HandshakeTypeOK'
  BY NextTypes DEF AgreementInv, Next, Client, doClientHandshake
<1>2. /\ pc["client"] = "sendC1"
      /\ pc'["client"] = "receiveS0" /\ pc'["server"] = pc["server"]
      /\ state' = state
  BY <1>1, ProceedEffect DEF sendC1, SendIdentity, Peer, Proceed, HandshakeTypeOK
<1>3. /\ wire'["client"] = wire["client"]
      /\ wire'["server"] = IF closed["server"] THEN wire["server"]
                           ELSE wire["server"] \o Packet(id)
      /\ closed' = closed
  BY <1>1, WriteEffect DEF sendC1, SendIdentity, Peer
<1>4. own'["client"] = id /\ own'["server"] = own["server"] /\ heard' = heard
  BY <1>1 DEF sendC1, SendIdentity, HandshakeTypeOK
<1>5. Drawn("client")'
  BY <1>4 DEF Drawn
<1>6. C1' = Packet(id) /\ Packet(id) \in Seq(Int)
  BY <1>4, OwnType, PacketLayout DEF C1
<1>7. SentC1'
  BY <1>2, <1>5 DEF SentC1
<1>8. BeforeC0'
  BY <1>2, <1>3, <1>6, <1>7 DEF AgreementInv, BeforeC0, SentC1, SentC2
<1>9. BeforeC1'
  BY <1>2, <1>3, <1>6, <1>7, JoinedOnWire DEF AgreementInv, BeforeC1, SentC1, SentC2
<1>10. BeforeC2' /\ AfterC2'
  BY <1>2, <1>3 DEF AgreementInv, BeforeC2, AfterC2
<1>11. EchoOnlyInS2'
  BY <1>2, <1>3 DEF AgreementInv, EchoOnlyInS2
<1>12. OwnDrawn' /\ ServerFirst'
  BY <1>2, <1>4, <1>5 DEF AgreementInv, OwnDrawn, ServerFirst, Done, Drawn, ClientSteps
<1> QED
  BY <1>1, <1>8, <1>9, <1>10, <1>11, <1>12 DEF AgreementInv

\* What a Read of the client's leaves for it has nothing of an S2 either.
LEMMA ReadKeepsEchoOnlyInS2 ==
    ASSUME HandshakeTypeOK, EchoOnlyInS2, NEW n \in Nat \ {0}, NEW size,
           Read("client", n, size), pc'["server"] = pc["server"]
    PROVE  EchoOnlyInS2'
<1> USE DEF Ends
<1>1. /\ wire'["client"] = SubSeq(wire["client"], n + 1, Len(wire["client"]))
      /\ n <= Len(wire["client"])
      /\ wire["client"] \in Seq(Int)
  BY ReadEffect DEF HandshakeTypeOK, Units
<1>2. /\ Len(wire'["client"]) = Len(wire["client"]) - n
      /\ \A i \in 1..(Len(wire["client"]) - n) : wire'["client"][i] = wire["client"][i + n]
  BY <1>1, ReadCut
<1>3. \A i \in 1..(Len(wire["client"]) - n) : i + n \in 1..Len(wire["client"])
  BY <1>1
<1> QED
  BY <1>2, <1>3 DEF EchoOnlyInS2

\* S0 is right or the handshake fails (handshaker.go:81-85).
LEMMA ReceiveS0Inv == AgreementInv /\ receiveS0 => AgreementInv'
<1> SUFFICES ASSUME AgreementInv, receiveS0
             PROVE  AgreementInv'
  OBVIOUS
<1> USE DEF Ends
<1>1. HandshakeTypeOK /\ HandshakeTypeOK'
  BY NextTypes DEF AgreementInv, Next, Client, doClientHandshake
<1>2. /\ pc["client"] = "receiveS0"
      /\ pc'["client"] \in {"receiveS1", "failed"} /\ pc'["server"] = pc["server"]
      /\ state'["client"] \in {state["client"], "Error"} /\ state'["server"] = state["server"]
  BY <1>1, ProceedEffect, FailEffect DEF receiveS0, ReceiveVersion, Peer
<1>3. wire'["server"] = wire["server"] /\ closed' = closed
  BY <1>1, ReadEffect DEF receiveS0, ReceiveVersion, Peer
<1>4. own' = own /\ heard' = heard
  BY DEF receiveS0, ReceiveVersion
<1>5. BeforeC0' /\ BeforeC1'
  BY <1>2, <1>3, <1>4 DEF AgreementInv, BeforeC0, BeforeC1, SentC1, SentC2, Drawn, C1, C2
<1>6. BeforeC2' /\ AfterC2'
  BY <1>2, <1>3, <1>4
     DEF AgreementInv, BeforeC2, AfterC2, C1Short, C1Whole, SentC1, SentC2, Drawn, C2
<1>7. EchoOnlyInS2'
  BY <1>1, <1>2, ReadKeepsEchoOnlyInS2 DEF AgreementInv, receiveS0, ReceiveVersion
<1>8. OwnDrawn' /\ ServerFirst'
  BY <1>2, <1>4 DEF AgreementInv, OwnDrawn, ServerFirst, Done, Drawn, ClientSteps, Ended
<1> QED
  BY <1>1, <1>5, <1>6, <1>7, <1>8 DEF AgreementInv

\* S1 changes what C2 will be, and C2 has not been sent (handshaker.go:87-91).
LEMMA ReceiveS1Inv ==
    ASSUME AgreementInv, NEW n \in 1..PacketSize, receiveS1(n)
    PROVE  AgreementInv'
<1> USE DEF Ends
<1>1. HandshakeTypeOK /\ HandshakeTypeOK'
  BY NextTypes DEF AgreementInv, Next, Client, doClientHandshake
<1>2. /\ pc["client"] = "receiveS1"
      /\ pc'["client"] = "sendC2" /\ pc'["server"] = pc["server"]
      /\ state' = state
  BY <1>1, ProceedEffect DEF receiveS1, ReceiveIdentity, Peer, Proceed, HandshakeTypeOK
<1>3. wire'["server"] = wire["server"] /\ closed' = closed
  BY <1>1, ReadEffect DEF receiveS1, ReceiveIdentity, Peer
<1>4. own' = own /\ heard'["server"] = heard["server"]
  BY <1>1 DEF receiveS1, ReceiveIdentity, HandshakeTypeOK
<1>5. BeforeC0' /\ BeforeC1'
  BY <1>2, <1>3, <1>4 DEF AgreementInv, BeforeC0, BeforeC1, SentC1, SentC2, Drawn, C1
<1>6. BeforeC2' /\ AfterC2'
  BY <1>2, <1>3, <1>4
     DEF AgreementInv, BeforeC2, AfterC2, C1Short, C1Whole, SentC1, SentC2, Drawn
<1>7. EchoOnlyInS2'
  BY <1>1, <1>2, ReadSizes, ReadKeepsEchoOnlyInS2 DEF AgreementInv, receiveS1, ReceiveIdentity
<1>8. OwnDrawn' /\ ServerFirst'
  BY <1>2, <1>4 DEF AgreementInv, OwnDrawn, ServerFirst, Done, Drawn, ClientSteps
<1> QED
  BY <1>1, <1>5, <1>6, <1>7, <1>8 DEF AgreementInv

\* C2 ends what the client writes (handshaker.go:93-98).
LEMMA SendC2Inv == AgreementInv /\ sendC2 => AgreementInv'
<1> SUFFICES ASSUME AgreementInv, sendC2
             PROVE  AgreementInv'
  OBVIOUS
<1> USE DEF Ends
<1>1. HandshakeTypeOK /\ HandshakeTypeOK'
  BY NextTypes DEF AgreementInv, Next, Client, doClientHandshake
<1>2. /\ pc["client"] = "sendC2"
      /\ pc'["client"] = "receiveS2" /\ pc'["server"] = pc["server"]
      /\ state'["client"] = "AckSent" /\ state'["server"] = state["server"]
  BY <1>1, ProceedEffect DEF sendC2, SendEcho, Peer
<1>3. /\ wire'["client"] = wire["client"]
      /\ wire'["server"] = IF closed["server"] THEN wire["server"]
                           ELSE wire["server"] \o C2
      /\ closed' = closed
  BY <1>1, WriteEffect DEF sendC2, SendEcho, Peer, C2
<1>4. own' = own /\ heard' = heard /\ C1' = C1 /\ C2' = C2
  BY DEF sendC2, SendEcho, C1, C2
<1>5. /\ C1 \in Seq(Int) /\ C2 \in Seq(Int)
      /\ wire["server"] \in Seq(Int)
  BY <1>1, PacketLayout DEF HandshakeTypeOK, C1, C2, Units
<1>6. Drawn("client") /\ Drawn("client")'
  BY <1>2, <1>4 DEF AgreementInv, OwnDrawn, Drawn
<1>7. BeforeC0' /\ BeforeC1'
  BY <1>2, <1>3, <1>4, <1>6 DEF AgreementInv, BeforeC0, BeforeC1, SentC1, SentC2
<1>8. BeforeC2'
  <2> SUFFICES ASSUME pc["server"] \in {"sendS0", "sendS1", "receiveC2"}, ~closed["server"]
               PROVE  C1Short' \/ C1Whole'
    BY <1>2, <1>3 DEF BeforeC2
  <2>1. wire'["server"] = wire["server"] \o C2
    BY <1>3
  <2>2. CASE C1Short
    <3>1. Len(wire["server"]) \in Nat \ {0}
      BY <1>5, <2>2, EmptySeq DEF C1Short
    <3>2. wire'["server"][1] = wire["server"][1] /\ Len(wire'["server"]) # 0
      BY <1>5, <2>1, <3>1, ConcatProperties
    <3>3. wire'["server"] # <<>>
      BY <3>2, EmptySeq, Zenon
    <3> QED
      BY <2>2, <3>2, <3>3 DEF C1Short
  <2>3. CASE C1Whole
    BY <1>2, <1>4, <1>5, <1>6, <2>1, <2>3, JoinedOnWire DEF C1Whole, SentC1, SentC2
  <2> QED
    BY <2>2, <2>3 DEF AgreementInv, BeforeC2
<1>9. AfterC2'
  BY <1>2 DEF AgreementInv, AfterC2
<1>10. EchoOnlyInS2'
  BY <1>2, <1>3 DEF AgreementInv, EchoOnlyInS2
<1>11. OwnDrawn' /\ ServerFirst'
  BY <1>2, <1>4, <1>6 DEF AgreementInv, OwnDrawn, ServerFirst, Done, Drawn, ClientSteps
<1> QED
  BY <1>1, <1>7, <1>8, <1>9, <1>10, <1>11 DEF AgreementInv

\* The client succeeds on a true S2 only, and so after the server
\* (handshaker.go:100-106).
LEMMA ReceiveS2Inv ==
    ASSUME AgreementInv, NEW n \in 1..PacketSize, receiveS2(n)
    PROVE  AgreementInv'
<1> USE DEF Ends
<1>1. HandshakeTypeOK /\ HandshakeTypeOK'
  BY NextTypes DEF AgreementInv, Next, Client, doClientHandshake
<1>2. /\ pc["client"] = "receiveS2"
      /\ pc'["client"] \in {"done", "failed"} /\ pc'["server"] = pc["server"]
      /\ state'["client"] = "HandshakeDone" => pc'["client"] = "done"
      /\ state'["server"] = state["server"]
  BY <1>1, ProceedEffect, FailEffect DEF receiveS2, ReceiveEcho, Peer
<1>3. wire'["server"] = wire["server"] /\ closed' = closed
  BY <1>1, ReadEffect DEF receiveS2, ReceiveEcho, Peer
<1>4. own' = own /\ heard' = heard
  BY DEF receiveS2, ReceiveEcho
<1>5. BeforeC0' /\ BeforeC1'
  BY <1>2, <1>3, <1>4 DEF AgreementInv, BeforeC0, BeforeC1, SentC1, SentC2, Drawn, C1, C2
<1>6. BeforeC2' /\ AfterC2'
  BY <1>2, <1>3, <1>4
     DEF AgreementInv, BeforeC2, AfterC2, C1Short, C1Whole, SentC1, SentC2, Drawn, C2
<1>7. EchoOnlyInS2'
  BY <1>1, <1>2, ReadSizes, ReadKeepsEchoOnlyInS2 DEF AgreementInv, receiveS2, ReceiveEcho
<1>8. pc'["client"] = "done" => pc["server"] = "done"
  <2> SUFFICES ASSUME pc'["client"] = "done", pc["server"] # "done"
               PROVE  FALSE
    OBVIOUS
  <2>1. Identity(Arrived("client", n)) = own["client"]
    BY <1>1, FailEffect DEF receiveS2, ReceiveEcho, EchoMatches
  <2>2. /\ n \in 1..Len(wire["client"])
        /\ wire["client"] \in Seq(Int)
        /\ Arrived("client", n) \in Seq(Int)
        /\ Len(Arrived("client", n)) = PacketSize
    BY <1>1, ReadSizes, ReadType DEF receiveS2, ReceiveEcho, HandshakeTypeOK, Units
  <2>3. 1 \in 1..RandomSize /\ 1 + 2 = 3 /\ 3 \in 1..PacketSize
    BY Sizes
  <2>4. Arrived("client", n)[3] = own["client"].random[1]
    BY <2>1, <2>2, <2>3, IdentityLayout
  <2>5. own["client"].random[1] = -1
    BY <1>2, <2>3 DEF AgreementInv, OwnDrawn, Drawn, Random
  <2>6. /\ SubSeq(wire["client"], 1, n) \in Seq(Int)
        /\ Len(SubSeq(wire["client"], 1, n)) = n
        /\ \A i \in 1..n : SubSeq(wire["client"], 1, n)[i] = wire["client"][i]
    BY <2>2, ReadCut
  <2>7. Arrived("client", n)[3] = IF 3 <= n THEN wire["client"][3] ELSE 0
    <3> DEFINE units == SubSeq(wire["client"], 1, n)
    <3>1. Buffer(units)[3] = IF 3 <= Len(units) THEN units[3] ELSE 0
      BY <2>3, <2>6, BufferLayout
    <3>2. 3 <= n => units[3] = wire["client"][3]
      BY <2>2, <2>6
    <3> QED
      BY <2>6, <3>1, <3>2 DEF Arrived
  <2>8. 3 <= n => 3 \in 1..Len(wire["client"])
    BY <2>2
  <2>9. 3 <= n => wire["client"][3] # -1
    BY <2>8 DEF AgreementInv, EchoOnlyInS2
  <2> QED
    BY <2>4, <2>5, <2>7, <2>9
<1>9. OwnDrawn' /\ ServerFirst'
  BY <1>2, <1>4, <1>8 DEF AgreementInv, OwnDrawn, ServerFirst, Done, Drawn, ClientSteps, Ended
<1> QED
  BY <1>1, <1>5, <1>6, <1>7, <1>9 DEF AgreementInv

-----------------------------------------------------------------------------
(* Each function of the server keeps the invariant.                          *)

\* C0 taken off, C1 is next (handshaker.go:112-116).
LEMMA ReceiveC0Inv == AgreementInv /\ receiveC0 => AgreementInv'
<1> SUFFICES ASSUME AgreementInv, receiveC0
             PROVE  AgreementInv'
  OBVIOUS
<1> USE DEF Ends
<1>1. HandshakeTypeOK /\ HandshakeTypeOK'
  BY NextTypes DEF AgreementInv, Next, Server, doServerHandshake
<1>2. /\ pc["server"] = "receiveC0"
      /\ pc'["server"] \in {"receiveC1", "failed"} /\ pc'["client"] = pc["client"]
      /\ state'["server"] \in {state["server"], "Error"} /\ state'["client"] = state["client"]
  BY <1>1, ProceedEffect, FailEffect DEF receiveC0, ReceiveVersion, Peer
<1>3. /\ wire'["client"] = wire["client"]
      /\ wire'["server"] = SubSeq(wire["server"], 1 + 1, Len(wire["server"]))
      /\ 1 <= Len(wire["server"])
      /\ closed' = closed /\ ~closed["server"]
  <2>1. Read("server", 1, 1)
    BY DEF receiveC0, ReceiveVersion
  <2> QED
    BY <1>1, <2>1, ReadEffect DEF Peer
<1>4. own' = own /\ heard' = heard /\ C1' = C1 /\ C2' = C2
  BY DEF receiveC0, ReceiveVersion, C1, C2
<1>5. /\ C1 \in Seq(Int) /\ C2 \in Seq(Int)
      /\ <<HandshakeVersion>> \in Seq(Int) /\ Len(<<HandshakeVersion>>) = 1
      /\ <<>> \in Seq(Int)
  BY <1>1, PacketLayout DEF HandshakeTypeOK, C1, C2, HandshakeVersion
<1>6. BeforeC1'
  <2>1. CASE wire["server"] = <<>> /\ pc["client"] \in {"sendC0", "failed"}
    BY <1>3, <2>1, EmptySeq
  <2>2. CASE wire["server"] = <<HandshakeVersion>> /\ pc["client"] \in {"sendC1", "failed"}
    <3>1. wire["server"] = <<HandshakeVersion>> \o <<>>
      BY <1>5, <2>2, JoinedOnWire
    <3>2. wire'["server"] = <<>>
      BY <1>3, <1>5, <3>1, CutJoined
    <3> QED
      BY <1>2, <2>2, <3>2 DEF BeforeC1
  <2>3. CASE wire["server"] = <<HandshakeVersion>> \o C1 /\ SentC1
    <3>1. wire'["server"] = C1
      BY <1>3, <1>5, <2>3, CutJoined
    <3> QED
      BY <1>2, <1>4, <2>3, <3>1 DEF BeforeC1, SentC1, Drawn
  <2>4. CASE wire["server"] = (<<HandshakeVersion>> \o C1) \o C2 /\ SentC2
    <3>1. wire["server"] = <<HandshakeVersion>> \o (C1 \o C2) /\ C1 \o C2 \in Seq(Int)
      BY <1>5, <2>4, JoinedOnWire, ConcatProperties
    <3>2. wire'["server"] = C1 \o C2
      <4> DEFINE v == <<HandshakeVersion>>
                 rest == C1 \o C2
      <4>1. v \in Seq(Int) /\ rest \in Seq(Int) /\ Len(v) = 1
        BY <1>5, <3>1
      <4>2. wire'["server"] = SubSeq(v \o rest, 1 + 1, Len(v \o rest))
        BY <1>3, <3>1
      <4> HIDE DEF v, rest
      <4>3. SubSeq(v \o rest, Len(v) + 1, Len(v \o rest)) = rest
        BY <4>1, CutJoined
      <4>4. wire'["server"] = rest
        BY <4>1, <4>2, <4>3
      <4> QED
        BY <4>4 DEF rest
    <3> QED
      BY <1>2, <1>4, <2>4, <3>2 DEF BeforeC1, SentC2, Drawn
  <2> QED
    BY <1>2, <1>3, <2>1, <2>2, <2>3, <2>4 DEF AgreementInv, BeforeC0
<1>7. BeforeC0' /\ BeforeC2' /\ AfterC2'
  BY <1>2 DEF BeforeC0, BeforeC2, AfterC2
<1>8. EchoOnlyInS2'
  BY <1>2, <1>3 DEF AgreementInv, EchoOnlyInS2
<1>9. OwnDrawn' /\ ServerFirst'
  BY <1>2, <1>4 DEF AgreementInv, OwnDrawn, ServerFirst, Done, Drawn, ServerSteps, Ended
<1> QED
  BY <1>1, <1>6, <1>7, <1>8, <1>9 DEF AgreementInv

\* C1 is heard whole, or the stream now goes on inside it
\* (handshaker.go:118-123).
LEMMA ReceiveC1Inv ==
    ASSUME AgreementInv, NEW n \in 1..PacketSize, receiveC1(n)
    PROVE  AgreementInv'
<1> USE DEF Ends
<1>1. HandshakeTypeOK /\ HandshakeTypeOK'
  BY NextTypes DEF AgreementInv, Next, Server, doServerHandshake
<1>2. /\ pc["server"] = "receiveC1"
      /\ pc'["server"] = "sendS0" /\ pc'["client"] = pc["client"]
      /\ state'["server"] = "VersionSent" /\ state'["client"] = state["client"]
  BY <1>1, ProceedEffect DEF receiveC1, ReceiveIdentity, Peer
<1>3. /\ wire'["client"] = wire["client"]
      /\ wire'["server"] = SubSeq(wire["server"], n + 1, Len(wire["server"]))
      /\ n <= Len(wire["server"])
      /\ closed' = closed /\ ~closed["server"]
  BY <1>1, ReadEffect DEF receiveC1, ReceiveIdentity, Peer
<1>4. /\ own' = own /\ heard'["client"] = heard["client"] /\ C1' = C1 /\ C2' = C2
      /\ heard'["server"] = Identity(Buffer(SubSeq(wire["server"], 1, n)))
  BY <1>1 DEF receiveC1, ReceiveIdentity, C1, C2, HandshakeTypeOK, Arrived
<1>5. /\ C1 \in Seq(Int) /\ Len(C1) = PacketSize /\ Identity(C1) = own["client"]
      /\ C2 \in Seq(Int)
      /\ <<>> \in Seq(Int)
      /\ own["client"] \in Identities
  BY <1>1, PacketLayout, IdentityOfPacket DEF HandshakeTypeOK, C1, C2
<1>6. n >= 1
  BY Sizes
<1>7. ASSUME NEW rest \in Seq(Int), wire["server"] = C1 \o rest, Drawn("client")
      PROVE  \/ C1Short'
             \/ wire'["server"] = rest /\ heard'["server"] = own["client"]
  <2>1. CASE n = PacketSize
    <3>1. /\ Buffer(SubSeq(C1 \o rest, 1, PacketSize)) = C1
          /\ SubSeq(C1 \o rest, PacketSize + 1, Len(C1 \o rest)) = rest
      BY <1>5, WholePacket
    <3> QED
      BY <1>3, <1>4, <1>5, <1>7, <2>1, <3>1, Zenon
  <2>2. CASE n # PacketSize
    <3>1. wire'["server"] # <<>> /\ wire'["server"][1] = C1[n + 1]
      <4>1. /\ SubSeq(C1 \o rest, n + 1, Len(C1 \o rest)) # <<>>
            /\ SubSeq(C1 \o rest, n + 1, Len(C1 \o rest))[1] = C1[n + 1]
        BY <1>5, <2>2, CutPacket
      <4> QED
        BY <1>3, <1>7, <4>1, Zenon
    <3>2. n + 1 \in 2..PacketSize
      BY <2>2, Sizes
    <3>3. C1[n + 1] <= 0
      BY <1>5, <1>7, <3>2, OneTimePerPacket DEF C1
    <3> QED
      BY <3>1, <3>3 DEF C1Short
  <2> QED
    BY <2>1, <2>2
<1>8. BeforeC2'
  <2>1. CASE wire["server"] = <<>> /\ pc["client"] \in {"sendC1", "failed"}
    BY <1>3, <1>6, <2>1, EmptySeq
  <2>2. CASE wire["server"] = C1 /\ SentC1
    <3>1. wire["server"] = C1 \o <<>> /\ Drawn("client")
      BY <1>5, <2>2, JoinedOnWire DEF SentC1
    <3>2. C1Short' \/ (wire'["server"] = <<>> /\ heard'["server"] = own["client"])
      BY <1>5, <1>7, <3>1
    <3> QED
      BY <1>2, <1>4, <2>2, <3>2 DEF BeforeC2, C1Whole, SentC1, Drawn
  <2>3. CASE wire["server"] = C1 \o C2 /\ SentC2
    <3>1. C1Short' \/ (wire'["server"] = C2 /\ heard'["server"] = own["client"])
      BY <1>5, <1>7, <2>3 DEF SentC2
    <3> QED
      BY <1>2, <1>4, <2>3, <3>1 DEF BeforeC2, C1Whole, SentC2, Drawn
  <2> QED
    BY <1>2, <1>3, <2>1, <2>2, <2>3 DEF AgreementInv, BeforeC1
<1>9. BeforeC0' /\ BeforeC1' /\ AfterC2'
  BY <1>2 DEF BeforeC0, BeforeC1, AfterC2
<1>10. EchoOnlyInS2'
  BY <1>2, <1>3 DEF AgreementInv, EchoOnlyInS2
<1>11. OwnDrawn' /\ ServerFirst'
  BY <1>2, <1>4 DEF AgreementInv, OwnDrawn, ServerFirst, Done, Drawn, ServerSteps
<1> QED
  BY <1>1, <1>8, <1>9, <1>10, <1>11 DEF AgreementInv

\* What is written to the client and is no S2 leaves EchoOnlyInS2 alone.
LEMMA WriteKeepsEchoOnlyInS2 ==
    ASSUME HandshakeTypeOK, EchoOnlyInS2, NEW units \in Seq(Int),
           \A i \in 1..Len(units) : units[i] # -1,
           wire'["client"] \in {wire["client"], wire["client"] \o units},
           pc["server"] # "done"
    PROVE  EchoOnlyInS2'
<1>1. wire["client"] \in Seq(Int)
  BY DEF HandshakeTypeOK, Ends, Units
<1>2. CASE wire'["client"] = wire["client"]
  BY <1>2 DEF EchoOnlyInS2
<1>3. CASE wire'["client"] = wire["client"] \o units
  <2> DEFINE joined == wire["client"] \o units
  <2>1. /\ Len(joined) = Len(wire["client"]) + Len(units)
        /\ \A i \in 1..(Len(wire["client"]) + Len(units)) :
              joined[i] = IF i <= Len(wire["client"]) THEN wire["client"][i]
                          ELSE units[i - Len(wire["client"])]
    BY <1>1, ConcatProperties
  <2>2. \A i \in 1..Len(wire["client"]) : wire["client"][i] # -1
    BY DEF EchoOnlyInS2
  <2> HIDE DEF joined
  <2>3. ASSUME NEW i \in 1..Len(joined) PROVE joined[i] # -1
    <3>1. CASE i <= Len(wire["client"])
      <4>1. i \in 1..Len(wire["client"])
        BY <1>1, <2>1, <3>1
      <4> QED
        BY <2>1, <2>2, <3>1, <4>1
    <3>2. CASE ~(i <= Len(wire["client"]))
      <4>1. i - Len(wire["client"]) \in 1..Len(units)
        BY <1>1, <2>1, <3>2
      <4> QED
        BY <1>1, <2>1, <3>2, <4>1
    <3> QED
      BY <3>1, <3>2
  <2>4. wire'["client"] = joined
    BY <1>3 DEF joined
  <2> QED
    BY <2>3, <2>4 DEF EchoOnlyInS2
<1> QED
  BY <1>2, <1>3

\* S0 (handshaker.go:125-129).
LEMMA SendS0Inv == AgreementInv /\ sendS0 => AgreementInv'
<1> SUFFICES ASSUME AgreementInv, sendS0
             PROVE  AgreementInv'
  OBVIOUS
<1> USE DEF Ends
<1>1. HandshakeTypeOK /\ HandshakeTypeOK'
  BY NextTypes DEF AgreementInv, Next, Server, doServerHandshake
<1>2. /\ pc["server"] = "sendS0"
      /\ pc'["server"] = "sendS1" /\ pc'["client"] = pc["client"]
      /\ state' = state
  BY <1>1, ProceedEffect DEF sendS0, SendVersion, Peer, Proceed, HandshakeTypeOK
<1>3. /\ wire'["server"] = wire["server"]
      /\ wire'["client"] \in {wire["client"], wire["client"] \o <<HandshakeVersion>>}
      /\ closed' = closed
  BY <1>1, WriteEffect DEF sendS0, SendVersion, Peer
<1>4. own' = own /\ heard' = heard
  BY DEF sendS0, SendVersion
<1>5. BeforeC0' /\ BeforeC1' /\ AfterC2'
  BY <1>2 DEF BeforeC0, BeforeC1, AfterC2
<1>6. BeforeC2'
  BY <1>2, <1>3, <1>4 DEF AgreementInv, BeforeC2, C1Short, C1Whole, SentC1, SentC2, Drawn, C2
<1>7. EchoOnlyInS2'
  <2>1. /\ <<HandshakeVersion>> \in Seq(Int)
        /\ \A i \in 1..Len(<<HandshakeVersion>>) : <<HandshakeVersion>>[i] # -1
    BY DEF HandshakeVersion
  <2> QED
    BY <1>1, <1>2, <1>3, <2>1, WriteKeepsEchoOnlyInS2 DEF AgreementInv
<1>8. OwnDrawn' /\ ServerFirst'
  BY <1>2, <1>4 DEF AgreementInv, OwnDrawn, ServerFirst, Done, Drawn, ServerSteps
<1> QED
  BY <1>1, <1>5, <1>6, <1>7, <1>8 DEF AgreementInv

\* S1, whose random data is the server's own (handshaker.go:131-135).
LEMMA SendS1Inv ==
    ASSUME AgreementInv, NEW t \in Times, sendS1(t)
    PROVE  AgreementInv'
<1> USE DEF Ends
<1> DEFINE id == [time |-> t, random |-> Random("server")]
<1>1. HandshakeTypeOK /\ HandshakeTypeOK'
  BY NextTypes DEF AgreementInv, Next, Server, doServerHandshake
<1>2. /\ pc["server"] = "sendS1"
      /\ pc'["server"] = "receiveC2" /\ pc'["client"] = pc["client"]
      /\ state' = state
  BY <1>1, ProceedEffect DEF sendS1, SendIdentity, Peer, Proceed, HandshakeTypeOK
<1>3. /\ wire'["server"] = wire["server"]
      /\ wire'["client"] \in {wire["client"], wire["client"] \o Packet(id)}
      /\ closed' = closed
  BY <1>1, WriteEffect DEF sendS1, SendIdentity, Peer
<1>4. own'["server"] = id /\ own'["client"] = own["client"] /\ heard' = heard
  BY <1>1 DEF sendS1, SendIdentity, HandshakeTypeOK
<1>5. BeforeC0' /\ BeforeC1' /\ AfterC2'
  BY <1>2 DEF BeforeC0, BeforeC1, AfterC2
<1>6. BeforeC2'
  BY <1>2, <1>3, <1>4 DEF AgreementInv, BeforeC2, C1Short, C1Whole, SentC1, SentC2, Drawn, C2
<1>7. EchoOnlyInS2'
  <2>1. id \in Identities
    BY OwnType
  <2>2. Packet(id) \in Seq(Int) /\ Len(Packet(id)) = PacketSize
    BY <2>1, PacketLayout
  <2>3. ASSUME NEW i \in 1..PacketSize PROVE Packet(id)[i] # -1
    <3>1. CASE i = 1
      BY <2>1, <3>1, PacketLayout, HandshakeAssumption
    <3>2. CASE i = 2
      BY <2>1, <3>2, PacketLayout
    <3>3. CASE i \in 3..PacketSize
      <4>1. Packet(id)[i] = Random("server")[i - 2] /\ i - 2 \in 1..RandomSize
        BY <2>1, <3>3, PacketLayout, Sizes
      <4> QED
        BY <4>1 DEF Random
    <3> QED
      BY <3>1, <3>2, <3>3, Sizes
  <2>4. \A i \in 1..Len(Packet(id)) : Packet(id)[i] # -1
    BY <2>2, <2>3
  <2> HIDE DEF id
  <2> QED
    BY <1>1, <1>2, <1>3, <2>2, <2>4, WriteKeepsEchoOnlyInS2 DEF AgreementInv
<1>8. OwnDrawn' /\ ServerFirst'
  BY <1>2, <1>4 DEF AgreementInv, OwnDrawn, ServerFirst, Done, Drawn, ServerSteps
<1> QED
  BY <1>1, <1>5, <1>6, <1>7, <1>8 DEF AgreementInv

\* The echo that passes was the whole of C2, after the whole of C1
\* (handshaker.go:137-141).
LEMMA ReceiveC2Inv ==
    ASSUME AgreementInv, NEW n \in 1..PacketSize, receiveC2(n)
    PROVE  AgreementInv'
<1> USE DEF Ends
<1>1. HandshakeTypeOK /\ HandshakeTypeOK'
  BY NextTypes DEF AgreementInv, Next, Server, doServerHandshake
<1>2. /\ pc["server"] = "receiveC2"
      /\ pc'["server"] \in {"sendS2", "failed"} /\ pc'["client"] = pc["client"]
      /\ state'["server"] \in {state["server"], "Error"} /\ state'["client"] = state["client"]
  BY <1>1, ProceedEffect, FailEffect DEF receiveC2, ReceiveEcho, Peer
<1>3. /\ wire'["client"] = wire["client"]
      /\ wire'["server"] = SubSeq(wire["server"], n + 1, Len(wire["server"]))
      /\ n <= Len(wire["server"])
      /\ closed' = closed /\ ~closed["server"]
  BY <1>1, ReadEffect DEF receiveC2, ReceiveEcho, Peer
<1>4. own' = own /\ heard' = heard
  BY DEF receiveC2, ReceiveEcho
<1>5. Drawn("server")
  BY <1>2 DEF AgreementInv, OwnDrawn
<1>6. n \in Nat \ {0}
  BY ReadSizes
<1>7. /\ n \in 1..Len(wire["server"])
      /\ wire["server"] \in Seq(Int)
      /\ Arrived("server", n) \in Seq(Int)
      /\ Len(Arrived("server", n)) = PacketSize
  BY <1>1, <1>6, ReadType DEF receiveC2, ReceiveEcho, HandshakeTypeOK, Units
<1>8. pc'["server"] = "sendS2" => Identity(Arrived("server", n)) = own["server"]
  BY <1>1, FailEffect DEF receiveC2, ReceiveEcho, EchoMatches
<1> DEFINE Passed == \/ pc'["server"] = "failed"
                     \/ /\ heard["server"] = own["client"] /\ heard["client"] = own["server"]
                        /\ wire'["server"] = <<>>
                        /\ pc["client"] \in {"receiveS2", "done", "failed"}
<1>9. ASSUME C1Short PROVE Passed
  <2>1. /\ SubSeq(wire["server"], 1, n) \in Seq(Int)
        /\ Len(SubSeq(wire["server"], 1, n)) = n
        /\ SubSeq(wire["server"], 1, n)[1] = wire["server"][1]
    BY <1>6, <1>7, ReadCut
  <2>2. 1 \in 1..PacketSize /\ 1 <= n
    BY <1>6, Sizes
  <2>3. Arrived("server", n)[1] = wire["server"][1]
    BY <2>1, <2>2, BufferLayout DEF Arrived
  <2>4. Identity(Arrived("server", n)).time <= 0
    BY <1>7, <1>9, <2>3, IdentityLayout DEF C1Short
  <2>5. own["server"].time \in Nat /\ own["server"].time # 0
    BY <1>5, TimesPositive DEF Drawn
  <2> QED
    BY <1>2, <1>8, <2>4, <2>5
<1>10. ASSUME C1Whole PROVE Passed
  <2>1. wire["server"] # <<>>
    BY <1>6, <1>7, EmptySeq
  <2>2. /\ wire["server"] = C2 /\ SentC2
        /\ heard["server"] = own["client"]
    BY <1>10, <2>1 DEF C1Whole
  <2>3. /\ heard["client"] \in Identities /\ C2 \in Seq(Int) /\ Len(C2) = PacketSize
        /\ C2 \o <<>> = C2 /\ <<>> \in Seq(Int)
    BY <1>1, PacketLayout, JoinedOnWire DEF HandshakeTypeOK, C2
  <2>4. CASE n # PacketSize
    <3>1. Arrived("server", n)[PacketSize] = 0
      <4>1. Buffer(SubSeq(C2 \o <<>>, 1, n))[PacketSize] = 0
        BY <2>3, <2>4, CutPacket
      <4> QED
        BY <2>2, <2>3, <4>1 DEF Arrived
    <3>2. RandomSize \in 1..RandomSize /\ RandomSize + 2 = PacketSize
      BY Sizes
    <3>3. Identity(Arrived("server", n)).random[RandomSize] = 0
      BY <1>7, <3>1, <3>2, IdentityLayout
    <3>4. own["server"].random[RandomSize] # 0
      BY <1>5, <3>2 DEF Drawn, Random
    <3> QED
      BY <1>2, <1>8, <3>3, <3>4
  <2>5. CASE n = PacketSize
    <3>1. Arrived("server", n) = C2 /\ wire'["server"] = <<>>
      <4>1. /\ Buffer(SubSeq(C2 \o <<>>, 1, PacketSize)) = C2
            /\ SubSeq(C2 \o <<>>, PacketSize + 1, Len(C2 \o <<>>)) = <<>>
        BY <2>3, WholePacket
      <4> QED
        BY <1>3, <2>2, <2>3, <2>5, <4>1 DEF Arrived
    <3>2. Identity(C2) = heard["client"]
      BY <2>3, IdentityOfPacket DEF C2
    <3> QED
      BY <1>2, <1>8, <2>2, <3>1, <3>2 DEF SentC2
  <2> QED
    BY <2>4, <2>5
<1>11. Passed
  BY <1>2, <1>3, <1>9, <1>10 DEF AgreementInv, BeforeC2
<1>12. AfterC2'
  BY <1>2, <1>4, <1>11 DEF AfterC2
<1>13. BeforeC0' /\ BeforeC1' /\ BeforeC2'
  BY <1>2 DEF BeforeC0, BeforeC1, BeforeC2
<1>14. EchoOnlyInS2'
  BY <1>2, <1>3 DEF AgreementInv, EchoOnlyInS2
<1>15. OwnDrawn' /\ ServerFirst'
  BY <1>2, <1>4 DEF AgreementInv, OwnDrawn, ServerFirst, Done, Drawn, ServerSteps, Ended
<1> QED
  BY <1>1, <1>12, <1>13, <1>14, <1>15 DEF AgreementInv

\* S2 is the server's last write, and only now is success reported
\* (handshaker.go:143-150).
LEMMA SendS2Inv == AgreementInv /\ sendS2 => AgreementInv'
<1> SUFFICES ASSUME AgreementInv, sendS2
             PROVE  AgreementInv'
  OBVIOUS
<1> USE DEF Ends
<1>1. HandshakeTypeOK /\ HandshakeTypeOK'
  BY NextTypes DEF AgreementInv, Next, Server, doServerHandshake
<1>2. /\ pc["server"] = "sendS2"
      /\ pc'["server"] = "done" /\ pc'["client"] = pc["client"]
      /\ state'["client"] = state["client"]
  BY <1>1, ProceedEffect DEF sendS2, SendEcho, Peer
<1>3. wire'["server"] = wire["server"] /\ closed' = closed
  BY <1>1, WriteEffect DEF sendS2, SendEcho, Peer
<1>4. own' = own /\ heard' = heard
  BY DEF sendS2, SendEcho
<1>5. BeforeC0' /\ BeforeC1' /\ BeforeC2' /\ EchoOnlyInS2'
  BY <1>2 DEF BeforeC0, BeforeC1, BeforeC2, EchoOnlyInS2
<1>6. AfterC2'
  BY <1>2, <1>3, <1>4 DEF AgreementInv, AfterC2
<1>7. OwnDrawn' /\ ServerFirst'
  BY <1>2, <1>4 DEF AgreementInv, OwnDrawn, ServerFirst, Done, Drawn, Ended
<1> QED
  BY <1>1, <1>5, <1>6, <1>7 DEF AgreementInv

-----------------------------------------------------------------------------
(* What may befall a handshake.                                              *)

\* An end that fails sends and reads no more (handshaker.go:69-71, 113-115).
LEMMA FailInv ==
    ASSUME AgreementInv, NEW p \in Ends, ConnectionGone(p) \/ Breaks(p)
    PROVE  AgreementInv'
<1> USE DEF Ends
<1>1. HandshakeTypeOK /\ HandshakeTypeOK'
  BY NextTypes DEF AgreementInv, Next, Client, Server
<1>2. /\ pc[p] \notin Ended
      /\ pc'[p] = "failed" /\ pc'[Peer(p)] = pc[Peer(p)]
      /\ state'[p] = "Error" /\ state'[Peer(p)] = state[Peer(p)]
      /\ UNCHANGED <<own, heard, wire, closed>>
  BY <1>1, FailEffect DEF ConnectionGone, Breaks
<1>3. p = "client" \/ p = "server"
  OBVIOUS
<1>4. BeforeC0' /\ BeforeC1'
  BY <1>2, <1>3 DEF AgreementInv, BeforeC0, BeforeC1, SentC1, SentC2, Drawn, C1, C2, Peer
<1>5. BeforeC2' /\ AfterC2'
  BY <1>2, <1>3
     DEF AgreementInv, BeforeC2, AfterC2, C1Short, C1Whole, SentC1, SentC2, Drawn, C2, Peer, Ended
<1>6. EchoOnlyInS2'
  BY <1>2, <1>3 DEF AgreementInv, EchoOnlyInS2, Peer, Ended
<1>7. OwnDrawn' /\ ServerFirst'
  BY <1>2, <1>3 DEF AgreementInv, OwnDrawn, ServerFirst, Done, Drawn, Peer, Ended
<1> QED
  BY <1>1, <1>4, <1>5, <1>6, <1>7 DEF AgreementInv

\* Closing an end moves nothing else (server.go:503-511).
LEMMA CloseInv ==
    ASSUME AgreementInv, NEW p \in Ends, CloseAfterError(p) \/ CloseUnderway(p)
    PROVE  AgreementInv'
<1> USE DEF Ends
<1>1. HandshakeTypeOK /\ HandshakeTypeOK'
  BY NextTypes DEF AgreementInv, Next, Client, Server
<1>2. /\ UNCHANGED <<pc, state, own, heard, wire>>
      /\ closed["server"] => closed'["server"]
  BY <1>1 DEF CloseAfterError, CloseUnderway, HandshakeTypeOK
<1>3. BeforeC0' /\ BeforeC1'
  BY <1>2 DEF AgreementInv, BeforeC0, BeforeC1, SentC1, SentC2, Drawn, C1, C2
<1>4. BeforeC2' /\ AfterC2' /\ EchoOnlyInS2'
  BY <1>2 DEF AgreementInv, BeforeC2, AfterC2, EchoOnlyInS2, C1Short, C1Whole, SentC1, SentC2, Drawn, C2
<1>5. OwnDrawn' /\ ServerFirst'
  BY <1>2 DEF AgreementInv, OwnDrawn, ServerFirst, Done, Drawn
<1> QED
  BY <1>1, <1>3, <1>4, <1>5 DEF AgreementInv

\* Beginning a message moves nothing of the handshake (server.go:438).
LEMMA BroadcastInv ==
    ASSUME AgreementInv, NEW m \in Messages, Broadcast(m)
    PROVE  AgreementInv'
<1>1. HandshakeTypeOK'
  BY NextTypes DEF AgreementInv, Next
<1>2. UNCHANGED <<pc, state, own, heard, wire, closed>>
  BY DEF Broadcast
<1>3. BeforeC0' /\ BeforeC1' /\ BeforeC2' /\ AfterC2' /\ EchoOnlyInS2'
  BY <1>2 DEF AgreementInv, BeforeC0, BeforeC1, BeforeC2, AfterC2, EchoOnlyInS2,
              C1Short, C1Whole, SentC1, SentC2, Drawn, C1, C2
<1>4. OwnDrawn' /\ ServerFirst'
  BY <1>2 DEF AgreementInv, OwnDrawn, ServerFirst, Done, Drawn
<1> QED
  BY <1>1, <1>3, <1>4 DEF AgreementInv

\* A piece written in between carries nothing random (chunk_streamer.go:206-232).
LEMMA PieceInv ==
    ASSUME AgreementInv, NEW n \in 1..Len(writing), WritePiece(n)
    PROVE  AgreementInv'
<1> DEFINE piece == SubSeq(writing, 1, n)
<1> USE DEF Ends
<1>1. HandshakeTypeOK /\ HandshakeTypeOK'
  BY NextTypes DEF AgreementInv, Next
<1>2. /\ UNCHANGED <<pc, state, own, heard, closed>>
      /\ wire'["server"] = wire["server"]
      /\ wire'["client"] = wire["client"] \o piece
  BY <1>1 DEF WritePiece, HandshakeTypeOK
<1>3. piece \in Seq(Nat)
  BY <1>1, PieceCut DEF HandshakeTypeOK
<1> HIDE DEF piece
<1>4. BeforeC0' /\ BeforeC1'
  BY <1>2 DEF AgreementInv, BeforeC0, BeforeC1, SentC1, SentC2, Drawn, C1, C2
<1>5. BeforeC2' /\ AfterC2'
  BY <1>2 DEF AgreementInv, BeforeC2, AfterC2, C1Short, C1Whole, SentC1, SentC2, Drawn, C2
<1>6. EchoOnlyInS2'
  <2>1. piece \in Seq(Int) /\ \A i \in 1..Len(piece) : piece[i] # -1
    BY <1>3
  <2>2. CASE pc["server"] = "done"
    BY <1>2, <2>2 DEF EchoOnlyInS2
  <2>3. CASE pc["server"] # "done"
    BY <1>1, <1>2, <2>1, <2>3, WriteKeepsEchoOnlyInS2 DEF AgreementInv
  <2> QED
    BY <2>2, <2>3
<1>7. OwnDrawn' /\ ServerFirst'
  BY <1>2 DEF AgreementInv, OwnDrawn, ServerFirst, Done, Drawn
<1> QED
  BY <1>1, <1>4, <1>5, <1>6, <1>7 DEF AgreementInv

-----------------------------------------------------------------------------
(* The theorems.                                                             *)

\* Nothing has been sent when both Handshakers are new (handshaker.go:35-41).
LEMMA InitAgreement == Init => AgreementInv
<1> SUFFICES ASSUME Init PROVE AgreementInv
  OBVIOUS
<1>1. HandshakeTypeOK
  BY InitTypes
<1>2. BeforeC0 /\ BeforeC1 /\ BeforeC2 /\ AfterC2
  BY DEF Init, Ends, BeforeC0, BeforeC1, BeforeC2, AfterC2
<1>3. EchoOnlyInS2
  <2>1. Len(wire["client"]) = 0
    BY EmptySeq DEF Init, Ends
  <2> QED
    BY <2>1 DEF EchoOnlyInS2
<1>4. OwnDrawn /\ ServerFirst
  BY DEF Init, Ends, OwnDrawn, ServerFirst, Done, ClientSteps, ServerSteps
<1> QED
  BY <1>1, <1>2, <1>3, <1>4 DEF AgreementInv

\* The inductive invariant: what the server can still find on the wire, for
\* every function it can be in, and where the client's random data can be.
THEOREM HandshakeInvariant == Spec => []AgreementInv
<1>1. AgreementInv /\ [Next]_vars => AgreementInv'
  <2> SUFFICES ASSUME AgreementInv, [Next]_vars
               PROVE  AgreementInv'
    OBVIOUS
  <2>1. CASE doClientHandshake
    BY <2>1, SendC0Inv, SendC1Inv, ReceiveS0Inv, ReceiveS1Inv, SendC2Inv, ReceiveS2Inv
       DEF doClientHandshake
  <2>2. CASE doServerHandshake
    BY <2>2, ReceiveC0Inv, ReceiveC1Inv, SendS0Inv, SendS1Inv, ReceiveC2Inv, SendS2Inv
       DEF doServerHandshake
  <2>3. ASSUME NEW p \in Ends, ConnectionGone(p) \/ Breaks(p) PROVE AgreementInv'
    BY <2>3, FailInv
  <2>4. ASSUME NEW p \in Ends, CloseAfterError(p) \/ CloseUnderway(p) PROVE AgreementInv'
    BY <2>4, CloseInv
  <2>5. ASSUME NEW m \in Messages, Broadcast(m) PROVE AgreementInv'
    BY <2>5, BroadcastInv
  <2>7. ASSUME NEW n \in 1..Len(writing), WritePiece(n) PROVE AgreementInv'
    BY <2>7, PieceInv
  <2>6. CASE UNCHANGED vars
    <3>1. HandshakeTypeOK'
      BY NextTypes DEF AgreementInv
    <3>2. UNCHANGED <<pc, state, own, heard, wire, closed>>
      BY <2>6 DEF vars
    <3>3. BeforeC0' /\ BeforeC1' /\ BeforeC2' /\ AfterC2' /\ EchoOnlyInS2'
      BY <3>2 DEF AgreementInv, BeforeC0, BeforeC1, BeforeC2, AfterC2, EchoOnlyInS2,
                  C1Short, C1Whole, SentC1, SentC2, Drawn, C1, C2
    <3>4. OwnDrawn' /\ ServerFirst'
      BY <3>2 DEF AgreementInv, OwnDrawn, ServerFirst, Done, Drawn
    <3> QED
      BY <3>1, <3>3, <3>4 DEF AgreementInv
  <2> QED
    BY <2>1, <2>2, <2>3, <2>4, <2>5, <2>6, <2>7 DEF Next, Client, Server, Ends
<1> QED
  BY <1>1, InitAgreement, PTL DEF Spec

\* An end that reports success, and its peer, hold each other's true time and
\* random data: for every packet size, wherever the stream is cut and whatever
\* is written in between (handshaker.go:231, 281).
THEOREM HandshakeAgrees == Spec => []Agreement
<1>1. AgreementInv => Agreement
  BY DEF AgreementInv, ServerFirst, AfterC2, Agreement, Ends, Peer
<1> QED
  BY <1>1, HandshakeInvariant, PTL

-----------------------------------------------------------------------------
(* Induction, and what the messages written one after the other come to.     *)

\* A set of naturals that is not empty has a least element.
LEMMA LeastNatural ==
    ASSUME NEW T \in SUBSET Nat, T # {}
    PROVE  \E n \in T : \A m \in T : n <= m
<1> DEFINE R == OpToRel(<, Nat)
<1>1. IsWellFoundedOn(R, Nat)
  BY NatLessThanWellFounded, Zenon
<1>2. \E n \in T : \A m \in T : <<m, n>> \notin R
  <2> HIDE DEF R
  <2> QED
    BY <1>1, WFMin
<1>3. \A m, n \in Nat : <<m, n>> \notin R => n <= m
  BY DEF OpToRel
<1> QED
  BY <1>2, <1>3

\* Induction over the naturals, said of the set of those a fact holds for.
LEMMA SetInduction ==
    ASSUME NEW T, 0 \in T, \A n \in Nat : n \in T => n + 1 \in T
    PROVE  Nat \subseteq T
<1> SUFFICES ASSUME Nat \ T # {} PROVE FALSE
  OBVIOUS
<1>1. PICK n \in Nat \ T : \A m \in Nat \ T : n <= m
  BY LeastNatural
<1>2. n - 1 \in Nat /\ n - 1 < n
  BY <1>1
<1>3. n - 1 \in T
  BY <1>1, <1>2
<1> QED
  BY <1>1, <1>2, <1>3

\* g joins the first n members of ss, one at a time.
Joins(g, ss, n) == g = [i \in 1..n |-> IF i = 1 THEN ss[i] ELSE g[i-1] \o ss[i]]

\* There is one such function for every n.
LEMMA JoinsExists ==
    ASSUME NEW ss
    PROVE  \A n \in Nat : \E g : Joins(g, ss, n)
<1> DEFINE T == {n \in Nat : \E g : Joins(g, ss, n)}
<1>1. 0 \in T
  <2> DEFINE g == [i \in 1..0 |-> 0]
  <2>1. g = [i \in 1..0 |-> IF i = 1 THEN ss[i] ELSE g[i-1] \o ss[i]]
    OBVIOUS
  <2> QED
    BY <2>1 DEF Joins
<1>2. ASSUME NEW n \in Nat, n \in T PROVE n + 1 \in T
  <2>1. PICK g : Joins(g, ss, n)
    BY <1>2
  <2> DEFINE last == IF n = 0 THEN ss[1] ELSE g[n] \o ss[n+1]
             h == [i \in 1..(n+1) |-> IF i = n + 1 THEN last ELSE g[i]]
  <2>2. \A i \in 1..n : g[i] = IF i = 1 THEN ss[i] ELSE g[i-1] \o ss[i]
    BY <2>1, Zenon DEF Joins
  <2>3. ASSUME NEW i \in 1..(n+1)
        PROVE  h[i] = IF i = 1 THEN ss[i] ELSE h[i-1] \o ss[i]
    <3>1. CASE i = n + 1 /\ n = 0
      BY <3>1
    <3>2. CASE i = n + 1 /\ n # 0
      <4>1. n \in 1..(n+1) /\ n # n + 1 /\ i - 1 = n /\ i # 1
        BY <3>2
      <4>2. h[i] = last /\ last = g[n] \o ss[n+1]
        BY <3>2
      <4>3. h[n] = g[n]
        BY <4>1
      <4> QED
        BY <3>2, <4>1, <4>2, <4>3
    <3>3. CASE i # n + 1
      <4>1. i \in 1..n /\ h[i] = g[i]
        BY <3>3
      <4>2. i # 1 => i - 1 \in 1..n /\ h[i-1] = g[i-1]
        BY <3>3
      <4> QED
        BY <2>2, <4>1, <4>2
    <3> QED
      BY <3>1, <3>2, <3>3
  <2>4. h = [i \in 1..(n+1) |-> IF i = 1 THEN ss[i] ELSE h[i-1] \o ss[i]]
    <3> DEFINE k == [i \in 1..(n+1) |-> IF i = 1 THEN ss[i] ELSE h[i-1] \o ss[i]]
    <3>1. \A i \in 1..(n+1) : h[i] = k[i]
      BY <2>3
    <3> QED
      BY <3>1
  <2>5. Joins(h, ss, n + 1)
    <3> HIDE DEF h
    <3> QED BY <2>4 DEF Joins
  <2> QED
    BY <2>5
<1>3. Nat \subseteq T
  <2> HIDE DEF T
  <2> QED BY <1>1, <1>2, SetInduction
<1> QED
  BY <1>3

\* Two of them agree on the members that they have in common.
LEMMA JoinsAgree ==
    ASSUME NEW ss, NEW tt, NEW g, NEW h, NEW n \in Nat, NEW m \in Nat, n <= m,
           Joins(g, ss, n), Joins(h, tt, m), \A i \in 1..n : ss[i] = tt[i]
    PROVE  \A i \in 1..n : g[i] = h[i]
<1> DEFINE T == {k \in Nat : k \in 1..n => g[k] = h[k]}
<1>0. /\ \A i \in 1..n : g[i] = IF i = 1 THEN ss[i] ELSE g[i-1] \o ss[i]
      /\ \A i \in 1..m : h[i] = IF i = 1 THEN tt[i] ELSE h[i-1] \o tt[i]
  BY Zenon DEF Joins
<1>1. 0 \in T
  OBVIOUS
<1>2. ASSUME NEW k \in Nat, k \in T PROVE k + 1 \in T
  <2> SUFFICES ASSUME k + 1 \in 1..n PROVE g[k+1] = h[k+1]
    OBVIOUS
  <2>1. k + 1 \in 1..m /\ ss[k+1] = tt[k+1]
    OBVIOUS
  <2>2. CASE k = 0
    BY <1>0, <2>1, <2>2
  <2>3. CASE k # 0
    <3>1. g[k] = h[k] /\ (k + 1) - 1 = k /\ k + 1 # 1
      BY <1>2, <2>3
    <3> QED
      BY <1>0, <2>1, <3>1
  <2> QED
    BY <2>2, <2>3
<1>3. Nat \subseteq T
  <2> HIDE DEF T
  <2> QED BY <1>1, <1>2, SetInduction
<1> QED
  BY <1>3

\* FlattenSeq is the last of what is joined.
LEMMA FlattenIs ==
    ASSUME NEW ss, NEW n \in Nat, n # 0, Len(ss) = n, NEW g, Joins(g, ss, n)
    PROVE  FlattenSeq(ss) = g[n]
<1> DEFINE f == CHOOSE h : h = [i \in 1..n |-> IF i = 1 THEN ss[i] ELSE h[i-1] \o ss[i]]
<1>1. FlattenSeq(ss) = f[n]
  BY DEF FlattenSeq
<1>2. Joins(f, ss, n)
  BY JoinsExists, Zenon DEF Joins
<1>3. n \in 1..n
  OBVIOUS
<1> HIDE DEF f
<1>4. f[n] = g[n]
  BY <1>2, <1>3, JoinsAgree
<1> QED
  BY <1>1, <1>4

\* Nothing joined is nothing.
LEMMA FlattenNone == FlattenSeq(<<>>) = <<>>
BY EmptySeq DEF FlattenSeq

\* Joining one more sequence puts it at the end.
LEMMA FlattenAppend ==
    ASSUME NEW S, NEW ss \in Seq(Seq(S)), NEW s \in Seq(S)
    PROVE  FlattenSeq(Append(ss, s)) = FlattenSeq(ss) \o s
<1> DEFINE tt == Append(ss, s)
           n == Len(ss)
<1>1. /\ n \in Nat /\ Len(tt) = n + 1 /\ tt[n + 1] = s
      /\ \A i \in 1..n : ss[i] = tt[i]
  OBVIOUS
<1>2. PICK h : Joins(h, tt, n + 1)
  <2>1. n + 1 \in Nat
    BY <1>1
  <2> QED
    BY <2>1, JoinsExists, Zenon
<1>3. FlattenSeq(tt) = h[n + 1]
  <2> HIDE DEF tt, n
  <2> QED BY <1>1, <1>2, FlattenIs
<1>4. \A i \in 1..(n+1) : h[i] = IF i = 1 THEN tt[i] ELSE h[i-1] \o tt[i]
  BY <1>2, Zenon DEF Joins
<1>5. CASE n = 0
  <2>1. h[n + 1] = s
    BY <1>1, <1>4, <1>5
  <2>2. ss = <<>> /\ <<>> \o s = s
    BY <1>5
  <2>3. FlattenSeq(ss) \o s = s
    BY <2>2, FlattenNone
  <2> QED
    BY <1>3, <2>1, <2>3
<1>6. CASE n # 0
  <2>1. PICK g : Joins(g, ss, n)
    BY <1>1, JoinsExists
  <2>2. FlattenSeq(ss) = g[n]
    <3> HIDE DEF tt, n
    <3> QED BY <1>1, <1>6, <2>1, FlattenIs DEF n
  <2>3. g[n] = h[n]
    <3>1. n \in 1..n /\ n <= n + 1 /\ n + 1 \in Nat
      BY <1>1, <1>6
    <3> HIDE DEF tt, n
    <3> QED BY <1>1, <1>2, <2>1, <3>1, JoinsAgree
  <2>4. h[n + 1] = h[n] \o s
    <3>1. n + 1 \in 1..(n+1) /\ n + 1 # 1 /\ (n + 1) - 1 = n
      BY <1>1, <1>6
    <3> HIDE DEF tt, n
    <3> QED BY <1>1, <1>4, <3>1
  <2> QED
    BY <1>3, <2>2, <2>3, <2>4
<1> QED
  BY <1>5, <1>6

\* ... and is made of what they are made of.
LEMMA FlattenType ==
    ASSUME NEW S, NEW ss \in Seq(Seq(S))
    PROVE  FlattenSeq(ss) \in Seq(S)
<1>1. Len(ss) \in Nat /\ \A i \in 1..Len(ss) : ss[i] \in Seq(S)
  OBVIOUS
<1>2. PICK g : Joins(g, ss, Len(ss))
  BY <1>1, JoinsExists, Zenon
<1>3. \A i \in 1..Len(ss) : g[i] = IF i = 1 THEN ss[i] ELSE g[i-1] \o ss[i]
  BY <1>2, Zenon DEF Joins
<1> DEFINE T == {k \in Nat : k \in 1..Len(ss) => g[k] \in Seq(S)}
<1>4. 0 \in T
  OBVIOUS
<1>5. ASSUME NEW k \in Nat, k \in T PROVE k + 1 \in T
  <2> SUFFICES ASSUME k + 1 \in 1..Len(ss) PROVE g[k+1] \in Seq(S)
    OBVIOUS
  <2>1. CASE k = 0
    BY <1>1, <1>3, <2>1
  <2>2. CASE k # 0
    <3>1. (k + 1) - 1 = k /\ k + 1 # 1 /\ k \in 1..Len(ss)
      BY <2>2
    <3>2. g[k] \in Seq(S) /\ ss[k+1] \in Seq(S)
      BY <1>1, <1>5, <3>1
    <3>3. g[k+1] = g[k] \o ss[k+1]
      BY <1>3, <3>1
    <3> QED
      BY <3>2, <3>3, ConcatProperties
  <2> QED
    BY <2>1, <2>2
<1>6. Nat \subseteq T
  <2> HIDE DEF T
  <2> QED
    BY <1>4, <1>5, SetInduction
<1>7. CASE Len(ss) = 0
  <2>1. ss = <<>> /\ <<>> \in Seq(S)
    BY <1>7
  <2> QED
    BY <2>1, FlattenNone
<1>8. CASE Len(ss) # 0
  <2>1. FlattenSeq(ss) = g[Len(ss)]
    BY <1>1, <1>2, <1>8, FlattenIs
  <2>2. Len(ss) \in 1..Len(ss)
    BY <1>1, <1>8
  <2> QED
    BY <1>1, <1>6, <2>1, <2>2
<1> QED
  BY <1>7, <1>8

\* What k writes of the program, at most, may have left on the wire.
Stream(k) == {FlattenSeq(ms) : ms \in SeqOf(Messages, k)}

\* The messages are sequences of sequences of units.
LEMMA StreamOfMessages ==
    ASSUME NEW k \in Nat, NEW ms \in SeqOf(Messages, k)
    PROVE  ms \in Seq(Messages) /\ ms \in Seq(Seq(Int)) /\ Len(ms) <= k
<1>1. PICK n \in 0..k : ms \in [1..n -> Messages]
  BY DEF SeqOf
<1>2. Messages \subseteq Seq(Int)
  BY HandshakeAssumption
<1> QED
  BY <1>1, <1>2

\* Nothing is left when nothing has been written.
LEMMA StreamEmpty ==
    ASSUME NEW k \in Nat
    PROVE  <<>> \in Stream(k)
<1>1. <<>> \in [1..0 -> Messages] /\ 0 \in 0..k
  OBVIOUS
<1>2. <<>> \in SeqOf(Messages, k)
  BY <1>1 DEF SeqOf
<1> QED
  BY <1>2, FlattenNone DEF Stream

\* One more message makes one more.
LEMMA StreamGrows ==
    ASSUME NEW k \in Nat, NEW s \in Stream(k), NEW m \in Messages
    PROVE  s \o m \in Stream(k + 1)
<1>1. PICK ms \in SeqOf(Messages, k) : s = FlattenSeq(ms)
  BY DEF Stream
<1>2. ms \in Seq(Messages) /\ ms \in Seq(Seq(Int)) /\ Len(ms) <= k
  BY StreamOfMessages
<1>3. m \in Seq(Int)
  BY HandshakeAssumption
<1>4. s \o m = FlattenSeq(Append(ms, m))
  BY <1>1, <1>2, <1>3, FlattenAppend
<1>5. Append(ms, m) \in SeqOf(Messages, k + 1)
  <2>1. Append(ms, m) \in Seq(Messages) /\ Len(Append(ms, m)) = Len(ms) + 1
    BY <1>2
  <2>2. Len(ms) + 1 \in 0..(k + 1)
    BY <1>2
  <2>3. Append(ms, m) \in [1..(Len(ms) + 1) -> Messages]
    <3> DEFINE t == Append(ms, m)
    <3>1. t \in Seq(Messages) /\ Len(t) = Len(ms) + 1
      BY <2>1
    <3> HIDE DEF t
    <3>2. t \in [1..Len(t) -> Messages]
      BY <3>1, LenProperties
    <3> QED
      BY <3>1, <3>2 DEF t
  <2> QED
    BY <2>2, <2>3 DEF SeqOf
<1> QED
  BY <1>4, <1>5 DEF Stream

\* It is a stream of units, and a stream of more writes too.
LEMMA StreamType ==
    ASSUME NEW k \in Nat, NEW s \in Stream(k)
    PROVE  s \in Seq(Int)
BY StreamOfMessages, FlattenType DEF Stream

-----------------------------------------------------------------------------
(* Lengths: what the ends have sent and taken, and what is on its way.       *)

\* Units written by the functions an end has left, and units that those which
\* read may have taken (handshaker.go:67-152).
SentByClient ==
    IF pc["client"] = "sendC0" THEN 0
    ELSE IF pc["client"] = "sendC1" THEN 1
    ELSE IF pc["client"] \in {"receiveS0", "receiveS1", "sendC2"} THEN 1 + PacketSize
    ELSE 1 + PacketSize + PacketSize
SentByServer ==
    IF pc["server"] \in {"receiveC0", "receiveC1", "sendS0"} THEN 0
    ELSE IF pc["server"] = "sendS1" THEN 1
    ELSE IF pc["server"] \in {"receiveC2", "sendS2"} THEN 1 + PacketSize
    ELSE 1 + PacketSize + PacketSize
TakenByClient ==
    IF pc["client"] \in {"sendC0", "sendC1", "receiveS0"} THEN 0
    ELSE IF pc["client"] = "receiveS1" THEN 1
    ELSE IF pc["client"] \in {"sendC2", "receiveS2"} THEN 1 + PacketSize
    ELSE 1 + PacketSize + PacketSize
TakenByServer ==
    IF pc["server"] = "receiveC0" THEN 0
    ELSE IF pc["server"] = "receiveC1" THEN 1
    ELSE IF pc["server"] \in {"sendS0", "sendS1", "receiveC2"} THEN 1 + PacketSize
    ELSE 1 + PacketSize + PacketSize

\* The lengths that a Write and a Read leave.
LEMMA WriteLengths ==
    ASSUME HandshakeTypeOK, NEW p \in Ends, NEW units \in Seq(Int), Write(p, units),
           ~closed[Peer(p)]
    PROVE  /\ Len(wire'[p]) = Len(wire[p])
           /\ Len(wire'[Peer(p)]) = Len(wire[Peer(p)]) + Len(units)
           /\ closed' = closed
<1>1. wire[Peer(p)] \in Seq(Int)
  BY DEF HandshakeTypeOK, Peer, Ends, Units
<1>2. Len(wire[Peer(p)] \o units) = Len(wire[Peer(p)]) + Len(units)
  BY <1>1, ConcatProperties
<1> QED
  BY <1>2, WriteEffect

LEMMA ReadLengths ==
    ASSUME HandshakeTypeOK, NEW p \in Ends, NEW n \in Nat \ {0}, NEW size \in Nat,
           Read(p, n, size)
    PROVE  /\ Len(wire'[p]) = Len(wire[p]) - n
           /\ n <= size
           /\ Len(wire'[Peer(p)]) = Len(wire[Peer(p)])
           /\ closed' = closed
<1>1. wire[p] \in Seq(Int) /\ n \in 1..Len(wire[p])
  BY DEF HandshakeTypeOK, Units, Read
<1>2. Len(SubSeq(wire[p], n + 1, Len(wire[p]))) = Len(wire[p]) - n
  BY <1>1, ReadCut
<1> QED
  BY <1>2, ReadEffect DEF Read

\* How long C1, S1 and the echoes are.
LEMMA PacketLengths ==
    ASSUME HandshakeTypeOK
    PROVE  /\ \A p \in Ends : Packet(heard[p]) \in Seq(Int) /\ Len(Packet(heard[p])) = PacketSize
           /\ \A p \in Ends, t \in Times :
                /\ Packet([time |-> t, random |-> Random(p)]) \in Seq(Int)
                /\ Len(Packet([time |-> t, random |-> Random(p)])) = PacketSize
<1>1. \A p \in Ends : heard[p] \in Identities
  BY DEF HandshakeTypeOK
<1> QED
  BY <1>1, OwnType, PacketLayout

\* The length of a queue is a natural number.
LEMMA WireLengths ==
    HandshakeTypeOK => Len(wire["client"]) \in Nat /\ Len(wire["server"]) \in Nat
BY DEF HandshakeTypeOK, Ends, Units

\* All four accounts are natural numbers.
LEMMA AccountTypes ==
    /\ SentByClient \in Nat /\ SentByServer \in Nat
    /\ TakenByClient \in Nat /\ TakenByServer \in Nat
BY Sizes DEF SentByClient, SentByServer, TakenByClient, TakenByServer

-----------------------------------------------------------------------------
(* The hand-over.  Of all that WriteMessage has written so far, `text`, none *)
(* may have been taken for a part of the handshake.  Bytes are what tells: a *)
(* client that has the server's true random data has read S1 whole, and      *)
(* while it is to succeed, what is on its wire and what it has taken make up *)
(* what the server has sent and the text.  When the server has sent its S2,  *)
(* the client has one Read left, and the units before S2 have none of the    *)
(* client's random data; so the Read finds the echo exactly if it starts at  *)
(* S2 and gets all of it, and what it leaves, the end of the text, is then   *)
(* as long as the text.                                                      *)

\* With what is still to be written, the text is whole messages.
Begun(text) == text \o writing \in Stream(broadcasts)

\* What the server does still reaches the client.
Connected == ~closed["client"] /\ pc["server"] # "failed"

\* The client may yet succeed.
OnTrack ==
    /\ pc["client"] \in ClientSteps
    /\ pc["client"] \in {"sendC2", "receiveS2"} => heard["client"].random = Random("server")

Counted(text) ==
    Connected /\ OnTrack =>
        Len(wire["client"]) + TakenByClient = SentByServer + Len(text)

S2OnWire(text) ==
    ~closed["client"] /\ pc["server"] = "done" /\ pc["client"] = "receiveS2" =>
        \E before \in Seq(Int), gone \in Seq(Int), after \in Seq(Int) :
            /\ \A i \in 1..Len(before) : before[i] # -1
            /\ wire["client"] = before \o (C1 \o after)
            /\ text = gone \o after

Account(text) == Begun(text) /\ Counted(text) /\ S2OnWire(text)

AfterS2 == pc["client"] = "done" => wire["client"] \o writing \in Stream(broadcasts)

BoundaryInv == (\E text \in Seq(Int) : Account(text)) /\ AfterS2

\* The count of the writes is a natural number.
LEMMA BroadcastsNatural == HandshakeTypeOK => broadcasts \in Nat
BY HandshakeAssumption DEF HandshakeTypeOK

\* A step of the handshake writes no text.
LEMMA SameText ==
    ASSUME UNCHANGED <<writing, broadcasts>>, pc'["client"] # "done",
           NEW text \in Seq(Int), Begun(text), Counted(text)', S2OnWire(text)'
    PROVE  BoundaryInv'
BY Zenon DEF BoundaryInv, Account, AfterS2, Begun

\* Random data is no zeros, so that a Read that finds it fills the buffer
\* (handshaker.go:231, 281).
LEMMA FullRead ==
    ASSUME NEW units \in Seq(Int), NEW p \in Ends, Len(units) <= PacketSize,
           Identity(Buffer(units)).random = Random(p)
    PROVE  Len(units) = PacketSize
<1>1. /\ Buffer(units) \in Seq(Int) /\ Len(Buffer(units)) = PacketSize
      /\ Buffer(units)[PacketSize] = IF PacketSize <= Len(units) THEN units[PacketSize] ELSE 0
  BY Sizes, BufferLayout
<1>2. RandomSize \in 1..RandomSize /\ RandomSize + 2 = PacketSize
  BY Sizes
<1>3. Identity(Buffer(units)).random[RandomSize] = Buffer(units)[PacketSize]
  BY <1>1, <1>2, IdentityLayout
<1>4. Random(p)[RandomSize] < 0
  BY <1>2, RandomType
<1> QED
  BY <1>1, <1>3, <1>4, Sizes

\* The client's functions before its last leave what the server does alone.
LEMMA ClientCounts ==
    ASSUME AgreementInv, BoundaryInv,
           \/ sendC0 \/ receiveS0 \/ sendC2
           \/ \E t \in Times : sendC1(t)
           \/ \E n \in 1..PacketSize : receiveS1(n)
    PROVE  BoundaryInv'
<1> USE DEF Ends, Peer
<1>1. HandshakeTypeOK /\ PacketSize \in Nat /\ Len(wire["client"]) \in Nat
  BY Sizes, WireLengths DEF AgreementInv
<1>2. PICK text \in Seq(Int) : Account(text)
  BY DEF BoundaryInv
<1>3. Begun(text) /\ Counted(text) /\ Len(text) \in Nat
  BY <1>2 DEF Account
<1>4. SentByServer \in Nat /\ (pc'["server"] = pc["server"] => SentByServer' = SentByServer)
  BY AccountTypes DEF SentByServer
<1>5. CASE sendC0 \/ \E t \in Times : sendC1(t)
  <2>1. /\ pc["client"] \in {"sendC0", "sendC1"} /\ pc'["client"] \in {"sendC1", "receiveS0"}
        /\ pc'["server"] = pc["server"]
        /\ UNCHANGED <<closed, writing, broadcasts>>
        /\ wire'["client"] = wire["client"]
    BY <1>1, <1>5, ProceedEffect, WriteEffect
       DEF sendC0, sendC1, SendVersion, SendIdentity, Write
  <2>2. TakenByClient' = 0 /\ TakenByClient = 0
    BY <2>1 DEF TakenByClient
  <2>3. Connected' = Connected /\ OnTrack
    BY <2>1 DEF Connected, OnTrack, ClientSteps
  <2>4. Counted(text)'
    BY <1>3, <1>4, <2>1, <2>2, <2>3 DEF Counted
  <2>5. S2OnWire(text)'
    BY <2>1 DEF S2OnWire
  <2> QED
    BY <1>3, <2>1, <2>4, <2>5, SameText
<1>6. CASE receiveS0
  <2>1. /\ pc["client"] = "receiveS0" /\ pc'["client"] \in {"receiveS1", "failed"}
        /\ pc'["server"] = pc["server"]
        /\ UNCHANGED <<closed, writing, broadcasts>>
    BY <1>1, <1>6, ProceedEffect, FailEffect DEF receiveS0, ReceiveVersion, Read
  <2>2. Len(wire'["client"]) = Len(wire["client"]) - 1
    <3>1. Read("client", 1, 1)
      BY <1>6 DEF receiveS0, ReceiveVersion
    <3> QED
      BY <1>1, <3>1, ReadLengths
  <2>3. TakenByClient = 0 /\ (pc'["client"] = "receiveS1" => TakenByClient' = 1)
    BY <2>1 DEF TakenByClient
  <2>4. Connected' = Connected /\ OnTrack
    BY <2>1 DEF Connected, OnTrack, ClientSteps
  <2>5. OnTrack' => pc'["client"] = "receiveS1"
    BY <2>1 DEF OnTrack, ClientSteps
  <2>6. Counted(text)'
    BY <1>1, <1>3, <1>4, <2>1, <2>2, <2>3, <2>4, <2>5 DEF Counted
  <2>7. S2OnWire(text)'
    BY <2>1 DEF S2OnWire
  <2> QED
    BY <1>3, <2>1, <2>6, <2>7, SameText
<1>7. ASSUME NEW n \in 1..PacketSize, receiveS1(n)
      PROVE  BoundaryInv'
  <2>1. /\ pc["client"] = "receiveS1" /\ pc'["client"] = "sendC2"
        /\ pc'["server"] = pc["server"]
        /\ UNCHANGED <<closed, writing, broadcasts>>
        /\ heard'["client"] = Identity(Arrived("client", n))
    BY <1>1, <1>7, ProceedEffect DEF receiveS1, ReceiveIdentity, Read, HandshakeTypeOK
  <2>2. Read("client", n, PacketSize) /\ n \in Nat \ {0}
    BY <1>7, ReadSizes DEF receiveS1, ReceiveIdentity
  <2>3. Len(wire'["client"]) = Len(wire["client"]) - n
    BY <1>1, <2>2, ReadLengths
  <2>4. TakenByClient = 1 /\ TakenByClient' = 1 + PacketSize
    BY <2>1 DEF TakenByClient
  <2>5. Connected' = Connected /\ OnTrack
    BY <2>1 DEF Connected, OnTrack, ClientSteps
  <2>6. ASSUME OnTrack' PROVE n = PacketSize
    <3>1. n \in 1..Len(wire["client"]) /\ wire["client"] \in Seq(Int)
      BY <1>1, <2>2, ReadType DEF HandshakeTypeOK, Units
    <3>2. /\ SubSeq(wire["client"], 1, n) \in Seq(Int)
          /\ Len(SubSeq(wire["client"], 1, n)) = n
      BY <3>1, ReadCut
    <3>3. Identity(Buffer(SubSeq(wire["client"], 1, n))).random = Random("server")
      BY <2>1, <2>6 DEF OnTrack, Arrived
    <3>4. n <= PacketSize
      BY <1>1
    <3> QED
      BY <3>2, <3>3, <3>4, FullRead
  <2>7. Counted(text)'
    <3> SUFFICES ASSUME Connected', OnTrack'
                 PROVE  Len(wire'["client"]) + TakenByClient' = SentByServer' + Len(text)
      BY Zenon DEF Counted
    <3>1. Len(wire["client"]) + TakenByClient = SentByServer + Len(text)
      BY <1>3, <2>5, Zenon DEF Counted
    <3>2. n = PacketSize /\ SentByServer' = SentByServer
      BY <1>4, <2>1, <2>6
    <3>3. Len(wire'["client"]) = Len(wire["client"]) - PacketSize
      BY <2>3, <3>2, Zenon
    <3>4. Len(wire["client"]) + 1 = SentByServer + Len(text)
      BY <2>4, <3>1, Zenon
    <3>5. (Len(wire["client"]) - PacketSize) + (1 + PacketSize) = SentByServer + Len(text)
      <4> DEFINE a == Len(wire["client"])
                 b == PacketSize
                 s == SentByServer
                 l == Len(text)
      <4>1. a \in Nat /\ b \in Nat /\ s \in Nat /\ l \in Nat /\ a + 1 = s + l
        BY <1>1, <1>3, <1>4, <3>4, Zenon
      <4> HIDE DEF a, b, s, l
      <4>2. (a - b) + (1 + b) = s + l
        BY <4>1
      <4> QED
        BY <4>2 DEF a, b, s, l
    <3> QED
      BY <2>4, <3>2, <3>3, <3>5, Zenon
  <2>8. S2OnWire(text)'
    BY <2>1 DEF S2OnWire
  <2> QED
    BY <1>3, <2>1, <2>7, <2>8, SameText
<1>8. CASE sendC2
  <2>1. /\ pc["client"] = "sendC2" /\ pc'["client"] = "receiveS2"
        /\ pc'["server"] = pc["server"]
        /\ UNCHANGED <<closed, writing, broadcasts, heard>>
        /\ wire'["client"] = wire["client"]
    BY <1>1, <1>8, ProceedEffect, WriteEffect DEF sendC2, SendEcho, Write
  <2>2. TakenByClient' = TakenByClient
    BY <2>1 DEF TakenByClient
  <2>3. Connected' = Connected /\ (OnTrack' => OnTrack)
    BY <2>1 DEF Connected, OnTrack, ClientSteps
  <2>4. Counted(text)'
    BY <1>3, <1>4, <2>1, <2>2, <2>3 DEF Counted
  <2>5. S2OnWire(text)'
    BY <2>1 DEF AgreementInv, AfterC2, S2OnWire
  <2> QED
    BY <1>3, <2>1, <2>4, <2>5, SameText
<1> QED
  BY <1>5, <1>6, <1>7, <1>8

\* The Read of S2 that finds the echo takes S2 off the wire, whole and alone
\* (handshaker.go:324-340).
LEMMA EchoReadWhole ==
    ASSUME NEW wired \in Seq(Int), NEW before \in Seq(Int), NEW after \in Seq(Int),
           NEW id \in Identities, id.time \in Nat, \A i \in 1..RandomSize : id.random[i] = -1,
           \A i \in 1..Len(before) : before[i] # -1,
           wired = before \o (Packet(id) \o after),
           NEW n \in 1..PacketSize, n <= Len(wired),
           Identity(Buffer(SubSeq(wired, 1, n))) = id
    PROVE  SubSeq(wired, n + 1, Len(wired)) = after
<1> DEFINE units == SubSeq(wired, 1, n)
           got == Buffer(units)
<1>1. n \in 1..Len(wired) /\ n \in Nat /\ n >= 1 /\ n <= PacketSize
  BY Sizes
<1>2. /\ units \in Seq(Int) /\ Len(units) = n
      /\ \A i \in 1..n : units[i] = wired[i]
  BY <1>1, ReadCut
<1>3. /\ got \in Seq(Int) /\ Len(got) = PacketSize
      /\ \A i \in 1..PacketSize : got[i] = IF i <= n THEN units[i] ELSE 0
  <2> HIDE DEF units
  <2> QED
    BY <1>2, BufferLayout
<1>4. ASSUME NEW i \in 3..PacketSize PROVE i <= n /\ wired[i] = -1
  <2>1. i - 2 \in 1..RandomSize /\ (i - 2) + 2 = i /\ i \in 1..PacketSize /\ i \in Nat
    BY Sizes
  <2>2. Identity(got).random[i - 2] = got[(i - 2) + 2]
    <3> HIDE DEF got
    <3> QED
      BY <1>3, <2>1, IdentityLayout
  <2>3. got[i] = -1
    BY <2>1, <2>2
  <2>4. i <= n
    BY <1>3, <2>1, <2>3
  <2>5. i \in 1..n
    BY <1>1, <2>1, <2>4
  <2> HIDE DEF units, got
  <2> QED
    BY <1>2, <1>3, <2>1, <2>3, <2>4, <2>5
<1>5. n = PacketSize /\ wired[3] = -1 /\ 3 <= n
  <2>1. PacketSize \in 3..PacketSize /\ 3 \in 3..PacketSize
    BY Sizes
  <2> QED
    BY <1>1, <1>4, <2>1
<1>6. Packet(id) \in Seq(Int) /\ Len(Packet(id)) = PacketSize
  BY PacketLayout
<1>7. Packet(id) \o after \in Seq(Int) /\ Len(Packet(id) \o after) = PacketSize + Len(after)
  BY <1>6, LengthJoined, Zenon
<1>8. Len(before) = 0
  <2> DEFINE rest == Packet(id) \o after
             b == Len(before)
  <2> SUFFICES ASSUME b # 0 PROVE FALSE
    OBVIOUS
  <2>1. b \in Nat /\ b >= 1
    OBVIOUS
  <2>2. /\ Len(wired) = b + Len(rest)
        /\ \A i \in 1..(b + Len(rest)) :
              wired[i] = IF i <= b THEN before[i] ELSE rest[i - b]
    BY <1>7, ConcatProperties
  <2>3. b <= 2
    <3> SUFFICES ASSUME b >= 3 PROVE FALSE
      BY <2>1
    <3>1. 3 \in 1..b /\ 3 \in 1..(b + Len(rest))
      BY <1>7, <2>1
    <3>2. wired[3] = before[3] /\ before[3] # -1
      BY <2>2, <3>1
    <3> QED
      BY <1>5, <3>2
  <2>4. 3 - b \in {1, 2} /\ 3 \in 1..(b + Len(rest)) /\ ~(3 <= b)
    <3>1. Len(rest) \in Nat /\ Len(rest) >= 3
      <4>1. Len(after) \in Nat /\ Len(rest) = PacketSize + Len(after)
        BY <1>7
      <4> HIDE DEF rest
      <4> QED
        BY <4>1, Sizes
    <3> HIDE DEF rest, b
    <3> QED
      BY <2>1, <2>3, <3>1
  <2>5. wired[3] = rest[3 - b]
    <3> HIDE DEF rest, b
    <3> QED
      BY <2>2, <2>4
  <2> DEFINE k == 3 - b
  <2>6. k \in 1..PacketSize /\ k \in 1..(PacketSize + Len(after)) /\ k <= Len(Packet(id))
    BY <1>6, <2>4, Sizes
  <2>7. rest[k] = Packet(id)[k]
    <3> HIDE DEF k, b
    <3> QED
      BY <1>6, <2>6, ConcatProperties
  <2>8. Packet(id)[1] # -1 /\ Packet(id)[2] # -1
    <3>1. Packet(id)[1] = id.time /\ Packet(id)[2] = 0
      BY PacketLayout, Zenon
    <3>2. id.time # -1
      OBVIOUS
    <3> QED
      BY <3>1, <3>2
  <2> QED
    BY <1>5, <2>4, <2>5, <2>7, <2>8
<1>9. wired = Packet(id) \o after
  <2>1. before = <<>>
    BY <1>8
  <2> QED
    BY <1>7, <2>1, JoinedOnWire
<1> DEFINE packet == Packet(id)
<1>10. packet \in Seq(Int) /\ Len(packet) = PacketSize /\ wired = packet \o after
  BY <1>6, <1>9
<1>11. got = Buffer(SubSeq(wired, 1, PacketSize))
  BY <1>5
<1> HIDE DEF packet, got
<1>12. /\ Buffer(SubSeq(wired, 1, PacketSize)) = packet
       /\ SubSeq(wired, PacketSize + 1, Len(wired)) = after
  <2>1. /\ Buffer(SubSeq(packet \o after, 1, PacketSize)) = packet
        /\ SubSeq(packet \o after, PacketSize + 1, Len(packet \o after)) = after
    BY <1>10, WholePacket
  <2> QED
    BY <1>10, <2>1, Zenon
<1> QED
  BY <1>5, <1>11, <1>12 DEF packet

\* The client's last Read (handshaker.go:100-106).
LEMMA ReceiveS2Boundary ==
    ASSUME AgreementInv, BoundaryInv, NEW n \in 1..PacketSize, receiveS2(n)
    PROVE  BoundaryInv'
<1> USE DEF Ends
<1>1. HandshakeTypeOK /\ AgreementInv'
  BY ReceiveS2Inv DEF AgreementInv
<1>2. /\ pc["client"] = "receiveS2"
      /\ pc'["client"] \in {"done", "failed"} /\ pc'["server"] = pc["server"]
      /\ UNCHANGED <<own, heard, writing, broadcasts>>
      /\ pc'["client"] = "done" => Identity(Arrived("client", n)) = own["client"]
  BY <1>1, ProceedEffect, FailEffect DEF receiveS2, ReceiveEcho, Peer, EchoMatches, Read
<1>3. /\ wire'["client"] = SubSeq(wire["client"], n + 1, Len(wire["client"]))
      /\ n <= Len(wire["client"])
      /\ ~closed["client"]
  BY <1>1, ReadEffect DEF receiveS2, ReceiveEcho
<1>4. PICK text \in Seq(Int) : Account(text)
  BY DEF BoundaryInv
<1>5. Begun(text) /\ Counted(text) /\ S2OnWire(text)
  BY <1>4 DEF Account
<1>6. Counted(text)' /\ S2OnWire(text)'
  BY <1>2 DEF Counted, OnTrack, ClientSteps, S2OnWire
<1>7. ASSUME pc'["client"] = "done" PROVE wire'["client"] = text
  <2>1. pc["server"] = "done"
    BY <1>1, <1>2, <1>7 DEF AgreementInv, ServerFirst
  <2>2. PICK before \in Seq(Int), gone \in Seq(Int), after \in Seq(Int) :
            /\ \A i \in 1..Len(before) : before[i] # -1
            /\ wire["client"] = before \o (C1 \o after)
            /\ text = gone \o after
    BY <1>2, <1>3, <1>5, <2>1 DEF S2OnWire
  <2>3. wire["client"] \in Seq(Int)
    BY <1>1 DEF HandshakeTypeOK, Units
  <2>4. /\ own["client"] \in Identities /\ own["client"].time \in Nat
        /\ own["client"].random = Random("client")
        /\ \A i \in 1..RandomSize : own["client"].random[i] = -1
    BY <1>1, <1>2, TimesPositive DEF AgreementInv, OwnDrawn, Drawn, Random, HandshakeTypeOK
  <2>5. Identity(Buffer(SubSeq(wire["client"], 1, n))) = own["client"]
    BY <1>2, <1>7 DEF Arrived
  <2>6. SubSeq(wire["client"], n + 1, Len(wire["client"])) = after
    <3>1. wire["client"] = before \o (Packet(own["client"]) \o after)
      BY <2>2 DEF C1
    <3> DEFINE wired == wire["client"]
               id == own["client"]
    <3>2. /\ wired \in Seq(Int) /\ id \in Identities /\ id.time \in Nat
          /\ \A i \in 1..RandomSize : id.random[i] = -1
          /\ \A i \in 1..Len(before) : before[i] # -1
          /\ wired = before \o (Packet(id) \o after)
          /\ n <= Len(wired)
          /\ Identity(Buffer(SubSeq(wired, 1, n))) = id
      BY <1>3, <2>2, <2>3, <2>4, <2>5, <3>1
    <3> HIDE DEF wired, id
    <3>3. SubSeq(wired, n + 1, Len(wired)) = after
      BY <3>2, EchoReadWhole
    <3> QED
      BY <3>3 DEF wired
  <2>7. Len(after) = Len(text)
    <3>1. n \in 1..Len(wire["client"]) /\ PacketSize \in Nat
      BY <1>3, <2>3, Sizes
    <3>2. /\ SubSeq(wire["client"], 1, n) \in Seq(Int)
          /\ Len(SubSeq(wire["client"], 1, n)) = n
          /\ Len(SubSeq(wire["client"], n + 1, Len(wire["client"]))) = Len(wire["client"]) - n
      BY <2>3, <3>1, ReadCut
    <3>3. n = PacketSize
      <4>1. n <= PacketSize
        BY <3>1
      <4> QED
        BY <2>4, <2>5, <3>2, <4>1, FullRead
    <3>4. Connected /\ OnTrack
      BY <1>1, <1>2, <1>3, <2>1
         DEF AgreementInv, AfterC2, OwnDrawn, Drawn, Connected, OnTrack, ClientSteps
    <3>5. TakenByClient = 1 + PacketSize /\ SentByServer = 1 + PacketSize + PacketSize
      BY <1>2, <2>1 DEF TakenByClient, SentByServer
    <3>6. Len(wire["client"]) + TakenByClient = SentByServer + Len(text)
      BY <1>5, <3>4 DEF Counted
    <3>7. Len(wire["client"]) \in Nat /\ Len(text) \in Nat
      BY <2>3
    <3>8. Len(after) = Len(wire["client"]) - PacketSize
      BY <2>6, <3>2, <3>3, Zenon
    <3>9. Len(wire["client"]) + (1 + PacketSize) = (1 + PacketSize + PacketSize) + Len(text)
      BY <3>5, <3>6, Zenon
    <3>10. Len(wire["client"]) - PacketSize = Len(text)
      <4> DEFINE a == Len(wire["client"])
                 b == PacketSize
                 l == Len(text)
      <4>1. a \in Nat /\ b \in Nat /\ l \in Nat /\ a + (1 + b) = (1 + b + b) + l
        BY <3>1, <3>7, <3>9, Zenon
      <4> HIDE DEF a, b, l
      <4>2. a - b = l
        BY <4>1
      <4> QED
        BY <4>2 DEF a, b, l
    <3> QED
      BY <3>8, <3>10, Zenon
  <2>8. text = after
    <3>1. Len(gone) = 0 /\ gone = <<>>
      BY <2>2, <2>7, ConcatProperties
    <3> QED
      BY <2>2, <3>1, JoinedOnWire
  <2> QED
    BY <1>3, <2>6, <2>8
<1>8. AfterS2' /\ Begun(text)'
  BY <1>2, <1>5, <1>7, Zenon DEF AfterS2, Begun
<1> QED
  BY <1>6, <1>8, Zenon DEF BoundaryInv, Account

\* The server's functions before its last only read, or send S0 and S1.
LEMMA ServerCounts ==
    ASSUME AgreementInv, BoundaryInv,
           \/ receiveC0 \/ sendS0
           \/ \E t \in Times : sendS1(t)
           \/ \E n \in 1..PacketSize : receiveC1(n) \/ receiveC2(n)
    PROVE  BoundaryInv'
<1> USE DEF Ends, Peer
<1>1. HandshakeTypeOK /\ PacketSize \in Nat /\ Len(wire["client"]) \in Nat
  BY Sizes, WireLengths DEF AgreementInv
<1>2. PICK text \in Seq(Int) : Account(text)
  BY DEF BoundaryInv
<1>3. Begun(text) /\ Counted(text) /\ Len(text) \in Nat
  BY <1>2 DEF Account
<1>4. TakenByClient \in Nat /\ (pc'["client"] = pc["client"] => TakenByClient' = TakenByClient)
  BY AccountTypes DEF TakenByClient
<1>5. pc["server"] \in ServerSteps => pc["client"] # "done"
  BY DEF AgreementInv, ServerFirst, ServerSteps
<1>6. CASE sendS0
  <2>1. /\ pc["server"] = "sendS0" /\ pc'["server"] = "sendS1"
        /\ pc'["client"] = pc["client"]
        /\ UNCHANGED <<heard, writing, broadcasts>>
    BY <1>1, <1>6, ProceedEffect DEF sendS0, SendVersion, Write
  <2>2. closed' = closed
    BY <1>1, <1>6, WriteEffect DEF sendS0, SendVersion
  <2>3. ASSUME ~closed["client"]
        PROVE  Len(wire'["client"]) = Len(wire["client"]) + 1
    <3>1. <<HandshakeVersion>> \in Seq(Int) /\ Len(<<HandshakeVersion>>) = 1
      BY DEF HandshakeVersion
    <3> QED
      BY <1>1, <1>6, <2>3, <3>1, WriteLengths DEF sendS0, SendVersion
  <2>4. SentByServer = 0 /\ SentByServer' = 1
    BY <2>1 DEF SentByServer
  <2>5. (Connected' => Connected /\ ~closed["client"]) /\ OnTrack' = OnTrack
    BY <2>1, <2>2 DEF Connected, OnTrack
  <2>6. Counted(text)'
    <3> SUFFICES ASSUME Connected', OnTrack'
                 PROVE  Len(wire'["client"]) + TakenByClient' = SentByServer' + Len(text)
      BY Zenon DEF Counted
    <3>1. Len(wire["client"]) + TakenByClient = 0 + Len(text)
      BY <1>3, <2>4, <2>5, Zenon DEF Counted
    <3>2. Len(wire'["client"]) = Len(wire["client"]) + 1 /\ TakenByClient' = TakenByClient
      BY <1>4, <2>1, <2>3, <2>5
    <3>3. (Len(wire["client"]) + 1) + TakenByClient = 1 + Len(text)
      BY <1>1, <1>3, <1>4, <3>1
    <3> QED
      BY <2>4, <3>2, <3>3, Zenon
  <2>7. S2OnWire(text)' /\ pc'["client"] # "done"
    BY <1>5, <2>1 DEF S2OnWire, ServerSteps
  <2> QED
    BY <1>3, <2>1, <2>6, <2>7, SameText
<1>7. ASSUME NEW t \in Times, sendS1(t) PROVE BoundaryInv'
  <2>1. /\ pc["server"] = "sendS1" /\ pc'["server"] = "receiveC2"
        /\ pc'["client"] = pc["client"]
        /\ UNCHANGED <<heard, writing, broadcasts>>
    BY <1>1, <1>7, ProceedEffect DEF sendS1, SendIdentity, Write
  <2>2. closed' = closed
    BY <1>1, <1>7, WriteEffect DEF sendS1, SendIdentity
  <2>3. ASSUME ~closed["client"]
        PROVE  Len(wire'["client"]) = Len(wire["client"]) + PacketSize
    <3> DEFINE s1 == Packet([time |-> t, random |-> Random("server")])
    <3>1. Write("server", s1)
      BY <1>7 DEF sendS1, SendIdentity
    <3>2. s1 \in Seq(Int) /\ Len(s1) = PacketSize
      BY <1>1, PacketLengths
    <3> HIDE DEF s1
    <3> QED
      BY <1>1, <2>3, <3>1, <3>2, WriteLengths
  <2>4. SentByServer = 1 /\ SentByServer' = 1 + PacketSize
    BY <2>1 DEF SentByServer
  <2>5. (Connected' => Connected /\ ~closed["client"]) /\ OnTrack' = OnTrack
    BY <2>1, <2>2 DEF Connected, OnTrack
  <2>6. Counted(text)'
    <3> SUFFICES ASSUME Connected', OnTrack'
                 PROVE  Len(wire'["client"]) + TakenByClient' = SentByServer' + Len(text)
      BY Zenon DEF Counted
    <3>1. Len(wire["client"]) + TakenByClient = 1 + Len(text)
      BY <1>3, <2>4, <2>5, Zenon DEF Counted
    <3>2. Len(wire'["client"]) = Len(wire["client"]) + PacketSize /\ TakenByClient' = TakenByClient
      BY <1>4, <2>1, <2>3, <2>5
    <3>3. (Len(wire["client"]) + PacketSize) + TakenByClient = (1 + PacketSize) + Len(text)
      <4> DEFINE a == Len(wire["client"])
                 t0 == TakenByClient
                 l == Len(text)
                 k == PacketSize
      <4>1. a \in Nat /\ t0 \in Nat /\ l \in Nat /\ k \in Nat
        BY <1>1, <1>3, <1>4
      <4>2. a + t0 = 1 + l
        BY <3>1
      <4> HIDE DEF a, t0, l, k
      <4>3. (a + k) + t0 = (1 + k) + l
        BY <4>1, <4>2
      <4> QED
        BY <4>3 DEF a, t0, l, k
    <3> QED
      BY <2>4, <3>2, <3>3, Zenon
  <2>7. S2OnWire(text)' /\ pc'["client"] # "done"
    BY <1>5, <2>1 DEF S2OnWire, ServerSteps
  <2> QED
    BY <1>3, <2>1, <2>6, <2>7, SameText
<1>8. CASE \/ receiveC0
           \/ \E n \in 1..PacketSize : receiveC1(n) \/ receiveC2(n)
  <2>1. /\ \/ pc["server"] = "receiveC0" /\ pc'["server"] \in {"receiveC1", "failed"}
           \/ pc["server"] = "receiveC1" /\ pc'["server"] = "sendS0"
           \/ pc["server"] = "receiveC2" /\ pc'["server"] \in {"sendS2", "failed"}
        /\ pc'["client"] = pc["client"]
        /\ UNCHANGED <<writing, broadcasts>>
    BY <1>1, <1>8, ProceedEffect, FailEffect
       DEF receiveC0, receiveC1, receiveC2, ReceiveVersion, ReceiveIdentity, ReceiveEcho, Read
  <2>2. wire'["client"] = wire["client"] /\ closed' = closed
    BY <1>1, <1>8, ReadEffect
       DEF receiveC0, receiveC1, receiveC2, ReceiveVersion, ReceiveIdentity, ReceiveEcho
  <2>3. heard'["client"] = heard["client"]
    BY <1>1, <1>8
       DEF receiveC0, receiveC1, receiveC2, ReceiveVersion, ReceiveIdentity, ReceiveEcho,
           HandshakeTypeOK
  <2>4. pc'["server"] # "failed" => SentByServer' = SentByServer
    BY <2>1 DEF SentByServer
  <2>5. (Connected' => Connected /\ pc'["server"] # "failed") /\ OnTrack' = OnTrack
    BY <2>1, <2>2, <2>3 DEF Connected, OnTrack
  <2>6. Counted(text)'
    BY <1>3, <1>4, <2>1, <2>2, <2>4, <2>5 DEF Counted
  <2>7. S2OnWire(text)' /\ pc'["client"] # "done"
    BY <1>5, <2>1 DEF S2OnWire, ServerSteps
  <2> QED
    BY <1>3, <2>1, <2>6, <2>7, SameText
<1> QED
  BY <1>6, <1>7, <1>8

\* The server's last Write (handshaker.go:143-150).
LEMMA SendS2Boundary == AgreementInv /\ BoundaryInv /\ sendS2 => BoundaryInv'
<1> SUFFICES ASSUME AgreementInv, BoundaryInv, sendS2
             PROVE  BoundaryInv'
  OBVIOUS
<1> USE DEF Ends
<1>1. HandshakeTypeOK /\ PacketSize \in Nat /\ Len(wire["client"]) \in Nat
  BY Sizes, WireLengths DEF AgreementInv
<1>2. /\ pc["server"] = "sendS2" /\ pc'["server"] = "done"
      /\ pc'["client"] = pc["client"]
      /\ UNCHANGED <<own, heard, writing, broadcasts>>
  BY <1>1, ProceedEffect DEF sendS2, SendEcho, Peer, Write
<1>3. /\ wire'["client"] = IF closed["client"] THEN wire["client"]
                           ELSE wire["client"] \o Packet(heard["server"])
      /\ closed' = closed
  BY <1>1, WriteEffect DEF sendS2, SendEcho, Peer
<1>4. PICK text \in Seq(Int) : Account(text)
  BY DEF BoundaryInv
<1>5. Begun(text) /\ Counted(text) /\ Len(text) \in Nat
  BY <1>4 DEF Account
<1>6. Counted(text)'
  <2>1. ASSUME ~closed["client"]
        PROVE  Len(wire'["client"]) = Len(wire["client"]) + PacketSize
    <3>1. Packet(heard["server"]) \in Seq(Int) /\ Len(Packet(heard["server"])) = PacketSize
      BY <1>1, PacketLengths
    <3> QED
      BY <1>1, <2>1, <3>1, WriteLengths DEF sendS2, SendEcho, Peer
  <2>2. SentByServer = 1 + PacketSize /\ SentByServer' = 1 + PacketSize + PacketSize
    BY <1>2 DEF SentByServer
  <2>3. (Connected' => Connected /\ ~closed["client"]) /\ OnTrack' = OnTrack
    BY <1>2, <1>3 DEF Connected, OnTrack
  <2>4. TakenByClient \in Nat /\ TakenByClient' = TakenByClient
    BY <1>2, AccountTypes DEF TakenByClient
  <2> QED
    BY <1>1, <1>5, <2>1, <2>2, <2>3, <2>4 DEF Counted
<1>7. S2OnWire(text)'
  <2> SUFFICES ASSUME ~closed["client"]
               PROVE  \E before \in Seq(Int), gone \in Seq(Int), after \in Seq(Int) :
                          /\ \A i \in 1..Len(before) : before[i] # -1
                          /\ wire'["client"] = before \o (C1 \o after)
                          /\ text = gone \o after
    BY <1>2, <1>3 DEF S2OnWire, C1
  <2>1. wire'["client"] = wire["client"] \o C1
    BY <1>2, <1>3 DEF AgreementInv, AfterC2, C1
  <2>2. C1 \in Seq(Int) /\ C1 \o <<>> = C1 /\ text \o <<>> = text /\ <<>> \in Seq(Int)
    BY <1>1, PacketLayout, JoinedOnWire DEF HandshakeTypeOK, C1
  <2>3. wire["client"] \in Seq(Int) /\ \A i \in 1..Len(wire["client"]) : wire["client"][i] # -1
    BY <1>1, <1>2 DEF AgreementInv, EchoOnlyInS2, HandshakeTypeOK, Units
  <2> QED
    BY <2>1, <2>2, <2>3, Zenon
<1>8. pc'["client"] # "done"
  BY <1>2 DEF AgreementInv, ServerFirst
<1> QED
  BY <1>2, <1>5, <1>6, <1>7, <1>8, SameText

\* A message that is begun is a text still to be written (server.go:438-447).
LEMMA BroadcastBoundary ==
    ASSUME AgreementInv, BoundaryInv, NEW m \in Messages, Broadcast(m)
    PROVE  BoundaryInv'
<1>1. HandshakeTypeOK /\ broadcasts \in Nat
  BY BroadcastsNatural DEF AgreementInv
<1>2. /\ UNCHANGED <<pc, own, heard, wire, closed>>
      /\ writing = <<>> /\ writing' = m /\ broadcasts' = broadcasts + 1
  BY DEF Broadcast
<1>3. PICK text \in Seq(Int) : Account(text)
  BY DEF BoundaryInv
<1>4. ASSUME NEW s \in Seq(Int), s \o writing \in Stream(broadcasts)
      PROVE  s \o m \in Stream(broadcasts + 1)
  <2>1. s \in Stream(broadcasts)
    BY <1>2, <1>4, JoinedOnWire
  <2> QED
    BY <1>1, <2>1, StreamGrows
<1>5. Begun(text)'
  BY <1>2, <1>3, <1>4 DEF Account, Begun
<1>6. Counted(text)' /\ S2OnWire(text)'
  BY <1>2, <1>3, Zenon
     DEF Account, Counted, S2OnWire, Connected, OnTrack, TakenByClient, SentByServer, C1
<1>7. AfterS2'
  <2>1. wire["client"] \in Seq(Int)
    BY <1>1 DEF HandshakeTypeOK, Units, Ends
  <2> QED
    BY <1>2, <1>4, <2>1, Zenon DEF BoundaryInv, AfterS2
<1> QED
  BY <1>5, <1>6, <1>7, Zenon DEF BoundaryInv, Account

\* What comes behind the last of some sequences comes behind all of them.
LEMMA BehindThree ==
    \A a, d, b, c \in Seq(Int) : (a \o (b \o c)) \o d = a \o (b \o (c \o d))
<1> SUFFICES ASSUME NEW a \in Seq(Int), NEW d \in Seq(Int),
                    NEW b \in Seq(Int), NEW c \in Seq(Int)
             PROVE  (a \o (b \o c)) \o d = a \o (b \o (c \o d))
  BY Zenon
<1>1. b \o c \in Seq(Int)
  BY LengthJoined, Zenon
<1>2. (a \o (b \o c)) \o d = a \o ((b \o c) \o d)
  <2>1. \A s, t \in Seq(Int) : (a \o s) \o t = a \o (s \o t)
    BY Associative, Zenon
  <2>2. \A s \in Seq(Int) : (a \o s) \o d = a \o (s \o d)
    BY <2>1, Zenon
  <2> QED
    BY <1>1, <2>2, Zenon
<1>3. (b \o c) \o d = b \o (c \o d)
  <2>1. \A s, t \in Seq(Int) : (b \o s) \o t = b \o (s \o t)
    BY Associative, Zenon
  <2>2. \A s \in Seq(Int) : (b \o s) \o d = b \o (s \o d)
    BY <2>1, Zenon
  <2> QED
    BY <2>2, Zenon
<1> QED
  BY <1>2, <1>3, Zenon

\* A piece comes behind what is there (chunk_streamer.go:206-232).
LEMMA PieceBoundary ==
    ASSUME AgreementInv, BoundaryInv, NEW n \in 1..Len(writing), WritePiece(n)
    PROVE  BoundaryInv'
<1> USE DEF Ends
<1>1. HandshakeTypeOK /\ wire["client"] \in Seq(Int) /\ Len(wire["client"]) \in Nat
  BY WireLengths DEF AgreementInv, HandshakeTypeOK, Units
<1>2. UNCHANGED <<pc, own, heard, closed, broadcasts>>
  BY DEF WritePiece
<1>3. PICK piece \in Seq(Int), rest \in Seq(Int) :
          /\ wire'["client"] = wire["client"] \o piece
          /\ writing' = rest
          /\ writing = piece \o rest
  <2> DEFINE front == SubSeq(writing, 1, n)
             back == SubSeq(writing, n + 1, Len(writing))
  <2>1. front \in Seq(Nat) /\ back \in Seq(Nat) /\ writing = front \o back
    BY <1>1, PieceCut DEF HandshakeTypeOK
  <2>2. wire'["client"] = wire["client"] \o front /\ writing' = back
    BY <1>1 DEF WritePiece, HandshakeTypeOK
  <2> HIDE DEF front, back
  <2>3. front \in Seq(Int) /\ back \in Seq(Int)
    BY <2>1
  <2> QED
    BY <2>1, <2>2, <2>3, Zenon
<1>0. Len(piece) \in Nat
  OBVIOUS
<1>4. PICK text \in Seq(Int) : Account(text)
  BY DEF BoundaryInv
<1>5. \A s \in Seq(Int) : (s \o piece) \o rest = s \o writing
  <2>1. \A s, t \in Seq(Int) : (s \o piece) \o t = s \o (piece \o t)
    BY Associative, Zenon
  <2>2. \A s \in Seq(Int) : (s \o piece) \o rest = s \o (piece \o rest)
    BY <2>1, Zenon
  <2> QED
    BY <1>3, <2>2, Zenon
<1>6. PICK longer \in Seq(Int) : longer = text \o piece /\ Len(longer) = Len(text) + Len(piece)
  BY LengthJoined, Zenon
<1>7. Begun(longer)'
  <2>1. (text \o piece) \o rest = text \o writing
    BY <1>5
  <2> QED
    BY <1>2, <1>3, <1>4, <1>6, <2>1, Zenon DEF Account, Begun
<1>8. Counted(longer)'
  <2>1. Len(wire'["client"]) = Len(wire["client"]) + Len(piece)
    BY <1>1, <1>3, ConcatProperties
  <2>2. /\ Connected' = Connected /\ OnTrack' = OnTrack
        /\ TakenByClient' = TakenByClient /\ SentByServer' = SentByServer
    BY <1>2, Zenon DEF Connected, OnTrack, TakenByClient, SentByServer
  <2>3. /\ TakenByClient \in Nat /\ SentByServer \in Nat
        /\ Len(text) \in Nat /\ Len(piece) \in Nat
    BY <1>0, AccountTypes
  <2> SUFFICES ASSUME Connected', OnTrack'
               PROVE  Len(wire'["client"]) + TakenByClient' = SentByServer' + Len(longer)
    BY Zenon DEF Counted
  <2>4. Len(wire["client"]) + TakenByClient = SentByServer + Len(text)
    BY <1>4, <2>2, Zenon DEF Account, Counted
  <2>5. (Len(wire["client"]) + Len(piece)) + TakenByClient = SentByServer + (Len(text) + Len(piece))
    <3> DEFINE a == Len(wire["client"])
               t == TakenByClient
               s == SentByServer
               l == Len(text)
               k == Len(piece)
    <3>1. /\ a \in Nat /\ t \in Nat /\ s \in Nat /\ l \in Nat /\ k \in Nat
          /\ a + t = s + l
      BY <1>1, <2>3, <2>4, Zenon
    <3> HIDE DEF a, t, s, l, k
    <3>2. (a + k) + t = s + (l + k)
      BY <3>1
    <3> QED
      BY <3>2 DEF a, t, s, l, k
  <2> QED
    BY <1>6, <2>1, <2>2, <2>5, Zenon
<1>9. S2OnWire(longer)'
  <2> SUFFICES ASSUME pc["server"] = "done", pc["client"] = "receiveS2", ~closed["client"]
               PROVE  \E before \in Seq(Int), gone \in Seq(Int), after \in Seq(Int) :
                          /\ \A i \in 1..Len(before) : before[i] # -1
                          /\ wire'["client"] = before \o (C1 \o after)
                          /\ longer = gone \o after
    BY <1>2, Zenon DEF S2OnWire, C1
  <2>1. PICK before \in Seq(Int), gone \in Seq(Int), after \in Seq(Int) :
            /\ \A i \in 1..Len(before) : before[i] # -1
            /\ wire["client"] = before \o (C1 \o after)
            /\ text = gone \o after
    BY <1>4 DEF Account, S2OnWire
  <2>2. C1 \in Seq(Int)
    BY <1>1, PacketLayout DEF HandshakeTypeOK, C1
  <2>3. (before \o (C1 \o after)) \o piece = before \o (C1 \o (after \o piece))
    <3>1. \A s, t \in Seq(Int) : (before \o (s \o t)) \o piece = before \o (s \o (t \o piece))
      BY BehindThree, Zenon
    <3>2. \A s \in Seq(Int) :
              (before \o (s \o after)) \o piece = before \o (s \o (after \o piece))
      BY <3>1, Zenon
    <3> QED
      BY <2>2, <3>2, Zenon
  <2>4. (gone \o after) \o piece = gone \o (after \o piece)
    <3>1. \A s, t \in Seq(Int) : (gone \o s) \o t = gone \o (s \o t)
      BY Associative, Zenon
    <3>2. \A s \in Seq(Int) : (gone \o s) \o piece = gone \o (s \o piece)
      BY <3>1, Zenon
    <3> QED
      BY <3>2, Zenon
  <2>5. after \o piece \in Seq(Int)
    BY LengthJoined, Zenon
  <2>6. /\ wire'["client"] = before \o (C1 \o (after \o piece))
        /\ longer = gone \o (after \o piece)
    BY <1>3, <1>6, <2>1, <2>3, <2>4, Zenon
  <2> QED
    BY <2>1, <2>5, <2>6, Zenon
<1>10. AfterS2'
  <2>1. (wire["client"] \o piece) \o rest = wire["client"] \o writing
    BY <1>1, <1>5
  <2> QED
    BY <1>2, <1>3, <2>1, Zenon DEF BoundaryInv, AfterS2
<1> QED
  BY <1>6, <1>7, <1>8, <1>9, <1>10, Zenon DEF BoundaryInv, Account

\* The inductive invariant of the hand-over, beside AgreementInv: how much of
\* what WriteMessage wrote is still on its way to a client that may succeed.
THEOREM BoundaryInvariant == Spec => []BoundaryInv
<1>1. Init => BoundaryInv
  <2> SUFFICES ASSUME Init PROVE BoundaryInv
    OBVIOUS
  <2>1. /\ pc["client"] = "sendC0" /\ pc["server"] = "receiveC0"
        /\ wire["client"] = <<>> /\ writing = <<>> /\ broadcasts = 0
    BY DEF Init, Ends
  <2>2. <<>> \in Seq(Int) /\ <<>> \o <<>> = <<>> /\ Len(<<>>) = 0
    BY EmptySeq
  <2>3. Begun(<<>>)
    BY <2>1, <2>2, StreamEmpty DEF Begun
  <2>4. Counted(<<>>)
    BY <2>1, <2>2 DEF Counted, TakenByClient, SentByServer
  <2>5. S2OnWire(<<>>) /\ AfterS2
    BY <2>1 DEF S2OnWire, AfterS2
  <2> QED
    BY <2>2, <2>3, <2>4, <2>5, Zenon DEF BoundaryInv, Account
<1>2. AgreementInv /\ BoundaryInv /\ [Next]_vars => BoundaryInv'
  <2> SUFFICES ASSUME AgreementInv, BoundaryInv, [Next]_vars
               PROVE  BoundaryInv'
    OBVIOUS
  <2> USE DEF Ends
  <2>0. HandshakeTypeOK
    BY DEF AgreementInv
  <2>1. CASE doClientHandshake
    <3>1. CASE \E n \in 1..PacketSize : receiveS2(n)
      BY <3>1, ReceiveS2Boundary
    <3> QED
      BY <2>1, <3>1, ClientCounts DEF doClientHandshake
  <2>2. CASE doServerHandshake
    <3>1. CASE sendS2
      BY <3>1, SendS2Boundary
    <3> QED
      BY <2>2, <3>1, ServerCounts DEF doServerHandshake
  <2>3. ASSUME NEW p \in Ends, ConnectionGone(p) \/ Breaks(p) PROVE BoundaryInv'
    <3>1. /\ pc[p] \notin Ended
          /\ pc'[p] = "failed" /\ pc'[Peer(p)] = pc[Peer(p)]
          /\ UNCHANGED <<own, heard, wire, closed, writing, broadcasts>>
      BY <2>0, <2>3, FailEffect DEF ConnectionGone, Breaks
    <3>2. PICK text \in Seq(Int) : Account(text)
      BY DEF BoundaryInv
    <3>3. ~(Connected /\ OnTrack)'
      BY <3>1 DEF Connected, OnTrack, ClientSteps, Peer
    <3>4. Counted(text)' /\ Begun(text)' /\ AfterS2'
      BY <3>1, <3>2, <3>3 DEF Counted, Begun, AfterS2, Account, BoundaryInv, Peer, Ended
    <3>5. S2OnWire(text)'
      BY <3>1, <3>2 DEF Account, S2OnWire, Peer, Ended, C1
    <3> QED
      BY <3>4, <3>5 DEF BoundaryInv, Account
  <2>4. ASSUME NEW p \in Ends, CloseAfterError(p) \/ CloseUnderway(p) PROVE BoundaryInv'
    <3>1. /\ UNCHANGED <<pc, own, heard, wire, writing, broadcasts>>
          /\ closed["client"] => closed'["client"]
      BY <2>0, <2>4 DEF CloseAfterError, CloseUnderway, HandshakeTypeOK
    <3>2. PICK text \in Seq(Int) : Account(text)
      BY DEF BoundaryInv
    <3>3. (Connected' => Connected) /\ OnTrack' = OnTrack
      BY <3>1 DEF Connected, OnTrack
    <3>4. Counted(text)' /\ Begun(text)' /\ AfterS2'
      BY <3>1, <3>2, <3>3, Zenon
         DEF Counted, Begun, AfterS2, Account, BoundaryInv, TakenByClient, SentByServer
    <3>5. S2OnWire(text)'
      BY <3>1, <3>2 DEF Account, S2OnWire, C1
    <3> QED
      BY <3>4, <3>5 DEF BoundaryInv, Account
  <2>5. ASSUME NEW m \in Messages, Broadcast(m) PROVE BoundaryInv'
    BY <2>5, BroadcastBoundary
  <2>6. ASSUME NEW n \in 1..Len(writing), WritePiece(n) PROVE BoundaryInv'
    BY <2>6, PieceBoundary
  <2>7. CASE UNCHANGED vars
    <3>1. UNCHANGED <<pc, own, heard, wire, closed, writing, broadcasts>>
      BY <2>7 DEF vars
    <3>2. PICK text \in Seq(Int) : Account(text)
      BY DEF BoundaryInv
    <3>3. Counted(text)'
      BY <3>1, <3>2, Zenon
         DEF Account, Counted, Connected, OnTrack, TakenByClient, SentByServer
    <3>4. S2OnWire(text)'
      BY <3>1, <3>2, Zenon DEF Account, S2OnWire, C1
    <3>5. Begun(text)' /\ AfterS2'
      BY <3>1, <3>2, Zenon DEF BoundaryInv, Account, Begun, AfterS2
    <3> QED
      BY <3>3, <3>4, <3>5, Zenon DEF BoundaryInv, Account
  <2> QED
    BY <2>1, <2>2, <2>3, <2>4, <2>5, <2>6, <2>7 DEF Next, Client, Server
<1> QED
  BY <1>1, <1>2, HandshakeInvariant, PTL DEF Spec

\* Whoever reads on after a successful handshake (server.go:539-549) starts at
\* the first byte of a message, on either side, for every packet size, wherever
\* the stream is cut, however many messages were written meanwhile and however
\* their pieces and the handshake's packets took turns.
THEOREM HandsOver == Spec => []HandsOverAtBoundary
<1>1. AgreementInv /\ BoundaryInv => HandsOverAtBoundary
  <2> SUFFICES ASSUME AgreementInv, BoundaryInv
               PROVE  HandsOverAtBoundary
    OBVIOUS
  <2>1. Done("server") => wire["server"] = <<>>
    BY DEF AgreementInv, ServerFirst, AfterC2, Ends
  <2>2. ASSUME Done("client")
        PROVE  \E ms \in SeqOf(Messages, MaxBroadcasts) :
                   wire["client"] \o writing = FlattenSeq(ms)
    <3>1. wire["client"] \o writing \in Stream(broadcasts)
      BY <2>2 DEF AgreementInv, ServerFirst, BoundaryInv, AfterS2, Ends
    <3>2. broadcasts \in 0..MaxBroadcasts /\ MaxBroadcasts \in Nat
      BY HandshakeAssumption DEF AgreementInv, HandshakeTypeOK
    <3>3. 0..broadcasts \subseteq 0..MaxBroadcasts
      BY <3>2
    <3>4. SeqOf(Messages, broadcasts) \subseteq SeqOf(Messages, MaxBroadcasts)
      BY <3>3 DEF SeqOf
    <3> QED
      BY <3>1, <3>4 DEF Stream
  <2> QED
    BY <2>1, <2>2 DEF HandsOverAtBoundary
<1> QED
  BY <1>1, HandshakeInvariant, BoundaryInvariant, PTL

-----------------------------------------------------------------------------
(* No standoff.  A function that reads takes one packet off the wire at most *)
(* and one that writes puts a whole one on it, so what has come to an end is *)
(* never less than what its peer has sent and the end has not asked for yet; *)
(* what the application writes in between only adds to it.                   *)

\* What has come and what may have been taken account for all that was sent.
Covers(come, taken, sent) == come + taken >= sent

Undisturbed == \A q \in Ends : ~closed[q] /\ pc[q] # "failed"

NothingMissing ==
    Undisturbed =>
        /\ Covers(Len(wire["server"]), TakenByServer, SentByClient)
        /\ Covers(Len(wire["client"]), TakenByClient, SentByServer)

\* A Write adds as much to the wire as to what was sent, and a Read takes no
\* more off it than it adds to what may have been taken.
LEMMA CoversWrite ==
    ASSUME NEW come \in Nat, NEW taken \in Nat, NEW sent \in Nat, Covers(come, taken, sent)
    PROVE  \A k \in Nat : Covers(come + k, taken, sent + k)
BY DEF Covers

LEMMA CoversRead ==
    ASSUME NEW come \in Nat, NEW taken \in Nat, NEW sent \in Nat, Covers(come, taken, sent)
    PROVE  \A k \in Nat : \A n \in 0..k : Covers(come - n, taken + k, sent)
BY DEF Covers

\* The client's functions keep the account (handshaker.go:67-108).
LEMMA ClientMisses ==
    ASSUME AgreementInv, NothingMissing, doClientHandshake
    PROVE  NothingMissing'
<1> USE DEF Ends, Peer
<1> SUFFICES ASSUME Undisturbed'
             PROVE  /\ Covers(Len(wire["server"]), TakenByServer, SentByClient)'
                    /\ Covers(Len(wire["client"]), TakenByClient, SentByServer)'
  BY DEF NothingMissing
<1>1. HandshakeTypeOK
  BY DEF AgreementInv
<1>2. PacketSize \in Nat \ {0} /\ Len(wire["client"]) \in Nat /\ Len(wire["server"]) \in Nat
  BY <1>1, Sizes, WireLengths
<1>3. pc'["client"] # "failed" /\ ~closed'["client"] /\ ~closed'["server"] /\ pc'["server"] # "failed"
  BY DEF Undisturbed
<1>4. /\ pc'["server"] = pc["server"] =>
           TakenByServer' = TakenByServer /\ SentByServer' = SentByServer
      /\ TakenByServer \in Nat /\ SentByServer \in Nat
      /\ TakenByClient \in Nat /\ SentByClient \in Nat
  BY AccountTypes DEF TakenByServer, SentByServer
<1>5. CASE sendC0
  <2>1. pc["client"] = "sendC0" /\ pc'["client"] = "sendC1" /\ pc'["server"] = pc["server"]
    BY <1>1, <1>5, ProceedEffect DEF sendC0, SendVersion
  <2>2. closed' = closed
    BY <1>1, <1>5, WriteEffect DEF sendC0, SendVersion
  <2>3. /\ Len(wire'["client"]) = Len(wire["client"])
        /\ Len(wire'["server"]) = Len(wire["server"]) + 1
    <3>1. <<HandshakeVersion>> \in Seq(Int) /\ Len(<<HandshakeVersion>>) = 1
      BY DEF HandshakeVersion
    <3> QED
      BY <1>1, <1>3, <1>5, <2>2, <3>1, WriteLengths DEF sendC0, SendVersion
  <2>4. Undisturbed
    BY <1>3, <2>1, <2>2 DEF Undisturbed
  <2>5. /\ SentByClient' = SentByClient + 1
        /\ TakenByClient' = TakenByClient
    BY <1>2, <2>1 DEF SentByClient, TakenByClient
  <2>6. /\ Covers(Len(wire["server"]), TakenByServer, SentByClient)
        /\ Covers(Len(wire["client"]), TakenByClient, SentByServer)
    BY <2>4, Zenon DEF NothingMissing
  <2>7. Covers(Len(wire["server"]) + 1, TakenByServer, SentByClient + 1)
    BY <1>2, <1>4, <2>6, CoversWrite
  <2> QED
    BY <1>4, <2>1, <2>3, <2>5, <2>6, <2>7, Zenon
<1>6. ASSUME NEW t \in Times, sendC1(t)
      PROVE  /\ Covers(Len(wire["server"]), TakenByServer, SentByClient)'
             /\ Covers(Len(wire["client"]), TakenByClient, SentByServer)'
  <2>1. pc["client"] = "sendC1" /\ pc'["client"] = "receiveS0" /\ pc'["server"] = pc["server"]
    BY <1>1, <1>6, ProceedEffect DEF sendC1, SendIdentity
  <2>2. closed' = closed
    BY <1>1, <1>6, WriteEffect DEF sendC1, SendIdentity
  <2>3. /\ Len(wire'["client"]) = Len(wire["client"])
        /\ Len(wire'["server"]) = Len(wire["server"]) + PacketSize
    <3> DEFINE c1 == Packet([time |-> t, random |-> Random("client")])
    <3>1. Write("client", c1)
      BY <1>6 DEF sendC1, SendIdentity
    <3>2. c1 \in Seq(Int) /\ Len(c1) = PacketSize
      BY <1>1, PacketLengths
    <3> HIDE DEF c1
    <3> QED
      BY <1>1, <1>3, <2>2, <3>1, <3>2, WriteLengths
  <2>4. Undisturbed
    BY <1>3, <2>1, <2>2 DEF Undisturbed
  <2>5. /\ SentByClient' = SentByClient + PacketSize
        /\ TakenByClient' = TakenByClient
    BY <1>2, <2>1 DEF SentByClient, TakenByClient
  <2>6. /\ Covers(Len(wire["server"]), TakenByServer, SentByClient)
        /\ Covers(Len(wire["client"]), TakenByClient, SentByServer)
    BY <2>4, Zenon DEF NothingMissing
  <2>7. Covers(Len(wire["server"]) + PacketSize, TakenByServer, SentByClient + PacketSize)
    BY <1>2, <1>4, <2>6, CoversWrite
  <2> QED
    BY <1>4, <2>1, <2>3, <2>5, <2>6, <2>7, Zenon
<1>7. CASE receiveS0
  <2>1. pc["client"] = "receiveS0" /\ pc'["client"] = "receiveS1" /\ pc'["server"] = pc["server"]
    BY <1>1, <1>3, <1>7, ProceedEffect, FailEffect DEF receiveS0, ReceiveVersion
  <2>2. /\ Len(wire'["client"]) = Len(wire["client"]) - 1
        /\ Len(wire'["server"]) = Len(wire["server"])
        /\ closed' = closed
    <3>1. Read("client", 1, 1)
      BY <1>7 DEF receiveS0, ReceiveVersion
    <3> QED
      BY <1>1, <3>1, ReadLengths
  <2>3. Undisturbed
    BY <1>3, <2>1, <2>2 DEF Undisturbed
  <2>5. /\ SentByClient' = SentByClient
        /\ TakenByClient' = TakenByClient + 1
    BY <1>2, <2>1 DEF SentByClient, TakenByClient
  <2>6. /\ Covers(Len(wire["server"]), TakenByServer, SentByClient)
        /\ Covers(Len(wire["client"]), TakenByClient, SentByServer)
    BY <2>3, Zenon DEF NothingMissing
  <2>7. Covers(Len(wire["client"]) - 1, TakenByClient + 1, SentByServer)
    <3>1. 1 \in Nat /\ 1 \in 0..1
      BY <1>2
    <3> QED
      BY <1>2, <1>4, <2>6, <3>1, CoversRead, Zenon
  <2> QED
    BY <1>4, <2>1, <2>2, <2>5, <2>6, <2>7, Zenon
<1>8. ASSUME NEW n \in 1..PacketSize, receiveS1(n)
      PROVE  /\ Covers(Len(wire["server"]), TakenByServer, SentByClient)'
             /\ Covers(Len(wire["client"]), TakenByClient, SentByServer)'
  <2>1. pc["client"] = "receiveS1" /\ pc'["client"] = "sendC2" /\ pc'["server"] = pc["server"]
    BY <1>1, <1>8, ProceedEffect DEF receiveS1, ReceiveIdentity
  <2>2. /\ Len(wire'["client"]) = Len(wire["client"]) - n
        /\ n <= PacketSize
        /\ Len(wire'["server"]) = Len(wire["server"])
        /\ closed' = closed
    <3>1. Read("client", n, PacketSize) /\ n \in Nat \ {0}
      BY <1>8, ReadSizes DEF receiveS1, ReceiveIdentity
    <3> QED
      BY <1>1, <1>2, <3>1, ReadLengths
  <2>3. Undisturbed
    BY <1>3, <2>1, <2>2 DEF Undisturbed
  <2>5. /\ SentByClient' = SentByClient
        /\ TakenByClient' = TakenByClient + PacketSize
    BY <1>2, <2>1 DEF SentByClient, TakenByClient
  <2>6. /\ Covers(Len(wire["server"]), TakenByServer, SentByClient)
        /\ Covers(Len(wire["client"]), TakenByClient, SentByServer)
    BY <2>3, Zenon DEF NothingMissing
  <2>7. Covers(Len(wire["client"]) - n, TakenByClient + PacketSize, SentByServer)
    <3>1. PacketSize \in Nat /\ n \in 0..PacketSize
      BY <1>2
    <3> QED
      BY <1>2, <1>4, <2>6, <3>1, CoversRead, Zenon
  <2> QED
    BY <1>4, <2>1, <2>2, <2>5, <2>6, <2>7, Zenon
<1>9. CASE sendC2
  <2>1. pc["client"] = "sendC2" /\ pc'["client"] = "receiveS2" /\ pc'["server"] = pc["server"]
    BY <1>1, <1>9, ProceedEffect DEF sendC2, SendEcho
  <2>2. closed' = closed
    BY <1>1, <1>9, WriteEffect DEF sendC2, SendEcho
  <2>3. /\ Len(wire'["client"]) = Len(wire["client"])
        /\ Len(wire'["server"]) = Len(wire["server"]) + PacketSize
    <3>1. Write("client", Packet(heard["client"]))
      BY <1>9 DEF sendC2, SendEcho
    <3>2. Packet(heard["client"]) \in Seq(Int) /\ Len(Packet(heard["client"])) = PacketSize
      BY <1>1, PacketLengths
    <3> QED
      BY <1>1, <1>3, <2>2, <3>1, <3>2, WriteLengths
  <2>4. Undisturbed
    BY <1>3, <2>1, <2>2 DEF Undisturbed
  <2>5. /\ SentByClient' = SentByClient + PacketSize
        /\ TakenByClient' = TakenByClient
    BY <1>2, <2>1 DEF SentByClient, TakenByClient
  <2>6. /\ Covers(Len(wire["server"]), TakenByServer, SentByClient)
        /\ Covers(Len(wire["client"]), TakenByClient, SentByServer)
    BY <2>4, Zenon DEF NothingMissing
  <2>7. Covers(Len(wire["server"]) + PacketSize, TakenByServer, SentByClient + PacketSize)
    BY <1>2, <1>4, <2>6, CoversWrite
  <2> QED
    BY <1>4, <2>1, <2>3, <2>5, <2>6, <2>7, Zenon
<1>10. ASSUME NEW n \in 1..PacketSize, receiveS2(n)
       PROVE  /\ Covers(Len(wire["server"]), TakenByServer, SentByClient)'
              /\ Covers(Len(wire["client"]), TakenByClient, SentByServer)'
  <2>1. pc["client"] = "receiveS2" /\ pc'["client"] = "done" /\ pc'["server"] = pc["server"]
    BY <1>1, <1>3, <1>10, ProceedEffect, FailEffect DEF receiveS2, ReceiveEcho
  <2>2. /\ Len(wire'["client"]) = Len(wire["client"]) - n
        /\ n <= PacketSize
        /\ Len(wire'["server"]) = Len(wire["server"])
        /\ closed' = closed
    <3>1. Read("client", n, PacketSize) /\ n \in Nat \ {0}
      BY <1>10, ReadSizes DEF receiveS2, ReceiveEcho
    <3> QED
      BY <1>1, <1>2, <3>1, ReadLengths
  <2>3. Undisturbed
    BY <1>3, <2>1, <2>2 DEF Undisturbed
  <2>5. /\ SentByClient' = SentByClient
        /\ TakenByClient' = TakenByClient + PacketSize
    BY <1>2, <2>1 DEF SentByClient, TakenByClient
  <2>6. /\ Covers(Len(wire["server"]), TakenByServer, SentByClient)
        /\ Covers(Len(wire["client"]), TakenByClient, SentByServer)
    BY <2>3, Zenon DEF NothingMissing
  <2>7. Covers(Len(wire["client"]) - n, TakenByClient + PacketSize, SentByServer)
    <3>1. PacketSize \in Nat /\ n \in 0..PacketSize
      BY <1>2
    <3> QED
      BY <1>2, <1>4, <2>6, <3>1, CoversRead, Zenon
  <2> QED
    BY <1>4, <2>1, <2>2, <2>5, <2>6, <2>7, Zenon
<1> QED
  BY <1>5, <1>6, <1>7, <1>8, <1>9, <1>10 DEF doClientHandshake

\* So do the server's (handshaker.go:111-152).
LEMMA ServerMisses ==
    ASSUME AgreementInv, NothingMissing, doServerHandshake
    PROVE  NothingMissing'
<1> USE DEF Ends, Peer
<1> SUFFICES ASSUME Undisturbed'
             PROVE  /\ Covers(Len(wire["client"]), TakenByClient, SentByServer)'
                    /\ Covers(Len(wire["server"]), TakenByServer, SentByClient)'
  BY DEF NothingMissing
<1>1. HandshakeTypeOK
  BY DEF AgreementInv
<1>2. PacketSize \in Nat \ {0} /\ Len(wire["server"]) \in Nat /\ Len(wire["client"]) \in Nat
  BY <1>1, Sizes, WireLengths
<1>3. pc'["server"] # "failed" /\ ~closed'["server"] /\ ~closed'["client"] /\ pc'["client"] # "failed"
  BY DEF Undisturbed
<1>4. /\ pc'["client"] = pc["client"] =>
           TakenByClient' = TakenByClient /\ SentByClient' = SentByClient
      /\ TakenByClient \in Nat /\ SentByClient \in Nat
      /\ TakenByServer \in Nat /\ SentByServer \in Nat
  BY AccountTypes DEF TakenByClient, SentByClient
<1>5. CASE sendS0
  <2>1. pc["server"] = "sendS0" /\ pc'["server"] = "sendS1" /\ pc'["client"] = pc["client"]
    BY <1>1, <1>5, ProceedEffect DEF sendS0, SendVersion
  <2>2. closed' = closed
    BY <1>1, <1>5, WriteEffect DEF sendS0, SendVersion
  <2>3. /\ Len(wire'["server"]) = Len(wire["server"])
        /\ Len(wire'["client"]) = Len(wire["client"]) + 1
    <3>1. <<HandshakeVersion>> \in Seq(Int) /\ Len(<<HandshakeVersion>>) = 1
      BY DEF HandshakeVersion
    <3> QED
      BY <1>1, <1>3, <1>5, <2>2, <3>1, WriteLengths DEF sendS0, SendVersion
  <2>4. Undisturbed
    BY <1>3, <2>1, <2>2 DEF Undisturbed
  <2>5. /\ SentByServer' = SentByServer + 1
        /\ TakenByServer' = TakenByServer
    BY <1>2, <2>1 DEF SentByServer, TakenByServer
  <2>6. /\ Covers(Len(wire["client"]), TakenByClient, SentByServer)
        /\ Covers(Len(wire["server"]), TakenByServer, SentByClient)
    BY <2>4, Zenon DEF NothingMissing
  <2>7. Covers(Len(wire["client"]) + 1, TakenByClient, SentByServer + 1)
    BY <1>2, <1>4, <2>6, CoversWrite
  <2> QED
    BY <1>4, <2>1, <2>3, <2>5, <2>6, <2>7, Zenon
<1>6. ASSUME NEW t \in Times, sendS1(t)
      PROVE  /\ Covers(Len(wire["client"]), TakenByClient, SentByServer)'
             /\ Covers(Len(wire["server"]), TakenByServer, SentByClient)'
  <2>1. pc["server"] = "sendS1" /\ pc'["server"] = "receiveC2" /\ pc'["client"] = pc["client"]
    BY <1>1, <1>6, ProceedEffect DEF sendS1, SendIdentity
  <2>2. closed' = closed
    BY <1>1, <1>6, WriteEffect DEF sendS1, SendIdentity
  <2>3. /\ Len(wire'["server"]) = Len(wire["server"])
        /\ Len(wire'["client"]) = Len(wire["client"]) + PacketSize
    <3> DEFINE c1 == Packet([time |-> t, random |-> Random("server")])
    <3>1. Write("server", c1)
      BY <1>6 DEF sendS1, SendIdentity
    <3>2. c1 \in Seq(Int) /\ Len(c1) = PacketSize
      BY <1>1, PacketLengths
    <3> HIDE DEF c1
    <3> QED
      BY <1>1, <1>3, <2>2, <3>1, <3>2, WriteLengths
  <2>4. Undisturbed
    BY <1>3, <2>1, <2>2 DEF Undisturbed
  <2>5. /\ SentByServer' = SentByServer + PacketSize
        /\ TakenByServer' = TakenByServer
    BY <1>2, <2>1 DEF SentByServer, TakenByServer
  <2>6. /\ Covers(Len(wire["client"]), TakenByClient, SentByServer)
        /\ Covers(Len(wire["server"]), TakenByServer, SentByClient)
    BY <2>4, Zenon DEF NothingMissing
  <2>7. Covers(Len(wire["client"]) + PacketSize, TakenByClient, SentByServer + PacketSize)
    BY <1>2, <1>4, <2>6, CoversWrite
  <2> QED
    BY <1>4, <2>1, <2>3, <2>5, <2>6, <2>7, Zenon
<1>7. CASE receiveC0
  <2>1. pc["server"] = "receiveC0" /\ pc'["server"] = "receiveC1" /\ pc'["client"] = pc["client"]
    BY <1>1, <1>3, <1>7, ProceedEffect, FailEffect DEF receiveC0, ReceiveVersion
  <2>2. /\ Len(wire'["server"]) = Len(wire["server"]) - 1
        /\ Len(wire'["client"]) = Len(wire["client"])
        /\ closed' = closed
    <3>1. Read("server", 1, 1)
      BY <1>7 DEF receiveC0, ReceiveVersion
    <3> QED
      BY <1>1, <3>1, ReadLengths
  <2>3. Undisturbed
    BY <1>3, <2>1, <2>2 DEF Undisturbed
  <2>5. /\ SentByServer' = SentByServer
        /\ TakenByServer' = TakenByServer + 1
    BY <1>2, <2>1 DEF SentByServer, TakenByServer
  <2>6. /\ Covers(Len(wire["client"]), TakenByClient, SentByServer)
        /\ Covers(Len(wire["server"]), TakenByServer, SentByClient)
    BY <2>3, Zenon DEF NothingMissing
  <2>7. Covers(Len(wire["server"]) - 1, TakenByServer + 1, SentByClient)
    <3>1. 1 \in Nat /\ 1 \in 0..1
      BY <1>2
    <3> QED
      BY <1>2, <1>4, <2>6, <3>1, CoversRead, Zenon
  <2> QED
    BY <1>4, <2>1, <2>2, <2>5, <2>6, <2>7, Zenon
<1>8. ASSUME NEW n \in 1..PacketSize, receiveC1(n)
      PROVE  /\ Covers(Len(wire["client"]), TakenByClient, SentByServer)'
             /\ Covers(Len(wire["server"]), TakenByServer, SentByClient)'
  <2>1. pc["server"] = "receiveC1" /\ pc'["server"] = "sendS0" /\ pc'["client"] = pc["client"]
    BY <1>1, <1>8, ProceedEffect DEF receiveC1, ReceiveIdentity
  <2>2. /\ Len(wire'["server"]) = Len(wire["server"]) - n
        /\ n <= PacketSize
        /\ Len(wire'["client"]) = Len(wire["client"])
        /\ closed' = closed
    <3>1. Read("server", n, PacketSize) /\ n \in Nat \ {0}
      BY <1>8, ReadSizes DEF receiveC1, ReceiveIdentity
    <3> QED
      BY <1>1, <1>2, <3>1, ReadLengths
  <2>3. Undisturbed
    BY <1>3, <2>1, <2>2 DEF Undisturbed
  <2>5. /\ SentByServer' = SentByServer
        /\ TakenByServer' = TakenByServer + PacketSize
    BY <1>2, <2>1 DEF SentByServer, TakenByServer
  <2>6. /\ Covers(Len(wire["client"]), TakenByClient, SentByServer)
        /\ Covers(Len(wire["server"]), TakenByServer, SentByClient)
    BY <2>3, Zenon DEF NothingMissing
  <2>7. Covers(Len(wire["server"]) - n, TakenByServer + PacketSize, SentByClient)
    <3>1. PacketSize \in Nat /\ n \in 0..PacketSize
      BY <1>2
    <3> QED
      BY <1>2, <1>4, <2>6, <3>1, CoversRead, Zenon
  <2> QED
    BY <1>4, <2>1, <2>2, <2>5, <2>6, <2>7, Zenon
<1>9. CASE sendS2
  <2>1. pc["server"] = "sendS2" /\ pc'["server"] = "done" /\ pc'["client"] = pc["client"]
    BY <1>1, <1>9, ProceedEffect DEF sendS2, SendEcho
  <2>2. closed' = closed
    BY <1>1, <1>9, WriteEffect DEF sendS2, SendEcho
  <2>3. /\ Len(wire'["server"]) = Len(wire["server"])
        /\ Len(wire'["client"]) = Len(wire["client"]) + PacketSize
    <3>1. Write("server", Packet(heard["server"]))
      BY <1>9 DEF sendS2, SendEcho
    <3>2. Packet(heard["server"]) \in Seq(Int) /\ Len(Packet(heard["server"])) = PacketSize
      BY <1>1, PacketLengths
    <3> QED
      BY <1>1, <1>3, <2>2, <3>1, <3>2, WriteLengths
  <2>4. Undisturbed
    BY <1>3, <2>1, <2>2 DEF Undisturbed
  <2>5. /\ SentByServer' = SentByServer + PacketSize
        /\ TakenByServer' = TakenByServer
    BY <1>2, <2>1 DEF SentByServer, TakenByServer
  <2>6. /\ Covers(Len(wire["client"]), TakenByClient, SentByServer)
        /\ Covers(Len(wire["server"]), TakenByServer, SentByClient)
    BY <2>4, Zenon DEF NothingMissing
  <2>7. Covers(Len(wire["client"]) + PacketSize, TakenByClient, SentByServer + PacketSize)
    BY <1>2, <1>4, <2>6, CoversWrite
  <2> QED
    BY <1>4, <2>1, <2>3, <2>5, <2>6, <2>7, Zenon
<1>10. ASSUME NEW n \in 1..PacketSize, receiveC2(n)
       PROVE  /\ Covers(Len(wire["client"]), TakenByClient, SentByServer)'
              /\ Covers(Len(wire["server"]), TakenByServer, SentByClient)'
  <2>1. pc["server"] = "receiveC2" /\ pc'["server"] = "sendS2" /\ pc'["client"] = pc["client"]
    BY <1>1, <1>3, <1>10, ProceedEffect, FailEffect DEF receiveC2, ReceiveEcho
  <2>2. /\ Len(wire'["server"]) = Len(wire["server"]) - n
        /\ n <= PacketSize
        /\ Len(wire'["client"]) = Len(wire["client"])
        /\ closed' = closed
    <3>1. Read("server", n, PacketSize) /\ n \in Nat \ {0}
      BY <1>10, ReadSizes DEF receiveC2, ReceiveEcho
    <3> QED
      BY <1>1, <1>2, <3>1, ReadLengths
  <2>3. Undisturbed
    BY <1>3, <2>1, <2>2 DEF Undisturbed
  <2>5. /\ SentByServer' = SentByServer
        /\ TakenByServer' = TakenByServer + PacketSize
    BY <1>2, <2>1 DEF SentByServer, TakenByServer
  <2>6. /\ Covers(Len(wire["client"]), TakenByClient, SentByServer)
        /\ Covers(Len(wire["server"]), TakenByServer, SentByClient)
    BY <2>3, Zenon DEF NothingMissing
  <2>7. Covers(Len(wire["server"]) - n, TakenByServer + PacketSize, SentByClient)
    <3>1. PacketSize \in Nat /\ n \in 0..PacketSize
      BY <1>2
    <3> QED
      BY <1>2, <1>4, <2>6, <3>1, CoversRead, Zenon
  <2> QED
    BY <1>4, <2>1, <2>2, <2>5, <2>6, <2>7, Zenon
<1> QED
  BY <1>5, <1>6, <1>7, <1>8, <1>9, <1>10 DEF doServerHandshake

\* What the application writes to the client in between only adds to its wire
\* (server.go:438, chunk_streamer.go:206-232).
LEMMA BroadcastMisses ==
    ASSUME NothingMissing, NEW m \in Messages, Broadcast(m)
    PROVE  NothingMissing'
<1>1. UNCHANGED <<pc, wire, closed>>
  BY DEF Broadcast
<1> QED
  BY <1>1, Zenon DEF NothingMissing, Undisturbed, SentByClient, SentByServer,
     TakenByClient, TakenByServer

LEMMA PieceMisses ==
    ASSUME AgreementInv, NothingMissing, NEW n \in 1..Len(writing), WritePiece(n)
    PROVE  NothingMissing'
<1> DEFINE piece == SubSeq(writing, 1, n)
<1> USE DEF Ends
<1>1. HandshakeTypeOK
  BY DEF AgreementInv
<1>2. piece \in Seq(Int) /\ Len(piece) \in Nat
  BY <1>1, PieceCut DEF HandshakeTypeOK
<1>3. /\ UNCHANGED <<pc, closed>>
      /\ wire'["server"] = wire["server"]
      /\ wire'["client"] = wire["client"] \o piece
  BY <1>1 DEF WritePiece, HandshakeTypeOK
<1> HIDE DEF piece
<1>4. Len(wire["client"] \o piece) = Len(wire["client"]) + Len(piece) /\ Len(wire["client"]) \in Nat
  BY <1>1, <1>2, ConcatProperties DEF HandshakeTypeOK, Units
<1>5. /\ TakenByServer' = TakenByServer /\ SentByServer' = SentByServer
      /\ TakenByClient' = TakenByClient /\ SentByClient' = SentByClient
      /\ Undisturbed' = Undisturbed
  BY <1>3 DEF TakenByServer, SentByServer, TakenByClient, SentByClient, Undisturbed
<1>6. ASSUME Undisturbed
      PROVE  Covers(Len(wire'["client"]), TakenByClient, SentByServer)
  <2>1. Len(wire["client"]) + TakenByClient >= SentByServer
    BY <1>6 DEF NothingMissing, Covers
  <2> QED
    BY <1>2, <1>3, <1>4, <2>1, AccountTypes DEF Covers
<1> QED
  BY <1>3, <1>5, <1>6, Zenon DEF NothingMissing

\* The inductive invariant behind NoStandoff: while nobody has closed or
\* failed, nothing of what was sent is missing.
THEOREM HandshakeDelivers == Spec => []NothingMissing
<1>1. Init => NothingMissing
  <2> SUFFICES ASSUME Init PROVE NothingMissing
    OBVIOUS
  <2>1. /\ SentByClient = 0 /\ SentByServer = 0 /\ TakenByClient = 0 /\ TakenByServer = 0
        /\ Len(wire["client"]) = 0 /\ Len(wire["server"]) = 0
    BY EmptySeq DEF Init, Ends, SentByClient, SentByServer, TakenByClient, TakenByServer
  <2> QED
    BY <2>1 DEF NothingMissing, Covers
<1>2. AgreementInv /\ NothingMissing /\ [Next]_vars => NothingMissing'
  <2> SUFFICES ASSUME AgreementInv, NothingMissing, [Next]_vars
               PROVE  NothingMissing'
    OBVIOUS
  <2>1. CASE doClientHandshake
    BY <2>1, ClientMisses
  <2>2. CASE doServerHandshake
    BY <2>2, ServerMisses
  <2>3. ASSUME NEW p \in Ends, ConnectionGone(p) \/ Breaks(p)
        PROVE  NothingMissing'
    <3>1. pc'[p] = "failed"
      BY <2>3, FailEffect DEF AgreementInv, ConnectionGone, Breaks
    <3> QED
      BY <3>1 DEF NothingMissing, Undisturbed
  <2>4. ASSUME NEW p \in Ends, CloseAfterError(p) \/ CloseUnderway(p)
        PROVE  NothingMissing'
    <3>1. closed'[p] = TRUE
      BY <2>4 DEF AgreementInv, HandshakeTypeOK, CloseAfterError, CloseUnderway
    <3> QED
      BY <3>1 DEF NothingMissing, Undisturbed
  <2>5. ASSUME NEW m \in Messages, Broadcast(m) PROVE NothingMissing'
    BY <2>5, BroadcastMisses
  <2>7. ASSUME NEW n \in 1..Len(writing), WritePiece(n) PROVE NothingMissing'
    BY <2>7, PieceMisses
  <2>6. CASE UNCHANGED vars
    BY <2>6, Zenon DEF vars, NothingMissing, Undisturbed, SentByClient, SentByServer,
                TakenByClient, TakenByServer
  <2> QED
    BY <2>1, <2>2, <2>3, <2>4, <2>5, <2>6, <2>7 DEF Next, Client, Server, Ends
<1> QED
  BY <1>1, <1>2, HandshakeInvariant, PTL DEF Spec

\* Neither end waits for an end that waits for it, or that has finished: for
\* every packet size, wherever the stream is cut (handshaker.go:67-152).
THEOREM HandshakeNeverStands == Spec => []NoStandoff
<1>1. AgreementInv /\ NothingMissing => NoStandoff
  <2> SUFFICES ASSUME AgreementInv, NothingMissing, \A q \in Ends : ~closed[q],
                      NEW p \in Ends, Starves(p)
               PROVE  pc[Peer(p)] # "done" /\ ~Starves(Peer(p))
    BY DEF NoStandoff
  <2> USE DEF Ends
  <2>1. /\ PacketSize \in Nat /\ PacketSize >= 1
        /\ Len(wire["client"]) \in Nat /\ Len(wire["server"]) \in Nat
        /\ Len(<<>>) = 0
        /\ TakenByClient \in Nat /\ TakenByServer \in Nat
    BY Sizes, WireLengths, EmptySeq, AccountTypes DEF AgreementInv
  <2>2. /\ pc["client"] \in ClientSteps \cup Ended
        /\ pc["server"] \in ServerSteps \cup Ended
    BY DEF AgreementInv, ServerFirst
  <2>3. CASE p = "client"
    <3>1. /\ pc["client"] \in {"receiveS0", "receiveS1", "receiveS2"}
          /\ Len(wire["client"]) = 0
      BY <2>1, <2>2, <2>3 DEF Starves, Receives, ClientSteps, Ended
    <3>2. SUFFICES ASSUME pc["server"] # "failed"
                   PROVE  pc["server"] # "done" /\ ~Starves("server")
      BY <2>3 DEF Peer, Starves, Receives
    <3>3. /\ Len(wire["server"]) + TakenByServer >= SentByClient
          /\ Len(wire["client"]) + TakenByClient >= SentByServer
      BY <3>1, <3>2 DEF NothingMissing, Undisturbed, Covers
    <3>4. TakenByClient <= 1 + PacketSize /\ SentByClient >= 1 + PacketSize
      BY <2>1, <3>1 DEF TakenByClient, SentByClient
    <3>5. pc["server"] # "done"
      <4>1. pc["server"] = "done" => SentByServer = 1 + PacketSize + PacketSize
        BY DEF SentByServer
      <4> QED
        BY <2>1, <3>1, <3>3, <3>4, <4>1
    <3>6. ASSUME Starves("server") PROVE FALSE
      <4>1. Len(wire["server"]) = 0 /\ pc["server"] \in {"receiveC0", "receiveC1", "receiveC2"}
        BY <2>1, <2>2, <3>6 DEF Starves, Receives, ServerSteps, Ended
      <4>2. pc["server"] # "receiveC0" /\ pc["server"] # "receiveC1"
        <5>1. /\ pc["server"] = "receiveC0" => TakenByServer = 0
              /\ pc["server"] = "receiveC1" => TakenByServer = 1
          BY Zenon DEF TakenByServer
        <5> QED
          BY <2>1, <3>3, <3>4, <4>1, <5>1, AccountTypes
      <4>3. TakenByServer = 1 + PacketSize /\ SentByServer = 1 + PacketSize
        BY <4>1, <4>2 DEF TakenByServer, SentByServer
      <4>4. pc["client"] = "receiveS2"
        BY <2>1, <3>1, <3>3, <4>3 DEF TakenByClient
      <4>5. SentByClient = 1 + PacketSize + PacketSize
        BY <4>4 DEF SentByClient
      <4> QED
        BY <2>1, <3>3, <4>1, <4>3, <4>5
    <3> QED
      BY <3>5, <3>6
  <2>4. CASE p = "server"
    <3>1. /\ pc["server"] \in {"receiveC0", "receiveC1", "receiveC2"}
          /\ Len(wire["server"]) = 0
      BY <2>1, <2>2, <2>4 DEF Starves, Receives, ServerSteps, Ended
    <3>2. SUFFICES ASSUME pc["client"] # "failed"
                   PROVE  pc["client"] # "done" /\ ~Starves("client")
      BY <2>4 DEF Peer, Starves, Receives
    <3>3. /\ Len(wire["server"]) + TakenByServer >= SentByClient
          /\ Len(wire["client"]) + TakenByClient >= SentByServer
      BY <3>1, <3>2 DEF NothingMissing, Undisturbed, Covers
    <3>4. pc["client"] # "done"
      BY <3>1 DEF AgreementInv, ServerFirst
    <3>5. ASSUME Starves("client") PROVE FALSE
      <4>1. Len(wire["client"]) = 0 /\ pc["client"] \in {"receiveS0", "receiveS1", "receiveS2"}
        BY <2>1, <2>2, <3>5 DEF Starves, Receives, ClientSteps, Ended
      <4>2. SentByClient >= 1 + PacketSize
        BY <2>1, <4>1 DEF SentByClient
      <4>3. pc["server"] # "receiveC0" /\ pc["server"] # "receiveC1"
        <5>1. /\ pc["server"] = "receiveC0" => TakenByServer = 0
              /\ pc["server"] = "receiveC1" => TakenByServer = 1
          BY Zenon DEF TakenByServer
        <5> QED
          BY <2>1, <3>1, <3>3, <4>2, <5>1, AccountTypes
      <4>4. TakenByServer = 1 + PacketSize /\ SentByServer = 1 + PacketSize
        BY <3>1, <4>3 DEF TakenByServer, SentByServer
      <4>5. pc["client"] = "receiveS2"
        BY <2>1, <3>3, <4>1, <4>4 DEF TakenByClient
      <4>6. SentByClient = 1 + PacketSize + PacketSize
        BY <4>5 DEF SentByClient
      <4> QED
        BY <2>1, <3>1, <3>3, <4>4, <4>6
    <3> QED
      BY <3>4, <3>5
  <2> QED
    BY <2>3, <2>4
<1> QED
  BY <1>1, HandshakeInvariant, HandshakeDelivers, PTL
=============================================================================
