------------------------------ MODULE AnyPeer ------------------------------
(***************************************************************************)
(* A reader whose peer keeps to no rule: any header may follow any other,  *)
(* in the middle of a message too, with as many payload bytes as the       *)
(* reader goes on to take.                                                 *)
(***************************************************************************)
EXTENDS ChunkReader

CONSTANTS
  PeerHeaders,     \* the headers the peer may send
  PeerData,        \* the payloads it may send after one
  MaxReceived      \* bound on the messages read

ASSUME PeerAssumption ==
  /\ PeerHeaders \subseteq WireHeader
  /\ PeerData \subseteq Seq(Byte)
  /\ MaxReceived \in Nat

Init == \E size \in 1 .. MaxChunkSize : ReaderInit(size)

PeerSends ==
  /\ Len(received) < MaxReceived
  /\ \E h \in PeerHeaders :
       /\ ReadsExtended(h) => h.ext # << >>
       /\ \E data \in PeerData : ReadChunk(h, data)

Next == PeerSends

Spec == Init /\ [][Next]_readerVars

=============================================================================
