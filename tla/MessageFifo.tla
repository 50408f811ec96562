---------------------------- MODULE MessageFifo ----------------------------
(***************************************************************************)
(* What a ChunkStreamer promises between two ends: whole messages arrive,  *)
(* in the order they were written, none altered, none twice.  A connection *)
(* that breaks loses the message being written and accepts no other; what  *)
(* was written before still arrives.                                       *)
(***************************************************************************)
EXTENDS Naturals, Sequences

CONSTANT Contents        \* what a message is to the receiver

VARIABLES inflight, delivered, open

Init == inflight = << >> /\ delivered = << >> /\ open = TRUE

Send ==
  /\ open
  /\ \E m \in Contents : inflight' = Append(inflight, m)
  /\ UNCHANGED <<delivered, open>>

Deliver ==
  /\ inflight # << >>
  /\ delivered' = Append(delivered, Head(inflight))
  /\ inflight' = Tail(inflight)
  /\ UNCHANGED open

Break ==
  /\ open
  /\ inflight # << >>
  /\ inflight' = SubSeq(inflight, 1, Len(inflight) - 1)
  /\ open' = FALSE
  /\ UNCHANGED delivered

Next == Send \/ Deliver \/ Break

Spec == Init /\ [][Next]_<<inflight, delivered, open>>

=============================================================================
