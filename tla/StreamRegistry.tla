--------------------------- MODULE StreamRegistry ---------------------------
(***************************************************************************)
(* What a StreamManager promises, whoever calls it and in whatever order:  *)
(* every name has one publisher or none, only a stream that is there is    *)
(* joined, a stream starts and ends without subscribers, it ends because   *)
(* somebody went, and nobody is taken from a stream but by going itself.   *)
(***************************************************************************)
CONSTANTS Conns, Names

VARIABLES publisher,      \* of the streams that are there
          subscribers,    \* of every name
          gone            \* connections whose OnDisconnect has been called

Init ==
  /\ publisher = [n \in {} |-> n]
  /\ subscribers = [n \in Names |-> {}]
  /\ gone = {}

Go(c) ==
  /\ gone' = gone \cup {c}
  /\ UNCHANGED <<publisher, subscribers>>

Begin(n, c) ==
  /\ publisher' = [m \in DOMAIN publisher \cup {n} |-> IF m = n THEN c ELSE publisher[m]]
  /\ subscribers' = [subscribers EXCEPT ![n] = {}]
  /\ UNCHANGED gone

End(n) ==
  /\ gone # {}
  /\ n \in DOMAIN publisher
  /\ publisher' = [m \in DOMAIN publisher \ {n} |-> publisher[m]]
  /\ subscribers' = [subscribers EXCEPT ![n] = {}]
  /\ UNCHANGED gone

Join(n, c) ==
  /\ n \in DOMAIN publisher
  /\ subscribers' = [subscribers EXCEPT ![n] = @ \cup {c}]
  /\ UNCHANGED <<publisher, gone>>

Leave(n, c) ==
  /\ c \in gone \cap subscribers[n]
  /\ subscribers' = [subscribers EXCEPT ![n] = @ \ {c}]
  /\ UNCHANGED <<publisher, gone>>

Next ==
  \/ \E c \in Conns : Go(c)
  \/ \E n \in Names :
       \/ End(n)
       \/ \E c \in Conns : Begin(n, c) \/ Join(n, c) \/ Leave(n, c)

Spec == Init /\ [][Next]_<<publisher, subscribers, gone>>

=============================================================================
