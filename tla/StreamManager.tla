--------------------------- MODULE StreamManager ---------------------------
(***************************************************************************)
(* The example server's StreamManager and the callbacks that use it.       *)
(* Every method of the manager holds its mutex throughout and is a part of *)
(* one step; a callback makes several calls and is as many steps.  Of each *)
(* connection the handler's goroutine runs OnPublish and OnPlay, one at a  *)
(* time; OnDisconnect is run by whoever closes the connection: the handler *)
(* when its loop is over, and Stop or the application at any moment, both  *)
(* of them when their Closes overlap (see RtmpServer).                     *)
(*                                                                         *)
(* The library calls OnDisconnect, but neither OnPublish nor OnPlay: those *)
(* are called here as server.go:59-63 says they are.  OnMessage is left    *)
(* out: it forwards to the subscribers in a snapshot, which has none, and  *)
(* writes metadata into a copy.                                            *)
(***************************************************************************)
EXTENDS Naturals, Sequences, Functions

CONSTANTS
  Conns,          \* the connections
  Names,          \* stream names
  MaxStreams      \* bound: how many StreamInfos are made

ASSUME StreamsAssumption == MaxStreams \in Nat

VARIABLES
  streams,        \* the manager's map: a pointer into infos, or nil
  infos,          \* the StreamInfos, in the order they were made
  handler,        \* where the handler's goroutine of a connection is
  closing         \* where the OnDisconnects of a connection are

vars == <<streams, infos, handler, closing>>
----------------------------------------------------------------------------
nil == 0

Closers == {"handler", "other"}

Callbacks == {"publishFound", "publishAdds", "playFound", "playAdds"}

StreamInfo == [publisher : Conns, subscribers : Seq(Conns), active : BOOLEAN]

Snapshot == UNION {[N -> Conns] : N \in SUBSET Names}

\* An OnDisconnect: the part of its snapshot it has not visited, and whether
\* a callback of the connection has run since it began (not in the code).
Closing ==
  [at : {"open", "removing", "over"}, left : Snapshot, overlapped : BOOLEAN]

NotClosing == [at |-> "open", left |-> [n \in {} |-> n], overlapped |-> FALSE]

HandlerAt ==
  [at : {"reading", "over"}]
  \cup [at : {"publishAdds", "playAdds"}, name : Names]
  \cup [at : {"publishFound", "playFound"}, name : Names, stream : DOMAIN infos]

Exists(n) == streams[n] # nil

Info(n) == infos[streams[n]]

\* The snapshot, of which onDisconnect uses the publishers.
ListStreams ==
  [n \in {m \in Names : Exists(m) /\ Info(m).active} |-> Info(n).publisher]

AddStreamUnfilled(n, c) ==
  /\ streams' = [streams EXCEPT ![n] = Len(infos) + 1]
  /\ UNCHANGED infos

\* A stream of the name that is there, active or not, is replaced.
AddStream(n, c) ==
  /\ infos' = Append(infos, [publisher |-> c, subscribers |-> << >>, active |-> TRUE])
  /\ streams' = [streams EXCEPT ![n] = Len(infos) + 1]

RemoveStream(n) ==
  \/ /\ Exists(n)
     /\ infos' = [infos EXCEPT ![streams[n]].active = FALSE]
     /\ streams' = [streams EXCEPT ![n] = nil]
  \/ /\ ~Exists(n)
     /\ UNCHANGED <<infos, streams>>

AddSubscriberAgain(n, c) ==
  IF Exists(n) /\ Info(n).active
  THEN infos' = [infos EXCEPT ![streams[n]].subscribers = Append(@, c)]
  ELSE UNCHANGED infos

AddSubscriber(n, c) ==
  IF Exists(n) /\ Info(n).active /\ c \notin Range(Info(n).subscribers)
  THEN infos' = [infos EXCEPT ![streams[n]].subscribers = Append(@, c)]
  ELSE UNCHANGED infos

SwapRemoveLast(subs, i) == SubSeq(subs, 1, Len(subs) - 1)

\* The last subscriber takes the place of the one that goes.
SwapRemove(subs, i) == SubSeq([subs EXCEPT ![i] = subs[Len(subs)]], 1, Len(subs) - 1)

\* The first i is the only one (SubscribedOnce).
RemoveSubscriber(n, c) ==
  \/ /\ Exists(n)
     /\ \E i \in DOMAIN Info(n).subscribers :
          /\ Info(n).subscribers[i] = c
          /\ infos' = [infos EXCEPT ![streams[n]].subscribers = SwapRemove(@, i)]
     /\ UNCHANGED streams
  \/ /\ Exists(n) => c \notin Range(Info(n).subscribers)
     /\ UNCHANGED <<infos, streams>>
----------------------------------------------------------------------------
Init ==
  /\ streams = [n \in Names |-> nil]
  /\ infos = << >>
  /\ handler = [c \in Conns |-> [at |-> "reading"]]
  /\ closing = [c \in Conns |-> [k \in Closers |-> NotClosing]]

\* A callback begins: the OnDisconnects under way or over did not see it.
Overlaps(c) ==
  closing' = [closing EXCEPT ![c] =
               [k \in Closers |->
                  [closing[c][k] EXCEPT !.overlapped = (closing[c][k].at # "open")]]]

Goes(c, at) == handler' = [handler EXCEPT ![c] = at]

\* onPublish, up to the return of GetStream.
OnPublish(c, n) ==
  /\ handler[c].at = "reading"
  /\ Len(infos) < MaxStreams
  /\ Goes(c, IF Exists(n)
             THEN [at |-> "publishFound", name |-> n, stream |-> streams[n]]
             ELSE [at |-> "publishAdds", name |-> n])
  /\ Overlaps(c)
  /\ UNCHANGED <<streams, infos>>

\* stream.Active, read without the mutex: an active one refuses the publisher.
PublishChecks(c) ==
  /\ handler[c].at = "publishFound"
  /\ Goes(c, IF infos[handler[c].stream].active
             THEN [at |-> "reading"]
             ELSE [at |-> "publishAdds", name |-> handler[c].name])
  /\ UNCHANGED <<streams, infos, closing>>

PublishAdds(c) ==
  /\ handler[c].at = "publishAdds"
  /\ Len(infos) < MaxStreams
  /\ AddStream(handler[c].name, c)
  /\ Goes(c, [at |-> "reading"])
  /\ UNCHANGED closing

\* onPlay, up to the return of GetStream.
OnPlay(c, n) ==
  /\ handler[c].at = "reading"
  /\ Exists(n)
  /\ Goes(c, [at |-> "playFound", name |-> n, stream |-> streams[n]])
  /\ Overlaps(c)
  /\ UNCHANGED <<streams, infos>>

PlayChecks(c) ==
  /\ handler[c].at = "playFound"
  /\ Goes(c, IF infos[handler[c].stream].active
             THEN [at |-> "playAdds", name |-> handler[c].name]
             ELSE [at |-> "reading"])
  /\ UNCHANGED <<streams, infos, closing>>

PlayAdds(c) ==
  /\ handler[c].at = "playAdds"
  /\ AddSubscriber(handler[c].name, c)
  /\ Goes(c, [at |-> "reading"])
  /\ UNCHANGED <<streams, closing>>

\* start returns: no callback of the handler follows.
HandlerLeaves(c) ==
  /\ handler[c].at = "reading"
  /\ Goes(c, [at |-> "over"])
  /\ UNCHANGED <<streams, infos, closing>>

\* onDisconnect, up to the return of ListStreams.
OnDisconnect(c, k) ==
  /\ closing[c][k].at = "open"
  /\ k = "handler" => handler[c].at = "over"
  /\ closing' = [closing EXCEPT ![c][k] =
                  [at |-> "removing", left |-> ListStreams,
                   overlapped |-> (handler[c].at \in Callbacks)]]
  /\ UNCHANGED <<streams, infos, handler>>

DisconnectRemovesOwn(c, n, publisher) ==
  IF publisher = c THEN RemoveStream(n) ELSE UNCHANGED <<streams, infos>>

DisconnectRemoves(c, n, publisher) ==
  IF publisher = c THEN RemoveStream(n) ELSE RemoveSubscriber(n, c)

\* One name of the snapshot, in the order of a Go map: any.
DisconnectVisits(c, k) ==
  /\ closing[c][k].at = "removing"
  /\ \E n \in DOMAIN closing[c][k].left :
       /\ DisconnectRemoves(c, n, closing[c][k].left[n])
       /\ closing' = [closing EXCEPT ![c][k].left = Restrict(@, DOMAIN @ \ {n})]
  /\ UNCHANGED handler

DisconnectEnds(c, k) ==
  /\ closing[c][k].at = "removing"
  /\ DOMAIN closing[c][k].left = {}
  /\ closing' = [closing EXCEPT ![c][k].at = "over"]
  /\ UNCHANGED <<streams, infos, handler>>

HandlerNext(c) ==
  \/ \E n \in Names : OnPublish(c, n) \/ OnPlay(c, n)
  \/ PublishChecks(c) \/ PublishAdds(c)
  \/ PlayChecks(c) \/ PlayAdds(c)
  \/ HandlerLeaves(c)

Next ==
  \E c \in Conns :
    \/ HandlerNext(c)
    \/ \E k \in Closers : OnDisconnect(c, k) \/ DisconnectVisits(c, k) \/ DisconnectEnds(c, k)

Spec == Init /\ [][Next]_vars
----------------------------------------------------------------------------
\* Pointers point at StreamInfos, and everything has its type.
StreamsTypeOK ==
  /\ infos \in Seq(StreamInfo)
  /\ streams \in [Names -> 0 .. Len(infos)]
  /\ handler \in [Conns -> HandlerAt]
  /\ closing \in [Conns -> [Closers -> Closing]]

\* A connection is subscribed once, so that leaving once ends it.
SubscribedOnce == \A i \in DOMAIN infos : IsInjective(infos[i].subscribers)

\* When an OnDisconnect that no callback of its connection overlapped has
\* returned, the connection publishes nothing and is subscribed to nothing,
\* although the loop of onDisconnect goes over a snapshot and others publish,
\* play and disconnect between its steps (main.go:296-308).
LeavesNothingBehind ==
  \A c \in Conns : \A k \in Closers :
    closing[c][k].at = "over" /\ ~closing[c][k].overlapped =>
      \A n \in Names :
        Exists(n) => Info(n).publisher # c /\ c \notin Range(Info(n).subscribers)

Registry == INSTANCE StreamRegistry
  WITH publisher <- [n \in {m \in Names : Exists(m)} |-> Info(n).publisher],
       subscribers <- [n \in Names |-> IF Exists(n) THEN Range(Info(n).subscribers) ELSE {}],
       gone <- {c \in Conns : \E k \in Closers : closing[c][k].at # "open"}

\* Maps, pointers and slices, with swaps of their elements, are a registry of
\* publishers and sets of subscribers.
ImplementsRegistry == Registry!Spec
=============================================================================
