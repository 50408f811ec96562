------------------------ MODULE StreamManagerProofs ------------------------
(***************************************************************************)
(* A StreamManager implements a registry, and onDisconnect leaves nothing  *)
(* behind, for any connections, names and interleavings.                   *)
(***************************************************************************)
EXTENDS StreamManager, TLAPS

----------------------------------------------------------------------------
(* Slices of subscribers. *)

\* A subscriber that is new keeps the slice without repetition.
LEMMA AppendNew ==
  ASSUME NEW S, NEW s \in Seq(S), NEW x \in S, IsInjective(s), x \notin Range(s)
  PROVE  /\ Append(s, x) \in Seq(S)
         /\ IsInjective(Append(s, x))
         /\ Range(Append(s, x)) = Range(s) \cup {x}
<1> DEFINE t == Append(s, x)
<1>1. t \in Seq(S) /\ Len(t) = Len(s) + 1 /\ DOMAIN t = 1 .. Len(s) + 1
  OBVIOUS
<1>2. \A i \in 1 .. Len(s) : t[i] = s[i]
  OBVIOUS
<1>3. t[Len(s) + 1] = x
  OBVIOUS
<1>4. DOMAIN s = 1 .. Len(s) /\ Len(s) \in Nat
  OBVIOUS
<1> HIDE DEF t
<1>5. ASSUME NEW i \in DOMAIN t, NEW j \in DOMAIN t, t[i] = t[j]
      PROVE  i = j
  <2>1. CASE i \in DOMAIN s /\ j \in DOMAIN s
    BY <2>1, <1>2, <1>4, <1>5 DEF IsInjective
  <2>2. CASE i \in DOMAIN s /\ j = Len(s) + 1
    BY <2>2, <1>2, <1>3, <1>4, <1>5 DEF Range
  <2>3. CASE i = Len(s) + 1 /\ j \in DOMAIN s
    BY <2>3, <1>2, <1>3, <1>4, <1>5 DEF Range
  <2>4. CASE i = Len(s) + 1 /\ j = Len(s) + 1
    BY <2>4
  <2>5. \A k \in DOMAIN t : k \in DOMAIN s \/ k = Len(s) + 1
    BY <1>1, <1>4
  <2> QED
    BY <2>1, <2>2, <2>3, <2>4, <2>5
<1>6. Range(t) = Range(s) \cup {x}
  <2>1. \A y \in Range(t) : y \in Range(s) \cup {x}
    BY <1>1, <1>2, <1>3, <1>4 DEF Range
  <2>2. Len(s) + 1 \in DOMAIN t /\ \A i \in DOMAIN s : i \in DOMAIN t
    BY <1>1, <1>4
  <2>3. \A y \in Range(s) \cup {x} : y \in Range(t)
    BY <2>2, <1>2, <1>3, <1>4 DEF Range
  <2> QED
    BY <2>1, <2>3
<1> QED
  BY <1>1, <1>5, <1>6 DEF t, IsInjective

\* Swap and cut removes the subscriber at i and no other.
LEMMA SwapRemoves ==
  ASSUME NEW S, NEW s \in Seq(S), NEW i \in DOMAIN s, IsInjective(s)
  PROVE  /\ SwapRemove(s, i) \in Seq(S)
         /\ IsInjective(SwapRemove(s, i))
         /\ Range(SwapRemove(s, i)) = Range(s) \ {s[i]}
<1> DEFINE n == Len(s)
           u == [s EXCEPT ![i] = s[n]]
           t == SubSeq(u, 1, n - 1)
<1>1. n \in Nat /\ DOMAIN s = 1 .. n /\ i \in 1 .. n /\ n \in DOMAIN s
  OBVIOUS
<1>2. \A j \in 1 .. n : s[j] \in S
  OBVIOUS
<1>3. u \in Seq(S) /\ Len(u) = n
  BY <1>1, <1>2
<1>4. \A j \in 1 .. n : u[j] = IF j = i THEN s[n] ELSE s[j]
  BY <1>1
<1> HIDE DEF u, n
<1>5. t \in Seq(S) /\ DOMAIN t = 1 .. n - 1
  BY <1>1, <1>3
<1>6. \A j \in 1 .. n - 1 : t[j] = u[j]
  BY <1>1, <1>3
<1> HIDE DEF t
<1>7. \A j \in 1 .. n - 1 : t[j] = IF j = i THEN s[n] ELSE s[j]
  BY <1>1, <1>4, <1>6
<1>8. \A j, k \in DOMAIN s : s[j] = s[k] => j = k
  BY DEF IsInjective
<1>9. IsInjective(t)
  BY <1>1, <1>5, <1>7, <1>8 DEF IsInjective
<1>10. \A y \in Range(t) : y \in Range(s) \ {s[i]}
  <2>1. SUFFICES ASSUME NEW j \in 1 .. n - 1
                 PROVE  t[j] \in Range(s) \ {s[i]}
    BY <1>5 DEF Range
  <2>2. CASE j = i
    <3>1. t[j] = s[n] /\ n # i
      BY <1>1, <1>7, <2>2
    <3> QED
      BY <3>1, <1>1, <1>8 DEF Range
  <2>3. CASE j # i
    <3>1. t[j] = s[j] /\ j \in DOMAIN s
      BY <1>1, <1>7, <2>3
    <3> QED
      BY <3>1, <1>1, <1>8, <2>3 DEF Range
  <2> QED
    BY <2>2, <2>3
<1>11. \A y \in Range(s) \ {s[i]} : y \in Range(t)
  <2>1. SUFFICES ASSUME NEW j \in DOMAIN s, s[j] # s[i]
                 PROVE  s[j] \in Range(t)
    BY DEF Range
  <2>2. CASE j = n
    <3>1. i \in 1 .. n - 1
      BY <1>1, <2>1, <2>2
    <3>2. t[i] = s[j] /\ i \in DOMAIN t
      BY <3>1, <1>5, <1>7, <2>2
    <3> QED
      BY <3>2 DEF Range
  <2>3. CASE j # n
    <3>1. j \in 1 .. n - 1 /\ j # i
      BY <1>1, <2>1, <2>3
    <3>2. t[j] = s[j] /\ j \in DOMAIN t
      BY <3>1, <1>5, <1>7
    <3> QED
      BY <3>2 DEF Range
  <2> QED
    BY <2>2, <2>3
<1> QED
  BY <1>5, <1>9, <1>10, <1>11 DEF t, u, n, SwapRemove
----------------------------------------------------------------------------
(* The manager's data and what its methods do to a name. *)

\* Streams that are there are active, and no two names share one.
ManagerInv ==
  /\ infos \in Seq(StreamInfo)
  /\ streams \in [Names -> 0 .. Len(infos)]
  /\ SubscribedOnce
  /\ \A n \in Names : Exists(n) => Info(n).active
  /\ \A m, n \in Names : Exists(n) /\ streams[m] = streams[n] => m = n

\* A step that leaves the name m alone.
Untouched(m) ==
  /\ Exists(m)' <=> Exists(m)
  /\ Exists(m) => Info(m)' = Info(m)

LEMMA Pointers ==
  ASSUME ManagerInv
  PROVE  /\ DOMAIN infos = 1 .. Len(infos) /\ Len(infos) \in Nat
         /\ \A n \in Names : Exists(n) => /\ streams[n] \in DOMAIN infos
                                          /\ Info(n) \in StreamInfo
                                          /\ IsInjective(Info(n).subscribers)
         /\ \A i \in DOMAIN infos : infos[i] \in StreamInfo
<1>1. DOMAIN infos = 1 .. Len(infos) /\ Len(infos) \in Nat
      /\ \A i \in DOMAIN infos : infos[i] \in StreamInfo
  BY DEF ManagerInv
<1>2. ASSUME NEW n \in Names, Exists(n)
      PROVE  streams[n] \in DOMAIN infos
  BY <1>1, <1>2 DEF ManagerInv, Exists, nil
<1> QED
  BY <1>1, <1>2 DEF ManagerInv, SubscribedOnce, Info

\* AddStream gives the name a fresh StreamInfo without subscribers.
LEMMA AddStreamEffect ==
  ASSUME ManagerInv, NEW n \in Names, NEW c \in Conns, AddStream(n, c)
  PROVE  /\ ManagerInv'
         /\ Exists(n)' /\ Info(n)'.publisher = c /\ Range(Info(n)'.subscribers) = {}
         /\ \A m \in Names \ {n} : Untouched(m)
         /\ DOMAIN infos \subseteq DOMAIN infos'
<1> DEFINE new == [publisher |-> c, subscribers |-> << >>, active |-> TRUE]
           len == Len(infos)
<1>1. new \in StreamInfo /\ IsInjective(new.subscribers) /\ Range(new.subscribers) = {}
  BY DEF StreamInfo, IsInjective, Range
<1>2. new.publisher = c /\ new.active = TRUE
  OBVIOUS
<1> HIDE DEF new
<1>3. infos' = Append(infos, new) /\ streams' = [streams EXCEPT ![n] = len + 1]
  BY DEF AddStream, new
<1>4. len \in Nat /\ DOMAIN infos = 1 .. len /\ infos \in Seq(StreamInfo)
  BY Pointers DEF ManagerInv
<1> HIDE DEF len
<1>5. /\ infos' \in Seq(StreamInfo) /\ DOMAIN infos' = 1 .. len + 1
      /\ Len(infos') = len + 1
      /\ \A i \in 1 .. len : infos'[i] = infos[i]
      /\ infos'[len + 1] = new
  BY <1>1, <1>3, <1>4 DEF len
<1>6. /\ streams' \in [Names -> 0 .. len + 1]
      /\ streams'[n] = len + 1
      /\ \A m \in Names \ {n} : streams'[m] = streams[m]
      /\ \A m \in Names : streams[m] \in 0 .. len
  BY <1>3, <1>4 DEF ManagerInv, len
<1>7. Exists(n)' /\ Info(n)' = new
  BY <1>4, <1>5, <1>6 DEF Exists, Info, nil
<1>8. ASSUME NEW m \in Names \ {n}
      PROVE  Untouched(m)
  BY <1>4, <1>5, <1>6 DEF Untouched, Exists, Info, nil
<1>9. SubscribedOnce'
  <2>1. \A i \in 1 .. len : IsInjective(infos[i].subscribers)
    BY <1>4 DEF ManagerInv, SubscribedOnce
  <2>2. \A i \in 1 .. len + 1 : i \in 1 .. len \/ i = len + 1
    BY <1>4
  <2> QED
    BY <2>1, <2>2, <1>1, <1>5 DEF SubscribedOnce
<1>10. \A m \in Names : (Exists(m) => Info(m).active)'
  <2>1. (Exists(n) => Info(n).active)'
    BY <1>2, <1>7
  <2>2. ASSUME NEW m \in Names \ {n} PROVE (Exists(m) => Info(m).active)'
    BY <1>8 DEF Untouched, ManagerInv
  <2> QED
    BY <2>1, <2>2
<1>11. \A k, m \in Names : (Exists(m) /\ streams[k] = streams[m] => k = m)'
  BY <1>4, <1>6 DEF ManagerInv, Exists, nil
<1>12. ManagerInv'
  BY <1>5, <1>6, <1>9, <1>10, <1>11 DEF ManagerInv
<1>13. DOMAIN infos \subseteq DOMAIN infos'
  BY <1>4, <1>5
<1> QED
  BY <1>1, <1>2, <1>7, <1>8, <1>12, <1>13

\* A change of one name's StreamInfo that keeps the invariant's parts.
LEMMA InfoChanges ==
  ASSUME ManagerInv, NEW n \in Names, Exists(n), NEW info \in StreamInfo,
         info.active, IsInjective(info.subscribers),
         infos' = [infos EXCEPT ![streams[n]] = info], UNCHANGED streams
  PROVE  /\ ManagerInv'
         /\ Exists(n)' /\ Info(n)' = info
         /\ \A m \in Names \ {n} : Untouched(m)
         /\ DOMAIN infos' = DOMAIN infos
<1> DEFINE len == Len(infos)
           p == streams[n]
<1>1. len \in Nat /\ DOMAIN infos = 1 .. len /\ infos \in Seq(StreamInfo) /\ p \in 1 .. len
  BY Pointers DEF ManagerInv
<1>2. /\ infos' \in Seq(StreamInfo) /\ Len(infos') = len /\ DOMAIN infos' = 1 .. len
      /\ infos'[p] = info
      /\ \A i \in 1 .. len : i # p => infos'[i] = infos[i]
  BY <1>1
<1> HIDE DEF len
<1>3. Exists(n)' /\ Info(n)' = info
  BY <1>2 DEF Exists, Info
<1>4. ASSUME NEW m \in Names \ {n}
      PROVE  Untouched(m)
  <2>1. Exists(m) => streams[m] # p /\ streams[m] \in 1 .. len
    BY <1>1, Pointers DEF ManagerInv
  <2> QED
    BY <2>1, <1>2 DEF Untouched, Exists, Info
<1>5. SubscribedOnce'
  BY <1>1, <1>2 DEF ManagerInv, SubscribedOnce
<1>6. \A m \in Names : (Exists(m) => Info(m).active)'
  <2>1. (Exists(n) => Info(n).active)'
    BY <1>3
  <2>2. ASSUME NEW m \in Names \ {n} PROVE (Exists(m) => Info(m).active)'
    BY <1>4 DEF Untouched, ManagerInv
  <2> QED
    BY <2>1, <2>2
<1>7. \A k, m \in Names : (Exists(m) /\ streams[k] = streams[m] => k = m)'
  BY DEF ManagerInv, Exists
<1>8. ManagerInv'
  BY <1>2, <1>5, <1>6, <1>7 DEF ManagerInv, len
<1> QED
  BY <1>1, <1>2, <1>3, <1>4, <1>8

\* AddSubscriber adds the connection to an existing stream's, once.
LEMMA AddSubscriberEffect ==
  ASSUME ManagerInv, NEW n \in Names, NEW c \in Conns,
         AddSubscriber(n, c), UNCHANGED streams
  PROVE  /\ ManagerInv'
         /\ Exists(n) => /\ Exists(n)' /\ Info(n)'.publisher = Info(n).publisher
                         /\ Range(Info(n)'.subscribers) = Range(Info(n).subscribers) \cup {c}
         /\ ~Exists(n) => UNCHANGED infos
         /\ \A m \in Names \ {n} : Untouched(m)
         /\ DOMAIN infos' = DOMAIN infos
<1>1. CASE Exists(n) /\ c \notin Range(Info(n).subscribers)
  <2> DEFINE old == Info(n)
             info == [old EXCEPT !.subscribers = Append(old.subscribers, c)]
  <2>1. old \in StreamInfo /\ old.active /\ IsInjective(old.subscribers)
    BY <1>1, Pointers DEF ManagerInv
  <2>2. infos' = [infos EXCEPT ![streams[n]] = info]
    BY <1>1, <2>1, Pointers DEF AddSubscriber, Info
  <2> HIDE DEF old
  <2>3. /\ Append(old.subscribers, c) \in Seq(Conns)
        /\ IsInjective(Append(old.subscribers, c))
        /\ Range(Append(old.subscribers, c)) = Range(old.subscribers) \cup {c}
    <3>1. old.subscribers \in Seq(Conns) /\ c \notin Range(old.subscribers)
      BY <1>1, <2>1 DEF StreamInfo, old
    <3> QED
      BY <3>1, <2>1, AppendNew
  <2>4. /\ info \in StreamInfo /\ info.active = old.active
        /\ info.publisher = old.publisher
        /\ info.subscribers = Append(old.subscribers, c)
    BY <2>1, <2>3 DEF StreamInfo
  <2> HIDE DEF info
  <2>5. info.active /\ IsInjective(info.subscribers)
    BY <2>1, <2>3, <2>4
  <2>6. /\ ManagerInv' /\ Exists(n)' /\ Info(n)' = info
        /\ \A m \in Names \ {n} : Untouched(m)
        /\ DOMAIN infos' = DOMAIN infos
    BY <1>1, <2>2, <2>4, <2>5, InfoChanges
  <2> QED
    BY <1>1, <2>3, <2>4, <2>6 DEF old
<1>2. CASE ~(Exists(n) /\ c \notin Range(Info(n).subscribers))
  <2>1. UNCHANGED infos
    BY <1>2 DEF AddSubscriber
  <2>2. ManagerInv' /\ \A m \in Names : Untouched(m)
    BY <2>1 DEF ManagerInv, SubscribedOnce, Untouched, Exists, Info
  <2>3. Exists(n) => c \in Range(Info(n).subscribers)
    BY <1>2
  <2> QED
    BY <2>1, <2>2, <2>3 DEF Untouched
<1> QED
  BY <1>1, <1>2

\* RemoveSubscriber takes the connection from an existing stream's.
LEMMA RemoveSubscriberEffect ==
  ASSUME ManagerInv, NEW n \in Names, NEW c \in Conns, RemoveSubscriber(n, c)
  PROVE  /\ ManagerInv'
         /\ Exists(n) => /\ Exists(n)' /\ Info(n)'.publisher = Info(n).publisher
                         /\ Range(Info(n)'.subscribers) = Range(Info(n).subscribers) \ {c}
         /\ ~Exists(n) => UNCHANGED <<streams, infos>>
         /\ \A m \in Names \ {n} : Untouched(m)
         /\ DOMAIN infos' = DOMAIN infos
<1>1. CASE Exists(n) /\ UNCHANGED streams
           /\ \E i \in DOMAIN Info(n).subscribers :
                /\ Info(n).subscribers[i] = c
                /\ infos' = [infos EXCEPT ![streams[n]].subscribers = SwapRemove(@, i)]
  <2>1. PICK i \in DOMAIN Info(n).subscribers :
              /\ Info(n).subscribers[i] = c
              /\ infos' = [infos EXCEPT ![streams[n]].subscribers = SwapRemove(@, i)]
    BY <1>1
  <2> DEFINE old == Info(n)
             cut == SwapRemove(old.subscribers, i)
             info == [old EXCEPT !.subscribers = cut]
  <2>2. old \in StreamInfo /\ old.active /\ IsInjective(old.subscribers)
    BY <1>1, Pointers DEF ManagerInv
  <2>3. infos' = [infos EXCEPT ![streams[n]] = info]
    BY <1>1, <2>1, <2>2, Pointers DEF Info
  <2>4. cut \in Seq(Conns) /\ IsInjective(cut) /\ Range(cut) = Range(old.subscribers) \ {c}
    <3>1. old.subscribers \in Seq(Conns)
      BY <2>2 DEF StreamInfo
    <3> QED
      BY <3>1, <2>1, <2>2, SwapRemoves
  <2> HIDE DEF old, cut
  <2>5. /\ info \in StreamInfo /\ info.active = old.active
        /\ info.publisher = old.publisher /\ info.subscribers = cut
    BY <2>2, <2>4 DEF StreamInfo
  <2> HIDE DEF info
  <2>6. info.active /\ IsInjective(info.subscribers)
    BY <2>2, <2>4, <2>5
  <2>7. /\ ManagerInv' /\ Exists(n)' /\ Info(n)' = info
        /\ \A m \in Names \ {n} : Untouched(m)
        /\ DOMAIN infos' = DOMAIN infos
    BY <1>1, <2>3, <2>5, <2>6, InfoChanges
  <2> QED
    BY <1>1, <2>4, <2>5, <2>7 DEF old
<1>2. CASE /\ Exists(n) => c \notin Range(Info(n).subscribers)
           /\ UNCHANGED <<infos, streams>>
  <2>1. ManagerInv' /\ \A m \in Names : Untouched(m)
    BY <1>2 DEF ManagerInv, SubscribedOnce, Untouched, Exists, Info
  <2> QED
    BY <2>1, <1>2 DEF Untouched
<1> QED
  BY <1>1, <1>2 DEF RemoveSubscriber

\* RemoveStream empties the name.
LEMMA RemoveStreamEffect ==
  ASSUME ManagerInv, NEW n \in Names, RemoveStream(n)
  PROVE  /\ ManagerInv' /\ ~Exists(n)'
         /\ ~Exists(n) => UNCHANGED <<streams, infos>>
         /\ \A m \in Names \ {n} : Untouched(m)
         /\ DOMAIN infos' = DOMAIN infos
<1>1. CASE /\ Exists(n)
           /\ infos' = [infos EXCEPT ![streams[n]].active = FALSE]
           /\ streams' = [streams EXCEPT ![n] = nil]
  <2> DEFINE len == Len(infos)
             p == streams[n]
             ended == [Info(n) EXCEPT !.active = FALSE]
  <2>1. /\ len \in Nat /\ DOMAIN infos = 1 .. len /\ infos \in Seq(StreamInfo)
        /\ p \in 1 .. len /\ Info(n) \in StreamInfo /\ IsInjective(Info(n).subscribers)
    BY <1>1, Pointers DEF ManagerInv
  <2>2. ended \in StreamInfo /\ ended.subscribers = Info(n).subscribers
    BY <2>1 DEF StreamInfo
  <2>3. infos' = [infos EXCEPT ![p] = ended]
    BY <1>1, <2>1 DEF Info
  <2> HIDE DEF ended
  <2>4. /\ infos' \in Seq(StreamInfo) /\ Len(infos') = len /\ DOMAIN infos' = 1 .. len
        /\ infos'[p] = ended
        /\ \A i \in 1 .. len : i # p => infos'[i] = infos[i]
    BY <2>1, <2>2, <2>3
  <2>5. /\ streams' \in [Names -> 0 .. len] /\ streams'[n] = 0
        /\ \A m \in Names \ {n} : streams'[m] = streams[m]
    BY <1>1, <2>1 DEF ManagerInv, nil
  <2>6. ~Exists(n)'
    BY <2>5 DEF Exists, nil
  <2> HIDE DEF len
  <2>7. ASSUME NEW m \in Names \ {n}
        PROVE  Untouched(m)
    <3>1. Exists(m) => streams[m] # p /\ streams[m] \in 1 .. len
      BY <1>1, <2>1, Pointers DEF ManagerInv
    <3> QED
      BY <3>1, <2>4, <2>5 DEF Untouched, Exists, Info
  <2>8. SubscribedOnce'
    BY <2>1, <2>2, <2>4 DEF ManagerInv, SubscribedOnce
  <2>9. \A m \in Names : (Exists(m) => Info(m).active)'
    BY <2>6, <2>7 DEF Untouched, ManagerInv
  <2>10. \A k, m \in Names : (Exists(m) /\ streams[k] = streams[m] => k = m)'
    BY <2>5 DEF ManagerInv, Exists, nil
  <2>11. ManagerInv'
    BY <2>4, <2>5, <2>8, <2>9, <2>10 DEF ManagerInv, len
  <2> QED
    BY <1>1, <2>1, <2>4, <2>6, <2>7, <2>11
<1>2. CASE ~Exists(n) /\ UNCHANGED <<infos, streams>>
  BY <1>2 DEF ManagerInv, SubscribedOnce, Untouched, Exists, Info
<1> QED
  BY <1>1, <1>2 DEF RemoveStream
----------------------------------------------------------------------------
(* onDisconnect. *)

\* What ties a connection to a stream of the name.
Serves(c, n) == Exists(n) /\ Info(n).publisher = c

Follows(c, n) == Exists(n) /\ c \in Range(Info(n).subscribers)

\* An OnDisconnect that saw no callback of its connection has all that is
\* still tied to the connection before it, and knows the connection's own
\* streams for what they are.
CleanAt(c, k) ==
  closing[c][k].at # "open" /\ ~closing[c][k].overlapped =>
    /\ handler[c].at \notin Callbacks
    /\ closing[c][k].at = "removing" =>
         \A n \in Names :
           /\ Serves(c, n) => n \in DOMAIN closing[c][k].left /\ closing[c][k].left[n] = c
           /\ Follows(c, n) => n \in DOMAIN closing[c][k].left
    /\ closing[c][k].at = "over" =>
         \A n \in Names : ~Serves(c, n) /\ ~Follows(c, n)

StreamsInv ==
  /\ StreamsTypeOK
  /\ ManagerInv
  /\ \A c \in Conns : \A k \in Closers : CleanAt(c, k)

\* A step that ties a connection to no name it was not tied to.
NoNewTies(c) ==
  \A n \in Names : (Serves(c, n)' => Serves(c, n)) /\ (Follows(c, n)' => Follows(c, n))

LEMMA UntouchedTies ==
  ASSUME NEW c, NEW n, Untouched(n)
  PROVE  (Serves(c, n)' => Serves(c, n)) /\ (Follows(c, n)' => Follows(c, n))
  BY DEF Untouched, Serves, Follows

LEMMA UnchangedTies ==
  ASSUME NEW c, UNCHANGED <<streams, infos>>
  PROVE  NoNewTies(c)
  BY DEF NoNewTies, Serves, Follows, Exists, Info

LEMMA AddStreamTies ==
  ASSUME ManagerInv, NEW n \in Names, NEW d \in Conns, AddStream(n, d),
         NEW c \in Conns, c # d
  PROVE  NoNewTies(c)
<1>1. /\ Info(n)'.publisher = d /\ Range(Info(n)'.subscribers) = {}
      /\ \A m \in Names \ {n} : Untouched(m)
  BY AddStreamEffect
<1>2. ~Serves(c, n)' /\ ~Follows(c, n)'
  BY <1>1 DEF Serves, Follows
<1> QED
  BY <1>1, <1>2, UntouchedTies DEF NoNewTies

LEMMA AddSubscriberTies ==
  ASSUME ManagerInv, NEW n \in Names, NEW d \in Conns,
         AddSubscriber(n, d), UNCHANGED streams, NEW c \in Conns, c # d
  PROVE  NoNewTies(c)
<1>1. /\ Exists(n) => /\ Info(n)'.publisher = Info(n).publisher
                      /\ Range(Info(n)'.subscribers) = Range(Info(n).subscribers) \cup {d}
      /\ \A m \in Names \ {n} : Untouched(m)
  BY AddSubscriberEffect
<1>2. Exists(n)' <=> Exists(n)
  BY DEF Exists
<1>3. (Serves(c, n)' => Serves(c, n)) /\ (Follows(c, n)' => Follows(c, n))
  BY <1>1, <1>2 DEF Serves, Follows
<1> QED
  BY <1>1, <1>3, UntouchedTies DEF NoNewTies

\* A visit of onDisconnect ties nobody to anything, and its own connection no
\* longer to the name it visits.
LEMMA VisitTies ==
  ASSUME ManagerInv, NEW n \in Names, NEW d \in Conns, NEW p,
         DisconnectRemoves(d, n, p), Serves(d, n) => p = d
  PROVE  /\ ManagerInv'
         /\ DOMAIN infos' = DOMAIN infos
         /\ \A c \in Conns : NoNewTies(c)
         /\ ~Serves(d, n)' /\ ~Follows(d, n)'
<1>1. CASE p = d
  <2>1. RemoveStream(n)
    BY <1>1 DEF DisconnectRemoves
  <2>2. /\ ManagerInv' /\ ~Exists(n)' /\ DOMAIN infos' = DOMAIN infos
        /\ \A m \in Names \ {n} : Untouched(m)
    BY <2>1, RemoveStreamEffect
  <2>3. \A c \in Conns : ~Serves(c, n)' /\ ~Follows(c, n)'
    BY <2>2 DEF Serves, Follows
  <2> QED
    BY <2>2, <2>3, UntouchedTies DEF NoNewTies
<1>2. CASE p # d
  <2>1. RemoveSubscriber(n, d)
    BY <1>2 DEF DisconnectRemoves
  <2>2. /\ ManagerInv' /\ DOMAIN infos' = DOMAIN infos
        /\ Exists(n) => /\ Exists(n)' /\ Info(n)'.publisher = Info(n).publisher
                        /\ Range(Info(n)'.subscribers) = Range(Info(n).subscribers) \ {d}
        /\ ~Exists(n) => UNCHANGED <<streams, infos>>
        /\ \A m \in Names \ {n} : Untouched(m)
    BY <2>1, RemoveSubscriberEffect
  <2>3. Exists(n)' <=> Exists(n)
    BY <2>2 DEF Exists
  <2>4. \A c \in Conns : (Serves(c, n)' => Serves(c, n)) /\ (Follows(c, n)' => Follows(c, n))
    BY <2>2, <2>3 DEF Serves, Follows
  <2>5. ~Serves(d, n)' /\ ~Follows(d, n)'
    BY <2>2, <2>3, <1>2 DEF Serves, Follows
  <2> QED
    BY <2>2, <2>4, <2>5, UntouchedTies DEF NoNewTies
<1> QED
  BY <1>1, <1>2

\* Who is not touched and gets no tie stays clean.
LEMMA CleanStays ==
  ASSUME NEW c \in Conns, NEW k \in Closers, CleanAt(c, k), NoNewTies(c),
         closing'[c][k] = closing[c][k],
         handler'[c].at \in Callbacks => handler[c].at \in Callbacks
  PROVE  CleanAt(c, k)'
  BY DEF CleanAt, NoNewTies
----------------------------------------------------------------------------
(* The invariant, one lemma per kind of step. *)

LEMMA StreamsInit == Init => StreamsInv
<1> SUFFICES ASSUME Init PROVE StreamsInv
  OBVIOUS
<1>1. infos = << >> /\ Len(infos) = 0 /\ infos \in Seq(StreamInfo) /\ DOMAIN infos = {}
  BY DEF Init
<1>2. \A n \in Names : ~Exists(n)
  BY DEF Init, Exists
<1>3. NotClosing \in Closing /\ NotClosing.at = "open"
  <2>1. [n \in {} |-> n] \in Snapshot
    <3>1. [n \in {} |-> n] \in [{} -> Conns] /\ {} \in SUBSET Names
      OBVIOUS
    <3> QED
      BY <3>1 DEF Snapshot
  <2> QED
    BY <2>1 DEF NotClosing, Closing
<1>4. StreamsTypeOK
  BY <1>1, <1>3 DEF Init, StreamsTypeOK, HandlerAt, nil
<1>5. ManagerInv
  BY <1>1, <1>2, <1>4 DEF ManagerInv, SubscribedOnce, StreamsTypeOK
<1>6. \A c \in Conns : \A k \in Closers : CleanAt(c, k)
  BY <1>3 DEF Init, CleanAt
<1> QED
  BY <1>4, <1>5, <1>6 DEF StreamsInv

\* The handler's places keep their type when infos only grows.
LEMMA HandlerMoves ==
  ASSUME StreamsTypeOK, NEW c \in Conns, NEW at,
         Goes(c, at), DOMAIN infos \subseteq DOMAIN infos', at \in HandlerAt'
  PROVE  /\ handler' \in [Conns -> HandlerAt']
         /\ handler'[c] = at
         /\ \A d \in Conns \ {c} : handler'[d] = handler[d]
<1>1. HandlerAt \subseteq HandlerAt'
  BY DEF HandlerAt
<1> QED
  BY <1>1 DEF StreamsTypeOK, Goes

\* A callback begins: it overlaps what OnDisconnects there are.
LEMMA CallbackBegins ==
  ASSUME StreamsInv, NEW c \in Conns, NEW at, at \in HandlerAt,
         Goes(c, at), Overlaps(c), UNCHANGED <<streams, infos>>
  PROVE  StreamsInv'
<1>1. StreamsTypeOK /\ ManagerInv
  BY DEF StreamsInv
<1>2. /\ closing' \in [Conns -> [Closers -> Closing]]
      /\ \A k \in Closers : closing'[c][k].at = closing[c][k].at
      /\ \A k \in Closers : closing'[c][k].overlapped = (closing[c][k].at # "open")
      /\ \A d \in Conns \ {c} : closing'[d] = closing[d]
  <2>1. closing \in [Conns -> [Closers -> Closing]]
    BY <1>1 DEF StreamsTypeOK
  <2> DEFINE over(k) == [closing[c][k] EXCEPT !.overlapped = (closing[c][k].at # "open")]
  <2>2. ASSUME NEW k \in Closers
        PROVE  /\ over(k) \in Closing
               /\ over(k).at = closing[c][k].at
               /\ over(k).overlapped = (closing[c][k].at # "open")
    <3>1. closing[c][k] \in Closing
      BY <2>1
    <3>2. (closing[c][k].at # "open") \in BOOLEAN
      OBVIOUS
    <3> QED
      BY <3>1, <3>2 DEF Closing
  <2>3. closing' = [closing EXCEPT ![c] = [k \in Closers |-> over(k)]]
    BY DEF Overlaps
  <2> HIDE DEF over
  <2> QED
    BY <2>1, <2>2, <2>3
<1>3. HandlerAt' = HandlerAt /\ DOMAIN infos' = DOMAIN infos
  BY DEF HandlerAt
<1>4. /\ handler' \in [Conns -> HandlerAt']
      /\ \A d \in Conns \ {c} : handler'[d] = handler[d]
  BY <1>1, <1>3, HandlerMoves
<1>5. StreamsTypeOK'
  BY <1>1, <1>2, <1>4 DEF StreamsTypeOK
<1>6. ManagerInv'
  BY <1>1 DEF ManagerInv, SubscribedOnce, Exists, Info
<1>7. ASSUME NEW d \in Conns, NEW k \in Closers
      PROVE  CleanAt(d, k)'
  <2>1. CASE d = c
    BY <2>1, <1>2 DEF CleanAt
  <2>2. CASE d # c
    BY <2>2, <1>2, <1>4, CleanStays, UnchangedTies DEF StreamsInv
  <2> QED
    BY <2>1, <2>2
<1> QED
  BY <1>5, <1>6, <1>7 DEF StreamsInv

\* A callback that is under way goes on or returns.
LEMMA CallbackGoesOn ==
  ASSUME StreamsInv, NEW c \in Conns, NEW at, at \in HandlerAt',
         handler[c].at \in Callbacks,
         Goes(c, at), UNCHANGED closing,
         ManagerInv', DOMAIN infos \subseteq DOMAIN infos',
         \A d \in Conns \ {c} : NoNewTies(d)
  PROVE  StreamsInv'
<1>1. StreamsTypeOK
  BY DEF StreamsInv
<1>2. /\ handler' \in [Conns -> HandlerAt']
      /\ \A d \in Conns \ {c} : handler'[d] = handler[d]
  BY <1>1, HandlerMoves
<1>3. StreamsTypeOK'
  BY <1>1, <1>2 DEF StreamsTypeOK, ManagerInv
<1>4. ASSUME NEW d \in Conns, NEW k \in Closers
      PROVE  CleanAt(d, k)'
  <2>1. CASE d = c
    BY <2>1 DEF StreamsInv, CleanAt
  <2>2. CASE d # c
    BY <2>2, <1>2, CleanStays DEF StreamsInv
  <2> QED
    BY <2>1, <2>2
<1> QED
  BY <1>3, <1>4 DEF StreamsInv

\* What OnPublish and OnPlay remember has its type.
LEMMA HandlerRecords ==
  ASSUME NEW n \in Names
  PROVE  /\ [at |-> "reading"] \in HandlerAt
         /\ [at |-> "over"] \in HandlerAt
         /\ [at |-> "publishAdds", name |-> n] \in HandlerAt
         /\ [at |-> "playAdds", name |-> n] \in HandlerAt
         /\ \A p \in DOMAIN infos :
              /\ [at |-> "publishFound", name |-> n, stream |-> p] \in HandlerAt
              /\ [at |-> "playFound", name |-> n, stream |-> p] \in HandlerAt
  BY DEF HandlerAt

LEMMA HandlerHas ==
  ASSUME StreamsTypeOK, NEW c \in Conns, handler[c].at \in Callbacks
  PROVE  handler[c].name \in Names
<1>1. handler[c] \in HandlerAt
  BY DEF StreamsTypeOK
<1> QED
  BY <1>1 DEF HandlerAt, Callbacks

LEMMA HandlerInv ==
  ASSUME StreamsInv, NEW c \in Conns, HandlerNext(c)
  PROVE  StreamsInv'
<1>0. StreamsTypeOK /\ ManagerInv
  BY DEF StreamsInv
<1>1. ASSUME NEW n \in Names, OnPublish(c, n)
      PROVE  StreamsInv'
  <2>1. CASE Exists(n)
    BY <1>0, <1>1, <2>1, Pointers, HandlerRecords, CallbackBegins DEF OnPublish
  <2>2. CASE ~Exists(n)
    BY <1>1, <2>2, HandlerRecords, CallbackBegins DEF OnPublish
  <2> QED
    BY <2>1, <2>2
<1>2. ASSUME NEW n \in Names, OnPlay(c, n)
      PROVE  StreamsInv'
  BY <1>0, <1>2, Pointers, HandlerRecords, CallbackBegins DEF OnPlay
<1>3. ASSUME NEW at \in HandlerAt, handler[c].at \in Callbacks, Goes(c, at),
             UNCHANGED <<streams, infos, closing>>
      PROVE  StreamsInv'
  <2>1. HandlerAt' = HandlerAt /\ ManagerInv'
    BY <1>0, <1>3 DEF HandlerAt, ManagerInv, SubscribedOnce, Exists, Info
  <2>2. \A d \in Conns : NoNewTies(d)
    BY <1>3, UnchangedTies
  <2> QED
    BY <1>3, <2>1, <2>2, CallbackGoesOn
<1>4. CASE PublishChecks(c)
  <2>1. handler[c].at \in Callbacks /\ handler[c].name \in Names
    BY <1>0, <1>4, HandlerHas DEF PublishChecks, Callbacks
  <2>2. CASE infos[handler[c].stream].active
    BY <1>3, <1>4, <2>1, <2>2, HandlerRecords DEF PublishChecks
  <2>3. CASE ~infos[handler[c].stream].active
    BY <1>3, <1>4, <2>1, <2>3, HandlerRecords DEF PublishChecks
  <2> QED
    BY <2>2, <2>3
<1>5. CASE PlayChecks(c)
  <2>1. handler[c].at \in Callbacks /\ handler[c].name \in Names
    BY <1>0, <1>5, HandlerHas DEF PlayChecks, Callbacks
  <2>2. CASE infos[handler[c].stream].active
    BY <1>3, <1>5, <2>1, <2>2, HandlerRecords DEF PlayChecks
  <2>3. CASE ~infos[handler[c].stream].active
    BY <1>3, <1>5, <2>1, <2>3, HandlerRecords DEF PlayChecks
  <2> QED
    BY <2>2, <2>3
<1>6. CASE PublishAdds(c)
  <2>1. handler[c].at \in Callbacks /\ handler[c].name \in Names
    BY <1>0, <1>6, HandlerHas DEF PublishAdds, Callbacks
  <2>2. AddStream(handler[c].name, c) /\ Goes(c, [at |-> "reading"]) /\ UNCHANGED closing
    BY <1>6 DEF PublishAdds
  <2>3. ManagerInv' /\ DOMAIN infos \subseteq DOMAIN infos'
    BY <1>0, <2>1, <2>2, AddStreamEffect
  <2>4. \A d \in Conns \ {c} : NoNewTies(d)
    BY <1>0, <2>1, <2>2, AddStreamTies
  <2>5. [at |-> "reading"] \in HandlerAt'
    BY DEF HandlerAt
  <2> QED
    BY <2>1, <2>2, <2>3, <2>4, <2>5, CallbackGoesOn
<1>7. CASE PlayAdds(c)
  <2>1. handler[c].at \in Callbacks /\ handler[c].name \in Names
    BY <1>0, <1>7, HandlerHas DEF PlayAdds, Callbacks
  <2>2. AddSubscriber(handler[c].name, c) /\ Goes(c, [at |-> "reading"])
        /\ UNCHANGED <<streams, closing>>
    BY <1>7 DEF PlayAdds
  <2>3. ManagerInv' /\ DOMAIN infos \subseteq DOMAIN infos'
    BY <1>0, <2>1, <2>2, AddSubscriberEffect
  <2>4. \A d \in Conns \ {c} : NoNewTies(d)
    BY <1>0, <2>1, <2>2, AddSubscriberTies
  <2>5. [at |-> "reading"] \in HandlerAt'
    BY DEF HandlerAt
  <2> QED
    BY <2>1, <2>2, <2>3, <2>4, <2>5, CallbackGoesOn
<1>8. CASE HandlerLeaves(c)
  <2>1. Goes(c, [at |-> "over"]) /\ UNCHANGED <<streams, infos, closing>>
    BY <1>8 DEF HandlerLeaves
  <2>2. HandlerAt' = HandlerAt /\ [at |-> "over"] \in HandlerAt /\ DOMAIN infos' = DOMAIN infos
    BY <2>1 DEF HandlerAt
  <2>3. /\ handler' \in [Conns -> HandlerAt'] /\ handler'[c].at = "over"
        /\ \A d \in Conns \ {c} : handler'[d] = handler[d]
    BY <1>0, <2>1, <2>2, HandlerMoves
  <2>4. StreamsTypeOK' /\ ManagerInv'
    BY <1>0, <2>1, <2>3 DEF StreamsTypeOK, ManagerInv, SubscribedOnce, Exists, Info
  <2>5. \A d \in Conns : handler'[d].at \in Callbacks => handler[d].at \in Callbacks
    BY <2>3 DEF Callbacks
  <2>6. \A d \in Conns : \A k \in Closers : CleanAt(d, k)'
    BY <2>1, <2>5, CleanStays, UnchangedTies DEF StreamsInv
  <2> QED
    BY <2>4, <2>6 DEF StreamsInv
<1> QED
  BY <1>1, <1>2, <1>4, <1>5, <1>6, <1>7, <1>8 DEF HandlerNext
----------------------------------------------------------------------------
(* The steps of OnDisconnect. *)

\* One OnDisconnect of one connection moves.
ClosingBecomes(c, k, new) ==
  /\ closing' \in [Conns -> [Closers -> Closing]]
  /\ closing'[c][k] = new
  /\ \A d \in Conns : \A l \in Closers :
       d # c \/ l # k => closing'[d][l] = closing[d][l]

\* That is what an assignment to its entry of closing does.
LEMMA ClosingMoves ==
  ASSUME StreamsTypeOK, NEW c \in Conns, NEW k \in Closers, NEW new \in Closing,
         closing' = [closing EXCEPT ![c][k] = new]
  PROVE  ClosingBecomes(c, k, new)
  BY DEF StreamsTypeOK, ClosingBecomes

LEMMA DisconnectBegins ==
  ASSUME StreamsInv, NEW c \in Conns, NEW k \in Closers, OnDisconnect(c, k)
  PROVE  StreamsInv'
<1> DEFINE new == [at |-> "removing", left |-> ListStreams,
                   overlapped |-> (handler[c].at \in Callbacks)]
<1>1. StreamsTypeOK /\ ManagerInv
  BY DEF StreamsInv
<1>2. /\ DOMAIN ListStreams = {m \in Names : Exists(m) /\ Info(m).active}
      /\ \A n \in DOMAIN ListStreams : ListStreams[n] = Info(n).publisher
  BY DEF ListStreams
<1>3. ListStreams \in Snapshot
  <2>1. \A n \in DOMAIN ListStreams : Info(n).publisher \in Conns
    BY <1>1, <1>2, Pointers DEF StreamInfo
  <2>2. DOMAIN ListStreams \in SUBSET Names
    BY <1>2
  <2>3. ListStreams \in [DOMAIN ListStreams -> Conns]
    BY <1>2, <2>1 DEF ListStreams
  <2> QED
    BY <2>2, <2>3 DEF Snapshot
<1>4. new \in Closing
  <2>1. (handler[c].at \in Callbacks) \in BOOLEAN
    OBVIOUS
  <2> QED
    BY <1>3, <2>1 DEF Closing
<1>5. closing' = [closing EXCEPT ![c][k] = new] /\ UNCHANGED <<streams, infos, handler>>
  BY DEF OnDisconnect
<1>6. /\ new.at = "removing" /\ new.left = ListStreams
      /\ new.overlapped = (handler[c].at \in Callbacks)
  OBVIOUS
<1> HIDE DEF new
<1>7. /\ closing' \in [Conns -> [Closers -> Closing]]
      /\ closing'[c][k] = new
      /\ \A d \in Conns : \A l \in Closers : d # c \/ l # k => closing'[d][l] = closing[d][l]
  <2>1. ClosingBecomes(c, k, new)
    BY <1>1, <1>4, <1>5, ClosingMoves
  <2> QED
    BY <2>1, Zenon DEF ClosingBecomes
<1>8. StreamsTypeOK' /\ ManagerInv'
  BY <1>1, <1>5, <1>7 DEF StreamsTypeOK, HandlerAt, ManagerInv, SubscribedOnce, Exists, Info
<1>9. CleanAt(c, k)'
  <2>1. \A n \in Names : Exists(n) => n \in DOMAIN ListStreams /\ ListStreams[n] = Info(n).publisher
    BY <1>1, <1>2 DEF ManagerInv
  <2>2. \A n \in Names : /\ Serves(c, n) => n \in DOMAIN ListStreams /\ ListStreams[n] = c
                         /\ Follows(c, n) => n \in DOMAIN ListStreams
    BY <2>1 DEF Serves, Follows
  <2>3. \A n \in Names : (Serves(c, n)' => Serves(c, n)) /\ (Follows(c, n)' => Follows(c, n))
    BY <1>5, UnchangedTies DEF NoNewTies
  <2>4. \A n \in Names : /\ Serves(c, n)' => n \in DOMAIN ListStreams /\ ListStreams[n] = c
                         /\ Follows(c, n)' => n \in DOMAIN ListStreams
    BY <2>2, <2>3
  <2> HIDE DEF Serves, Follows
  <2> QED
    BY <1>5, <1>6, <1>7, <2>4 DEF CleanAt
<1>10. ASSUME NEW d \in Conns, NEW l \in Closers, d # c \/ l # k
       PROVE  CleanAt(d, l)'
  BY <1>5, <1>7, <1>10, CleanStays, UnchangedTies DEF StreamsInv
<1> QED
  BY <1>8, <1>9, <1>10 DEF StreamsInv

LEMMA DisconnectGoesOn ==
  ASSUME StreamsInv, NEW c \in Conns, NEW k \in Closers, DisconnectVisits(c, k)
  PROVE  StreamsInv'
<1>1. StreamsTypeOK /\ ManagerInv /\ CleanAt(c, k) /\ closing[c][k] \in Closing
  BY DEF StreamsInv, StreamsTypeOK
<1> DEFINE old == closing[c][k]
<1>2. PICK n \in DOMAIN old.left :
        /\ DisconnectRemoves(c, n, old.left[n])
        /\ closing' = [closing EXCEPT ![c][k].left = Restrict(@, DOMAIN @ \ {n})]
  BY DEF DisconnectVisits
<1>3. old.at = "removing" /\ UNCHANGED handler
  BY DEF DisconnectVisits
<1> DEFINE left == Restrict(old.left, DOMAIN old.left \ {n})
           new == [old EXCEPT !.left = left]
<1>4. old.left \in Snapshot /\ DOMAIN old.left \subseteq Names /\ n \in Names
  BY <1>1, <1>2 DEF Closing, Snapshot
<1>5. /\ DOMAIN left = DOMAIN old.left \ {n}
      /\ \A m \in DOMAIN left : left[m] = old.left[m]
  BY DEF Restrict
<1>6. left \in Snapshot
  <2>1. left \in [DOMAIN left -> Conns]
    BY <1>4, <1>5 DEF Snapshot, Restrict
  <2> QED
    BY <2>1, <1>4, <1>5 DEF Snapshot
<1>7. closing' = [closing EXCEPT ![c][k] = new]
  BY <1>1, <1>2 DEF StreamsTypeOK
<1> HIDE DEF left
<1>8. /\ new \in Closing /\ new.at = "removing" /\ new.left = left
      /\ new.overlapped = old.overlapped
  BY <1>1, <1>3, <1>6 DEF Closing
<1> HIDE DEF new
<1>9. /\ closing' \in [Conns -> [Closers -> Closing]]
      /\ closing'[c][k] = new
      /\ \A d \in Conns : \A l \in Closers : d # c \/ l # k => closing'[d][l] = closing[d][l]
  <2>1. StreamsTypeOK /\ new \in Closing
    BY <1>1, <1>8
  <2>2. ClosingBecomes(c, k, new)
    <3> HIDE DEF old
    <3> QED
      BY <2>1, <1>7, ClosingMoves
  <2> QED
    BY <2>2, Zenon DEF ClosingBecomes
<1>10. CASE Serves(c, n) => old.left[n] = c
  <2>1. /\ ManagerInv' /\ DOMAIN infos' = DOMAIN infos
        /\ \A d \in Conns : NoNewTies(d)
        /\ ~Serves(c, n)' /\ ~Follows(c, n)'
    BY <1>1, <1>2, <1>4, <1>10, VisitTies
  <2>2. StreamsTypeOK'
    BY <1>1, <1>3, <1>9, <2>1 DEF StreamsTypeOK, HandlerAt, ManagerInv
  <2>3. CleanAt(c, k)'
    <3>1. SUFFICES ASSUME ~old.overlapped
                   PROVE  /\ handler[c].at \notin Callbacks
                          /\ \A m \in Names :
                               /\ Serves(c, m)' => m \in DOMAIN left /\ left[m] = c
                               /\ Follows(c, m)' => m \in DOMAIN left
      BY <1>3, <1>8, <1>9 DEF CleanAt
    <3>2. /\ handler[c].at \notin Callbacks
          /\ \A m \in Names :
               /\ Serves(c, m) => m \in DOMAIN old.left /\ old.left[m] = c
               /\ Follows(c, m) => m \in DOMAIN old.left
      BY <1>1, <1>3, <3>1 DEF CleanAt
    <3>3. ASSUME NEW m \in Names
          PROVE  /\ Serves(c, m)' => m \in DOMAIN left /\ left[m] = c
                 /\ Follows(c, m)' => m \in DOMAIN left
      <4>1. (Serves(c, m)' => Serves(c, m)) /\ (Follows(c, m)' => Follows(c, m))
        BY <2>1 DEF NoNewTies
      <4>2. Serves(c, m)' \/ Follows(c, m)' => m # n
        BY <2>1
      <4> QED
        BY <4>1, <4>2, <3>2, <1>5
    <3> QED
      BY <3>2, <3>3
  <2>4. ASSUME NEW d \in Conns, NEW l \in Closers, d # c \/ l # k
        PROVE  CleanAt(d, l)'
    BY <1>3, <1>9, <2>1, <2>4, CleanStays DEF StreamsInv
  <2> QED
    BY <2>1, <2>2, <2>3, <2>4 DEF StreamsInv
<1>11. CASE ~(Serves(c, n) => old.left[n] = c)
  \* The snapshot is stale: the connection has come to publish the stream
  \* since, in a callback that overlapped.
  <2>1. old.overlapped
    BY <1>1, <1>3, <1>4, <1>11 DEF CleanAt
  <2>2. RemoveSubscriber(n, c)
    BY <1>2, <1>11 DEF DisconnectRemoves
  <2>3. /\ ManagerInv' /\ DOMAIN infos' = DOMAIN infos
        /\ Exists(n) => /\ Exists(n)' /\ Info(n)'.publisher = Info(n).publisher
                        /\ Range(Info(n)'.subscribers) = Range(Info(n).subscribers) \ {c}
        /\ \A m \in Names \ {n} : Untouched(m)
    BY <1>1, <1>4, <2>2, RemoveSubscriberEffect
  <2>4. Exists(n)
    BY <1>11 DEF Serves
  <2>5. \A d \in Conns : (Serves(d, n)' => Serves(d, n)) /\ (Follows(d, n)' => Follows(d, n))
    BY <2>3, <2>4 DEF Serves, Follows
  <2>6. \A d \in Conns : NoNewTies(d)
    BY <2>3, <2>5, UntouchedTies DEF NoNewTies
  <2>7. StreamsTypeOK'
    BY <1>1, <1>3, <1>9, <2>3 DEF StreamsTypeOK, HandlerAt, ManagerInv
  <2>8. CleanAt(c, k)'
    BY <2>1, <1>8, <1>9 DEF CleanAt
  <2>9. ASSUME NEW d \in Conns, NEW l \in Closers, d # c \/ l # k
        PROVE  CleanAt(d, l)'
    BY <1>3, <1>9, <2>6, <2>9, CleanStays DEF StreamsInv
  <2> QED
    BY <2>3, <2>7, <2>8, <2>9 DEF StreamsInv
<1> QED
  BY <1>10, <1>11

LEMMA DisconnectReturns ==
  ASSUME StreamsInv, NEW c \in Conns, NEW k \in Closers, DisconnectEnds(c, k)
  PROVE  StreamsInv'
<1>1. StreamsTypeOK /\ ManagerInv /\ CleanAt(c, k) /\ closing[c][k] \in Closing
  BY DEF StreamsInv, StreamsTypeOK
<1> DEFINE old == closing[c][k]
           new == [old EXCEPT !.at = "over"]
<1>2. /\ old.at = "removing" /\ DOMAIN old.left = {}
      /\ UNCHANGED <<streams, infos, handler>>
  BY DEF DisconnectEnds
<1>3. closing' = [closing EXCEPT ![c][k] = new]
  BY <1>1 DEF DisconnectEnds, StreamsTypeOK
<1>4. /\ new \in Closing /\ new.at = "over" /\ new.overlapped = old.overlapped
  BY <1>1 DEF Closing
<1> HIDE DEF new
<1>5. /\ closing' \in [Conns -> [Closers -> Closing]]
      /\ closing'[c][k] = new
      /\ \A d \in Conns : \A l \in Closers : d # c \/ l # k => closing'[d][l] = closing[d][l]
  <2>1. ClosingBecomes(c, k, new)
    <3> HIDE DEF old
    <3> QED
      BY <1>1, <1>3, <1>4, ClosingMoves
  <2> QED
    BY <2>1, Zenon DEF ClosingBecomes
<1>6. StreamsTypeOK' /\ ManagerInv'
  BY <1>1, <1>2, <1>5 DEF StreamsTypeOK, HandlerAt, ManagerInv, SubscribedOnce, Exists, Info
<1>7. \A d \in Conns : NoNewTies(d)
  BY <1>2, UnchangedTies
<1>8. CleanAt(c, k)'
  <2>1. SUFFICES ASSUME ~old.overlapped
                 PROVE  /\ handler[c].at \notin Callbacks
                        /\ \A n \in Names : ~Serves(c, n)' /\ ~Follows(c, n)'
    BY <1>2, <1>4, <1>5 DEF CleanAt
  <2>2. /\ handler[c].at \notin Callbacks
        /\ \A n \in Names : ~Serves(c, n) /\ ~Follows(c, n)
    BY <1>1, <1>2, <2>1 DEF CleanAt
  <2> QED
    BY <2>2, <1>7 DEF NoNewTies
<1>9. ASSUME NEW d \in Conns, NEW l \in Closers, d # c \/ l # k
      PROVE  CleanAt(d, l)'
  BY <1>2, <1>5, <1>7, <1>9, CleanStays DEF StreamsInv
<1> QED
  BY <1>6, <1>8, <1>9 DEF StreamsInv

LEMMA StreamsStep == StreamsInv /\ [Next]_vars => StreamsInv'
<1> SUFFICES ASSUME StreamsInv, [Next]_vars PROVE StreamsInv'
  OBVIOUS
<1>1. ASSUME NEW c \in Conns, HandlerNext(c)
      PROVE  StreamsInv'
  BY <1>1, HandlerInv
<1>2. ASSUME NEW c \in Conns, NEW k \in Closers,
             OnDisconnect(c, k) \/ DisconnectVisits(c, k) \/ DisconnectEnds(c, k)
      PROVE  StreamsInv'
  BY <1>2, DisconnectBegins, DisconnectGoesOn, DisconnectReturns
<1>3. CASE UNCHANGED vars
  BY <1>3 DEF vars, StreamsInv, StreamsTypeOK, HandlerAt, ManagerInv, SubscribedOnce,
              CleanAt, Serves, Follows, Exists, Info
<1> QED
  BY <1>1, <1>2, <1>3 DEF Next

----------------------------------------------------------------------------
\* The invariant holds for any connections, names and numbers of streams.
THEOREM StreamsInvariant == Spec => []StreamsInv
  BY StreamsInit, StreamsStep, PTL DEF Spec

\* Pointers, slices and the goroutines' places keep their types.
THEOREM StreamsTypes == Spec => []StreamsTypeOK
<1>1. StreamsInv => StreamsTypeOK
  BY DEF StreamsInv
<1> QED
  BY <1>1, StreamsInvariant, PTL

\* Nobody is subscribed twice: RemoveSubscriber may stop at the first it finds.
THEOREM SubscribersOnce == Spec => []SubscribedOnce
<1>1. StreamsInv => SubscribedOnce
  BY DEF StreamsInv, ManagerInv
<1> QED
  BY <1>1, StreamsInvariant, PTL

\* onDisconnect, over its stale snapshot, removes its connection from every
\* stream, whatever other connections do meanwhile.
THEOREM DisconnectCleans == Spec => []LeavesNothingBehind
<1>1. StreamsInv => LeavesNothingBehind
  BY DEF StreamsInv, LeavesNothingBehind, CleanAt, Serves, Follows
<1> QED
  BY <1>1, StreamsInvariant, PTL
----------------------------------------------------------------------------
(* Every step is a step of the registry or none. *)

RegPublisher == [n \in {m \in Names : Exists(m)} |-> Info(n).publisher]

RegSubscribers == [n \in Names |-> IF Exists(n) THEN Range(Info(n).subscribers) ELSE {}]

RegGone == {c \in Conns : \E k \in Closers : closing[c][k].at # "open"}

RegistryMoves == Registry!Next \/ UNCHANGED <<RegPublisher, RegSubscribers, RegGone>>

LEMMA RegistryStays ==
  ASSUME UNCHANGED <<streams, infos>>, RegGone' = RegGone
  PROVE  RegistryMoves
  BY DEF RegistryMoves, RegPublisher, RegSubscribers, Exists, Info

\* A name that is left alone shows the registry what it showed.
LEMMA UntouchedShows ==
  ASSUME NEW n \in Names, \A m \in Names \ {n} : Untouched(m)
  PROVE  /\ \A m \in Names \ {n} : m \in DOMAIN RegPublisher' <=> m \in DOMAIN RegPublisher
         /\ \A m \in Names \ {n} : m \in DOMAIN RegPublisher => RegPublisher'[m] = RegPublisher[m]
         /\ \A m \in Names \ {n} : RegSubscribers'[m] = RegSubscribers[m]
  BY DEF Untouched, RegPublisher, RegSubscribers

LEMMA Shown ==
  /\ DOMAIN RegPublisher = {m \in Names : Exists(m)}
  /\ DOMAIN RegSubscribers = Names
  /\ RegPublisher = [m \in DOMAIN RegPublisher |-> RegPublisher[m]]
  /\ RegSubscribers = [m \in Names |-> RegSubscribers[m]]
  /\ \A n \in Names : Exists(n) => /\ RegPublisher[n] = Info(n).publisher
                                   /\ RegSubscribers[n] = Range(Info(n).subscribers)
  /\ \A n \in Names : ~Exists(n) => RegSubscribers[n] = {}
  BY DEF RegPublisher, RegSubscribers

LEMMA ShownNext ==
  /\ DOMAIN RegPublisher' = {m \in Names : Exists(m)'}
  /\ DOMAIN RegSubscribers' = Names
  /\ RegPublisher' = [m \in DOMAIN RegPublisher' |-> RegPublisher'[m]]
  /\ RegSubscribers' = [m \in Names |-> RegSubscribers'[m]]
  /\ \A n \in Names : Exists(n)' => /\ RegPublisher'[n] = Info(n)'.publisher
                                    /\ RegSubscribers'[n] = Range(Info(n)'.subscribers)
  /\ \A n \in Names : ~Exists(n)' => RegSubscribers'[n] = {}
  BY DEF RegPublisher, RegSubscribers

LEMMA AddStreamBegins ==
  ASSUME ManagerInv, NEW n \in Names, NEW c \in Conns, AddStream(n, c),
         RegGone' = RegGone
  PROVE  RegistryMoves
<1>1. /\ Exists(n)' /\ Info(n)'.publisher = c /\ Range(Info(n)'.subscribers) = {}
      /\ \A m \in Names \ {n} : Untouched(m)
  BY AddStreamEffect
<1>2. /\ DOMAIN RegPublisher' = DOMAIN RegPublisher \cup {n}
      /\ RegPublisher'[n] = c /\ RegSubscribers'[n] = {}
  BY <1>1, Shown, ShownNext, UntouchedShows
<1>3. RegPublisher' = [m \in DOMAIN RegPublisher \cup {n} |-> IF m = n THEN c ELSE RegPublisher[m]]
  <2>1. \A m \in DOMAIN RegPublisher : m \in Names
    BY Shown
  <2>2. \A m \in DOMAIN RegPublisher' : RegPublisher'[m] = IF m = n THEN c ELSE RegPublisher[m]
    BY <1>1, <1>2, <2>1, UntouchedShows
  <2> QED
    BY <1>2, <2>2, ShownNext
<1>4. RegSubscribers' = [RegSubscribers EXCEPT ![n] = {}]
  BY <1>1, <1>2, Shown, ShownNext, UntouchedShows
<1>5. Registry!Begin(n, c)
  BY <1>3, <1>4 DEF Registry!Begin, RegPublisher, RegSubscribers, RegGone
<1> QED
  BY <1>5 DEF RegistryMoves, Registry!Next

LEMMA AddSubscriberJoins ==
  ASSUME ManagerInv, NEW n \in Names, NEW c \in Conns,
         AddSubscriber(n, c), UNCHANGED streams, RegGone' = RegGone
  PROVE  RegistryMoves
<1>1. CASE Exists(n)
  <2>1. /\ Exists(n)' /\ Info(n)'.publisher = Info(n).publisher
        /\ Range(Info(n)'.subscribers) = Range(Info(n).subscribers) \cup {c}
        /\ \A m \in Names \ {n} : Untouched(m)
    BY <1>1, AddSubscriberEffect
  <2>2. /\ DOMAIN RegPublisher' = DOMAIN RegPublisher /\ n \in DOMAIN RegPublisher
        /\ RegPublisher'[n] = RegPublisher[n]
        /\ RegSubscribers'[n] = RegSubscribers[n] \cup {c}
    BY <1>1, <2>1, Shown, ShownNext, UntouchedShows
  <2>3. RegPublisher' = RegPublisher
    BY <2>1, <2>2, Shown, ShownNext, UntouchedShows
  <2>4. RegSubscribers' = [RegSubscribers EXCEPT ![n] = @ \cup {c}]
    BY <2>1, <2>2, Shown, ShownNext, UntouchedShows
  <2>5. Registry!Join(n, c)
    BY <2>2, <2>3, <2>4 DEF Registry!Join, RegPublisher, RegSubscribers, RegGone
  <2> QED
    BY <2>5 DEF RegistryMoves, Registry!Next
<1>2. CASE ~Exists(n)
  BY <1>2, AddSubscriberEffect, RegistryStays
<1> QED
  BY <1>1, <1>2

LEMMA RemoveSubscriberLeaves ==
  ASSUME ManagerInv, NEW n \in Names, NEW c \in Conns, RemoveSubscriber(n, c),
         RegGone' = RegGone, c \in RegGone
  PROVE  RegistryMoves
<1>1. CASE Exists(n)
  <2>1. /\ Exists(n)' /\ Info(n)'.publisher = Info(n).publisher
        /\ Range(Info(n)'.subscribers) = Range(Info(n).subscribers) \ {c}
        /\ \A m \in Names \ {n} : Untouched(m)
    BY <1>1, RemoveSubscriberEffect
  <2>2. /\ DOMAIN RegPublisher' = DOMAIN RegPublisher
        /\ RegPublisher'[n] = RegPublisher[n]
        /\ RegSubscribers'[n] = RegSubscribers[n] \ {c}
    BY <1>1, <2>1, Shown, ShownNext, UntouchedShows
  <2>3. RegPublisher' = RegPublisher
    BY <2>1, <2>2, Shown, ShownNext, UntouchedShows
  <2>4. RegSubscribers' = [RegSubscribers EXCEPT ![n] = @ \ {c}]
    BY <2>1, <2>2, Shown, ShownNext, UntouchedShows
  <2>5. CASE c \in RegSubscribers[n]
    <3>1. Registry!Leave(n, c)
      BY <2>3, <2>4, <2>5 DEF Registry!Leave, RegPublisher, RegSubscribers, RegGone
    <3> QED
      BY <3>1 DEF RegistryMoves, Registry!Next
  <2>6. CASE c \notin RegSubscribers[n]
    <3>1. RegSubscribers' = RegSubscribers
      <4>1. RegSubscribers[n] \ {c} = RegSubscribers[n]
        BY <2>6
      <4>2. RegSubscribers'[n] = RegSubscribers[n]
        BY <2>2, <4>1
      <4>3. \A m \in Names : RegSubscribers'[m] = RegSubscribers[m]
        BY <2>1, <4>2, UntouchedShows
      <4> QED
        BY <4>3, Shown, ShownNext
    <3> QED
      BY <2>3, <3>1 DEF RegistryMoves
  <2> QED
    BY <2>5, <2>6
<1>2. CASE ~Exists(n)
  BY <1>2, RemoveSubscriberEffect, RegistryStays
<1> QED
  BY <1>1, <1>2

LEMMA RemoveStreamEnds ==
  ASSUME ManagerInv, NEW n \in Names, RemoveStream(n),
         RegGone' = RegGone, RegGone # {}
  PROVE  RegistryMoves
<1>1. CASE Exists(n)
  <2>1. ~Exists(n)' /\ \A m \in Names \ {n} : Untouched(m)
    BY <1>1, RemoveStreamEffect
  <2>2. /\ n \in DOMAIN RegPublisher
        /\ DOMAIN RegPublisher' = DOMAIN RegPublisher \ {n}
        /\ RegSubscribers'[n] = {}
    BY <1>1, <2>1, Shown, ShownNext, UntouchedShows
  <2>3. RegPublisher' = [m \in DOMAIN RegPublisher \ {n} |-> RegPublisher[m]]
    <3>1. \A m \in DOMAIN RegPublisher \ {n} : RegPublisher'[m] = RegPublisher[m]
      BY <2>1, Shown, UntouchedShows
    <3> QED
      BY <2>2, <3>1, ShownNext
  <2>4. RegSubscribers' = [RegSubscribers EXCEPT ![n] = {}]
    BY <2>1, <2>2, Shown, ShownNext, UntouchedShows
  <2>5. Registry!End(n)
    BY <2>2, <2>3, <2>4 DEF Registry!End, RegPublisher, RegSubscribers, RegGone
  <2> QED
    BY <2>5 DEF RegistryMoves, Registry!Next
<1>2. CASE ~Exists(n)
  BY <1>2, RemoveStreamEffect, RegistryStays
<1> QED
  BY <1>1, <1>2

\* Who is gone, after each kind of step.
LEMMA GoneStays ==
  ASSUME \A c \in Conns : \A k \in Closers :
           closing'[c][k].at # "open" <=> closing[c][k].at # "open"
  PROVE  RegGone' = RegGone
  BY DEF RegGone

LEMMA ClosingShows ==
  ASSUME StreamsTypeOK, NEW c \in Conns, NEW k \in Closers,
         DisconnectVisits(c, k) \/ DisconnectEnds(c, k)
  PROVE  RegGone' = RegGone /\ c \in RegGone
<1>1. closing \in [Conns -> [Closers -> Closing]] /\ closing[c][k].at = "removing"
  BY DEF StreamsTypeOK, DisconnectVisits, DisconnectEnds
<1>2. c \in RegGone
  BY <1>1 DEF RegGone
<1>3. CASE DisconnectVisits(c, k)
  <2>1. PICK n : closing' = [closing EXCEPT ![c][k].left = Restrict(@, DOMAIN @ \ {n})]
    BY <1>3 DEF DisconnectVisits
  <2>2. \A d \in Conns : \A l \in Closers : closing'[d][l].at = closing[d][l].at
    BY <1>1, <2>1 DEF Closing
  <2> QED
    BY <1>2, <2>2, GoneStays
<1>4. CASE DisconnectEnds(c, k)
  <2>1. closing' = [closing EXCEPT ![c][k].at = "over"]
    BY <1>4 DEF DisconnectEnds
  <2>2. \A d \in Conns : \A l \in Closers :
          closing'[d][l].at # "open" <=> closing[d][l].at # "open"
    BY <1>1, <2>1 DEF Closing
  <2> QED
    BY <1>2, <2>2, GoneStays
<1> QED
  BY <1>3, <1>4

LEMMA HandlerShows ==
  ASSUME StreamsTypeOK, NEW c \in Conns, HandlerNext(c)
  PROVE  RegGone' = RegGone
<1>1. CASE Overlaps(c)
  <2>1. closing \in [Conns -> [Closers -> Closing]]
    BY DEF StreamsTypeOK
  <2>2. \A d \in Conns : \A k \in Closers : closing'[d][k].at = closing[d][k].at
    BY <1>1, <2>1 DEF Overlaps, Closing
  <2> QED
    BY <2>2, GoneStays
<1>2. CASE UNCHANGED closing
  BY <1>2 DEF RegGone
<1> QED
  BY <1>1, <1>2 DEF HandlerNext, OnPublish, OnPlay, PublishChecks, PublishAdds,
                    PlayChecks, PlayAdds, HandlerLeaves

LEMMA DisconnectGoes ==
  ASSUME StreamsTypeOK, NEW c \in Conns, NEW k \in Closers, OnDisconnect(c, k)
  PROVE  RegistryMoves
<1> DEFINE new == [at |-> "removing", left |-> ListStreams,
                   overlapped |-> (handler[c].at \in Callbacks)]
<1>1. closing' = [closing EXCEPT ![c][k] = new] /\ new.at = "removing"
  BY DEF OnDisconnect
<1> HIDE DEF new
<1>2. closing \in [Conns -> [Closers -> Closing]]
  BY DEF StreamsTypeOK
<1>3. \A d \in Conns : \A l \in Closers :
        closing'[d][l].at # "open" <=> (closing[d][l].at # "open" \/ (d = c /\ l = k))
  BY <1>1, <1>2 DEF OnDisconnect
<1>4. RegGone' = RegGone \cup {c}
  BY <1>3 DEF RegGone
<1>5. UNCHANGED <<RegPublisher, RegSubscribers>>
  BY DEF OnDisconnect, RegPublisher, RegSubscribers, Exists, Info
<1>6. Registry!Go(c)
  BY <1>4, <1>5 DEF Registry!Go, RegPublisher, RegSubscribers, RegGone
<1> QED
  BY <1>6 DEF RegistryMoves, Registry!Next

\* The manager, with its pointers, slices and swaps, implements the registry.
THEOREM StreamsImplementRegistry == Spec => ImplementsRegistry
<1>1. Init => Registry!Init
  <2> SUFFICES ASSUME Init PROVE Registry!Init
    OBVIOUS
  <2>1. \A n \in Names : ~Exists(n)
    BY DEF Init, Exists
  <2> QED
    BY <2>1 DEF Registry!Init, Init, NotClosing
<1>2. StreamsInv /\ [Next]_vars => RegistryMoves
  <2> SUFFICES ASSUME StreamsInv, [Next]_vars PROVE RegistryMoves
    OBVIOUS
  <2>1. StreamsTypeOK /\ ManagerInv
    BY DEF StreamsInv
  <2>2. ASSUME NEW c \in Conns, HandlerNext(c)
        PROVE  RegistryMoves
    <3>1. CASE PublishAdds(c)
      <4>1. handler[c].name \in Names /\ AddStream(handler[c].name, c)
        BY <2>1, <3>1, HandlerHas DEF PublishAdds, Callbacks
      <4> QED
        BY <2>1, <2>2, <4>1, AddStreamBegins, HandlerShows
    <3>2. CASE PlayAdds(c)
      <4>1. handler[c].name \in Names /\ AddSubscriber(handler[c].name, c) /\ UNCHANGED streams
        BY <2>1, <3>2, HandlerHas DEF PlayAdds, Callbacks
      <4> QED
        BY <2>1, <2>2, <4>1, AddSubscriberJoins, HandlerShows
    <3>3. CASE ~PublishAdds(c) /\ ~PlayAdds(c)
      BY <2>1, <2>2, <3>3, RegistryStays, HandlerShows
         DEF HandlerNext, OnPublish, OnPlay, PublishChecks, PlayChecks, HandlerLeaves
    <3> QED
      BY <3>1, <3>2, <3>3
  <2>3. ASSUME NEW c \in Conns, NEW k \in Closers, DisconnectVisits(c, k)
        PROVE  RegistryMoves
    <3>1. PICK n \in DOMAIN closing[c][k].left : DisconnectRemoves(c, n, closing[c][k].left[n])
      BY <2>3 DEF DisconnectVisits
    <3>2. n \in Names
      BY <2>1, <3>1 DEF StreamsTypeOK, Closing, Snapshot
    <3>3. RemoveStream(n) \/ RemoveSubscriber(n, c)
      BY <3>1 DEF DisconnectRemoves
    <3>4. RegGone' = RegGone /\ c \in RegGone /\ RegGone # {}
      BY <2>1, <2>3, ClosingShows
    <3> QED
      BY <2>1, <3>2, <3>3, <3>4, RemoveStreamEnds, RemoveSubscriberLeaves
  <2>4. ASSUME NEW c \in Conns, NEW k \in Closers, OnDisconnect(c, k)
        PROVE  RegistryMoves
    BY <2>1, <2>4, DisconnectGoes
  <2>5. ASSUME NEW c \in Conns, NEW k \in Closers, DisconnectEnds(c, k)
        PROVE  RegistryMoves
    <3>1. UNCHANGED <<streams, infos>>
      BY <2>5 DEF DisconnectEnds
    <3> QED
      BY <2>1, <2>5, <3>1, ClosingShows, RegistryStays
  <2>6. CASE UNCHANGED vars
    <3>1. RegGone' = RegGone
      BY <2>6 DEF vars, RegGone
    <3> QED
      BY <2>6, <3>1, RegistryStays DEF vars
  <2> QED
    BY <2>2, <2>3, <2>4, <2>5, <2>6 DEF Next
<1>3. RegistryMoves <=> [Registry!Next]_<<RegPublisher, RegSubscribers, RegGone>>
  BY DEF RegistryMoves
<1> QED
  BY <1>1, <1>2, <1>3, StreamsInvariant, PTL
     DEF Spec, ImplementsRegistry, Registry!Spec, RegPublisher, RegSubscribers, RegGone
=============================================================================
