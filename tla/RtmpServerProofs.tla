-------------------------- MODULE RtmpServerProofs --------------------------
(***************************************************************************)
(* Safety of the life of connections, for every number of connections, of  *)
(* restarts and of calls of Close, and every connection limit.             *)
(***************************************************************************)
EXTENDS RtmpServer, TLAPS

\* The states of Close lead to each other.
LEMMA AfterCloseType ==
  ASSUME NEW c, NEW at \in ClosePCs, NEW done
  PROVE  AfterClose(c, at, done) \in ClosePCs \cup {done}
  BY DEF AfterClose, FollowingClose, ClosePCs

\* Close changes nothing to a value of another type.
LEMMA CloseEffectType ==
  ASSUME TypeOK, NEW c, NEW at \in ClosePCs, CloseEffect(c, at)
  PROVE  /\ state' \in [Conns -> {"Connected", "Handshaking", "Ready", "Closing",
                                  "Closed", "Error"}]
         /\ clients' \subseteq Conns
         /\ disconnects' \in [Conns -> Nat]
         /\ socket' \in [Conns -> {"open", "closed"}]
<1> USE DEF TypeOK, Become
<1>1. CASE at = "mark"
  BY <1>1 DEF CloseEffect
<1>2. CASE at = "remove"
  BY <1>2 DEF CloseEffect
<1>3. CASE at = "notify"
  BY <1>3 DEF CloseEffect
<1>4. CASE at = "shut"
  BY <1>4 DEF CloseEffect
<1>5. CASE at = "closed"
  BY <1>5 DEF CloseEffect
<1>6. CASE at = "close"
  BY <1>6 DEF CloseEffect
<1> QED
  BY <1>1, <1>2, <1>3, <1>4, <1>5, <1>6 DEF ClosePCs

\* What acceptLoop has accepted.
LimitHasConn == \A l \in Starts : loops[l].pc = "limit" => loops[l].conn \in Conns

\* A loop that moves on is still a loop, and has a connection where it needs one.
LEMMA LoopAtType ==
  ASSUME loops \in [Starts -> Loop], LimitHasConn, NEW l \in Starts,
         NEW where \in LoopPCs, NEW on \in 0 .. MaxStarts,
         NEW c \in Conns \cup {NoConn}, where = "limit" => c \in Conns,
         LoopAt(l, where, on, c)
  PROVE  loops' \in [Starts -> Loop] /\ LimitHasConn'
<1>1. [pc |-> where, on |-> on, conn |-> c] \in Loop
  BY DEF Loop
<1>2. loops' = [loops EXCEPT ![l] = [pc |-> where, on |-> on, conn |-> c]]
  BY DEF LoopAt
<1>3. loops' \in [Starts -> Loop]
  BY <1>1, <1>2
<1>4. ASSUME NEW m \in Starts, loops'[m].pc = "limit"
      PROVE  loops'[m].conn \in Conns
  <2>1. CASE m = l
    BY <1>2, <1>4, <2>1
  <2>2. CASE m # l
    BY <1>2, <1>4, <2>2 DEF LimitHasConn
  <2> QED
    BY <2>1, <2>2
<1> QED
  BY <1>3, <1>4 DEF LimitHasConn

\* Every step of every goroutine keeps the types: one case per action.
LEMMA TypeStep == TypeOK /\ [Next]_vars => TypeOK'
<1> SUFFICES ASSUME TypeOK, [Next]_vars
             PROVE  TypeOK'
  OBVIOUS
<1>0. LimitHasConn
  BY DEF TypeOK, LimitHasConn
<1> USE DEF TypeOK, GoTo, Become
<1>1. CASE Start
  <2>1. listener + 1 \in 1 .. MaxStarts
    BY <1>1, ServerAssumption DEF Start
  <2>2. LoopAt(listener + 1, "check", 0, NoConn)
    BY <1>1 DEF Start
  <2>3. loops' \in [Starts -> Loop] /\ LimitHasConn'
    BY <2>1, <2>2, LoopAtType, <1>0, ServerAssumption DEF LoopPCs, Starts
  <2>4. listener' \in 0 .. MaxStarts
    BY <1>1, <2>1, ServerAssumption DEF Start
  <2> QED
    BY <1>1, <2>3, <2>4 DEF Start, connVars, LimitHasConn
<1>2. CASE Stop
  BY <1>2 DEF Stop, connVars
<1>3. CASE StopListener
  BY <1>3 DEF StopListener, HandlerPCs
<1>4. CASE StopClients
  BY <1>4, ZenonT(30) DEF StopClients
<1>5. ASSUME NEW l \in Starts, AcceptCheck(l)
      PROVE  TypeOK'
  <2>1. LoopAt(l, IF ctxDone THEN "done" ELSE "read", 0, NoConn)
    BY <1>5 DEF AcceptCheck
  <2>2. loops' \in [Starts -> Loop] /\ LimitHasConn'
    BY <2>1, LoopAtType, <1>0, ServerAssumption DEF LoopPCs
  <2> QED
    BY <1>5, <2>2 DEF AcceptCheck, connVars, LimitHasConn
<1>6. ASSUME NEW l \in Starts, AcceptCall(l)
      PROVE  TypeOK'
  <2>1. LoopAt(l, "accept", listener, NoConn)
    BY <1>6 DEF AcceptCall
  <2>2. loops' \in [Starts -> Loop] /\ LimitHasConn'
    BY <2>1, LoopAtType, <1>0, ServerAssumption DEF LoopPCs
  <2> QED
    BY <1>6, <2>2 DEF AcceptCall, connVars, LimitHasConn
<1>7. ASSUME NEW l \in Starts, AcceptConn(l)
      PROVE  TypeOK'
  <2>1. PICK c \in Conns : LoopAt(l, "limit", 0, c)
    BY <1>7 DEF AcceptConn
  <2>2. loops' \in [Starts -> Loop] /\ LimitHasConn'
    BY <2>1, LoopAtType, <1>0, ServerAssumption DEF LoopPCs
  <2> QED
    BY <1>7, <2>2 DEF AcceptConn, HandlerPCs, LimitHasConn
<1>8. ASSUME NEW l \in Starts, AcceptError(l)
      PROVE  TypeOK'
  <2>1. LoopAt(l, IF ctxDone THEN "done" ELSE "check", 0, NoConn)
    BY <1>8 DEF AcceptError
  <2>2. loops' \in [Starts -> Loop] /\ LimitHasConn'
    BY <2>1, LoopAtType, <1>0, ServerAssumption DEF LoopPCs
  <2> QED
    BY <1>8, <2>2 DEF AcceptError, connVars, LimitHasConn
<1>9. ASSUME NEW l \in Starts, AcceptLimit(l)
      PROVE  TypeOK'
  <2>1. \/ LoopAt(l, "check", 0, NoConn)
        \/ LoopAt(l, "done", 0, NoConn)
    BY <1>9 DEF AcceptLimit
  <2>2. loops' \in [Starts -> Loop] /\ LimitHasConn'
    BY <2>1, LoopAtType, <1>0, ServerAssumption DEF LoopPCs
  <2> QED
    BY <1>9, <2>2, ZenonT(30) DEF AcceptLimit, HandlerPCs, LimitHasConn
<1>10. ASSUME NEW c \in Conns, Dial(c)
      PROVE  TypeOK'
  BY <1>10 DEF Dial, serverVars, HandlerPCs, ClosePCs
<1>11. ASSUME NEW c \in Conns, AppCloses(c)
      PROVE  TypeOK'
  BY <1>11 DEF AppCloses, serverVars, ClosePCs
<1>12. CASE AppClose
  <2>1. AfterClose(app.conn, app.pc, "idle") \in ClosePCs \cup {"idle"}
    BY <1>12, AfterCloseType DEF AppClose
  <2>2. app.pc \in ClosePCs /\ CloseEffect(app.conn, app.pc)
    BY <1>12 DEF AppClose
  <2>3. app' \in [pc : ClosePCs \cup {"idle"}, conn : Conns \cup {NoConn}]
    BY <1>12, <2>1 DEF AppClose
  <2> QED
    BY <1>12, <2>2, <2>3, CloseEffectType DEF AppClose
<1>13. ASSUME NEW c \in Conns, HandlerClose(c)
      PROVE  TypeOK'
  <2>1. AfterClose(c, pc[c], "done") \in ClosePCs \cup {"done"}
    BY <1>13, AfterCloseType DEF HandlerClose
  <2>2. pc[c] \in ClosePCs /\ CloseEffect(c, pc[c])
    BY <1>13 DEF HandlerClose
  <2>3. pc' \in [Conns -> HandlerPCs]
    BY <1>13, <2>1 DEF HandlerClose, HandlerPCs
  <2> QED
    BY <1>13, <2>2, <2>3, CloseEffectType DEF HandlerClose
<1>14. ASSUME NEW c \in Conns, Register(c)
      PROVE  TypeOK'
  BY <1>14 DEF Register, HandlerKeeps, HandlerPCs, ClosePCs
<1>15. ASSUME NEW c \in Conns, SetUp(c)
      PROVE  TypeOK'
  BY <1>15 DEF SetUp, HandlerKeeps, HandlerPCs, ClosePCs
<1>16. ASSUME NEW c \in Conns, OnConnect(c)
      PROVE  TypeOK'
  BY <1>16 DEF OnConnect, HandlerKeeps, HandlerPCs, ClosePCs
<1>17. ASSUME NEW c \in Conns, StartHandshake(c)
      PROVE  TypeOK'
  BY <1>17 DEF StartHandshake, HandlerKeeps, HandlerPCs, ClosePCs
<1>18. ASSUME NEW c \in Conns, HandshakeOK(c)
      PROVE  TypeOK'
  BY <1>18 DEF HandshakeOK, HandlerKeeps, HandlerPCs, ClosePCs
<1>19. ASSUME NEW c \in Conns, HandshakeFails(c)
      PROVE  TypeOK'
  BY <1>19 DEF HandshakeFails, HandlerKeeps, HandlerPCs, ClosePCs
<1>20. ASSUME NEW c \in Conns, NextMessage(c)
      PROVE  TypeOK'
  BY <1>20 DEF NextMessage, HandlerKeeps, HandlerPCs, ClosePCs
<1>21. ASSUME NEW c \in Conns, OnMessage(c)
      PROVE  TypeOK'
  BY <1>21 DEF OnMessage, HandlerKeeps, HandlerPCs, ClosePCs
<1>22. ASSUME NEW c \in Conns, ReadFails(c)
      PROVE  TypeOK'
  BY <1>22 DEF ReadFails, HandlerKeeps, HandlerPCs, ClosePCs
<1>23. ASSUME NEW c \in Conns, HandshakeEnds(c)
      PROVE  TypeOK'
  BY <1>23 DEF HandshakeEnds, HandlerKeeps, HandlerPCs, ClosePCs
<1>24. ASSUME NEW c \in Conns, ReadOK(c)
      PROVE  TypeOK'
  BY <1>24 DEF ReadOK, HandlerKeeps, HandlerPCs
<1>25. ASSUME NEW c \in Conns, WriteMessage(c)
      PROVE  TypeOK'
  BY <1>25 DEF WriteMessage, serverVars
<1>26. ASSUME NEW c \in Conns, WriteReturns(c)
      PROVE  TypeOK'
  BY <1>26 DEF WriteReturns, serverVars
<1>27. CASE UNCHANGED vars
  BY <1>27 DEF vars, serverVars, connVars
<1> QED
  BY <1>1, <1>2, <1>3, <1>4, <1>5, <1>6, <1>7, <1>8, <1>9, <1>10, <1>11,
     <1>12, <1>13, <1>14, <1>15, <1>16, <1>17, <1>18, <1>19, <1>20, <1>21,
     <1>22, <1>23, <1>24, <1>25, <1>26, <1>27
  DEF Next, Handler, AcceptLoop

----------------------------------------------------------------------------
(* The inductive invariant behind NoGhosts and NoOpenSocketLeft.           *)

\* A connection whose handler has put it into the map of clients.
Registered(c) == pc[c] \notin {"idle", "backlog", "accepted", "rejected", "register"}

\* A loop that decides on a connection is alone with it.
LoopInv ==
  \A l \in Starts : loops[l].pc = "limit" =>
    /\ loops[l].conn \in Conns
    /\ pc[loops[l].conn] = "accepted"
    /\ \A m \in Starts : loops[m].pc = "limit" /\ loops[m].conn = loops[l].conn => m = l

\* The application only ever closes, and writes to, registered connections.
AppInv ==
  /\ app.pc # "idle" => app.conn \in Conns /\ Registered(app.conn)
  /\ app.pc = "closed" => socket[app.conn] = "closed"
  /\ \A c \in connects \cup writing : Registered(c)

\* Nothing happens to a connection before it is registered.
FreshInv ==
  \A c \in Conns :
    /\ ~Registered(c) => state[c] = "Connected" /\ c \notin clients
    /\ pc[c] \in {"accepted", "register"} => socket[c] = "open"

\* While the map is not locked for good its entries are connections that are
\* open and that nobody who is to close them has taken out.
ClientsInv ==
  clientsMux = "free" =>
    \A c \in clients :
      /\ socket[c] = "open"
      /\ pc[c] \notin {"notify", "shut", "closed", "done"}
      /\ app.conn = c => app.pc \notin {"notify", "shut", "closed"}

\* A connection that is over, or about to be called so, is shut.
SocketInv ==
  \A c \in Conns :
    pc[c] \in {"closed", "done", "rejected"} \/ state[c] = "Closed" => socket[c] = "closed"

ServerInv ==
  TypeOK /\ LoopInv /\ AppInv /\ FreshInv /\ ClientsInv /\ SocketInv

\* A server that has not been started satisfies the invariant.
LEMMA InvInit == Init => ServerInv
<1> SUFFICES ASSUME Init
             PROVE  ServerInv
  OBVIOUS
<1>1. [pc |-> "none", on |-> 0, conn |-> NoConn] \in Loop
  BY ServerAssumption DEF Loop, LoopPCs
<1>2. loops \in [Starts -> Loop]
  BY <1>1 DEF Init
<1>3. app \in [pc : ClosePCs \cup {"idle"}, conn : Conns \cup {NoConn}]
  BY DEF Init
<1>4. pc \in [Conns -> HandlerPCs] /\ disconnects \in [Conns -> Nat]
  BY DEF Init, HandlerPCs
<1>5. /\ socket \in [Conns -> {"open", "closed"}]
      /\ state \in [Conns -> {"Connected", "Handshaking", "Ready", "Closing", "Closed",
                              "Error"}]
      /\ handshake \in [Conns -> {"none", "run", "done"}]
      /\ handshakeDone \in [Conns -> {"empty", "ok", "err"}]
  <2>1. socket \in [Conns -> {"open", "closed"}]
    BY DEF Init
  <2>2. state \in [Conns -> {"Connected", "Handshaking", "Ready", "Closing", "Closed",
                            "Error"}]
    BY DEF Init
  <2>3. handshake \in [Conns -> {"none", "run", "done"}]
    BY DEF Init
  <2>4. handshakeDone \in [Conns -> {"empty", "ok", "err"}]
    BY DEF Init
  <2> QED
    BY <2>1, <2>2, <2>3, <2>4
<1>6. listener \in 0 .. MaxStarts
  BY ServerAssumption DEF Init
<1>7. /\ running \in BOOLEAN /\ ctxDone \in BOOLEAN /\ listening \in BOOLEAN
      /\ stopped \in BOOLEAN /\ chunkSizeOK \in BOOLEAN /\ closeFailed \in BOOLEAN
      /\ stopping \in {"idle", "listener", "clients"}
      /\ clients \subseteq Conns /\ clientsMux \in {"free", "leaked"}
      /\ connects \subseteq Conns /\ appClosed \subseteq Conns
      /\ writing \subseteq Conns /\ writeFailed \subseteq Conns
  BY Zenon DEF Init
<1>8. TypeOK
  <2>1. LimitHasConn
    BY DEF Init, LimitHasConn
  <2> QED
    BY <1>2, <1>3, <1>4, <1>5, <1>6, <1>7, <2>1, Zenon DEF TypeOK, LimitHasConn
<1>9. LoopInv
  BY DEF Init, LoopInv
<1>10. AppInv /\ FreshInv /\ ClientsInv /\ SocketInv
  BY DEF Init, AppInv, FreshInv, ClientsInv, SocketInv, Registered
<1> QED
  BY <1>8, <1>9, <1>10 DEF ServerInv

\* Every step keeps the invariant: one case per action, and under it one step
\* per part.
LEMMA InvStep == ServerInv /\ [Next]_vars => ServerInv'
<1> SUFFICES ASSUME ServerInv, [Next]_vars
             PROVE  ServerInv'
  OBVIOUS
<1> USE DEF GoTo, Become
<1>0. TypeOK /\ TypeOK' /\ LoopInv /\ AppInv /\ FreshInv /\ ClientsInv /\ SocketInv
  BY TypeStep DEF ServerInv
<1>1. CASE Start
  <2>1. LoopInv'
    BY <1>0, <1>1 DEF Start, connVars, LoopAt, LoopInv
  <2>2. AppInv'
    BY <1>0, <1>1 DEF Start, connVars, AppInv, Registered
  <2>3. FreshInv'
    BY <1>0, <1>1 DEF Start, connVars, FreshInv, Registered
  <2>4. ClientsInv'
    BY <1>0, <1>1 DEF Start, connVars, ClientsInv
  <2>5. SocketInv'
    BY <1>0, <1>1 DEF Start, connVars, SocketInv
  <2> QED
    BY <1>0, <2>1, <2>2, <2>3, <2>4, <2>5 DEF ServerInv
<1>2. CASE Stop
  <2>1. LoopInv'
    BY <1>0, <1>2 DEF Stop, connVars, LoopInv
  <2>2. AppInv'
    BY <1>0, <1>2 DEF Stop, connVars, AppInv, Registered
  <2>3. FreshInv'
    BY <1>0, <1>2 DEF Stop, connVars, FreshInv, Registered
  <2>4. ClientsInv'
    BY <1>0, <1>2 DEF Stop, connVars, ClientsInv
  <2>5. SocketInv'
    BY <1>0, <1>2 DEF Stop, connVars, SocketInv
  <2> QED
    BY <1>0, <2>1, <2>2, <2>3, <2>4, <2>5 DEF ServerInv
<1>3. CASE StopListener
  <2>1. LoopInv'
    BY <1>0, <1>3 DEF StopListener, LoopInv
  <2>2. AppInv'
    BY <1>0, <1>3 DEF StopListener, AppInv, TypeOK, Registered, ClosePCs
  <2>3. FreshInv'
    BY <1>0, <1>3 DEF StopListener, FreshInv, Registered
  <2>4. ClientsInv'
    BY <1>0, <1>3 DEF StopListener, ClientsInv, TypeOK, Registered, ClosePCs
  <2>5. SocketInv'
    BY <1>0, <1>3 DEF StopListener, SocketInv
  <2> QED
    BY <1>0, <2>1, <2>2, <2>3, <2>4, <2>5 DEF ServerInv
<1>4. CASE StopClients
  <2>1. LoopInv'
    BY <1>0, <1>4 DEF StopClients, LoopInv
  <2>2. AppInv'
    BY <1>0, <1>4 DEF StopClients, AppInv, Registered
  <2>3. FreshInv'
    BY <1>0, <1>4 DEF StopClients, FreshInv, Registered
  <2>4. ClientsInv'
    BY <1>0, <1>4 DEF StopClients, ClientsInv
  <2>5. SocketInv'
    BY <1>0, <1>4 DEF StopClients, SocketInv
  <2> QED
    BY <1>0, <2>1, <2>2, <2>3, <2>4, <2>5 DEF ServerInv
<1>5. ASSUME NEW l \in Starts, AcceptCheck(l)
      PROVE  ServerInv'
  <2>1. LoopInv'
    BY <1>0, <1>5 DEF AcceptCheck, connVars, LoopAt, LoopInv
  <2>2. AppInv'
    BY <1>0, <1>5 DEF AcceptCheck, connVars, AppInv, Registered
  <2>3. FreshInv'
    BY <1>0, <1>5 DEF AcceptCheck, connVars, FreshInv, Registered
  <2>4. ClientsInv'
    BY <1>0, <1>5 DEF AcceptCheck, connVars, ClientsInv
  <2>5. SocketInv'
    BY <1>0, <1>5 DEF AcceptCheck, connVars, SocketInv
  <2> QED
    BY <1>0, <2>1, <2>2, <2>3, <2>4, <2>5 DEF ServerInv
<1>6. ASSUME NEW l \in Starts, AcceptCall(l)
      PROVE  ServerInv'
  <2>1. LoopInv'
    BY <1>0, <1>6 DEF AcceptCall, connVars, LoopAt, LoopInv
  <2>2. AppInv'
    BY <1>0, <1>6 DEF AcceptCall, connVars, AppInv, Registered
  <2>3. FreshInv'
    BY <1>0, <1>6 DEF AcceptCall, connVars, FreshInv, Registered
  <2>4. ClientsInv'
    BY <1>0, <1>6 DEF AcceptCall, connVars, ClientsInv
  <2>5. SocketInv'
    BY <1>0, <1>6 DEF AcceptCall, connVars, SocketInv
  <2> QED
    BY <1>0, <2>1, <2>2, <2>3, <2>4, <2>5 DEF ServerInv
<1>7. ASSUME NEW l \in Starts, AcceptConn(l)
      PROVE  ServerInv'
  <2>1. LoopInv'
    BY <1>0, <1>7 DEF AcceptConn, LoopAt, LoopInv, TypeOK, Registered, ClosePCs
  <2>2. AppInv'
    BY <1>0, <1>7 DEF AcceptConn, AppInv, Registered
  <2>3. FreshInv'
    BY <1>0, <1>7 DEF AcceptConn, LoopAt, FreshInv, TypeOK, Registered, ClosePCs
  <2>4. ClientsInv'
    BY <1>0, <1>7 DEF AcceptConn, ClientsInv
  <2>5. SocketInv'
    BY <1>0, <1>7 DEF AcceptConn, LoopAt, LoopInv, AppInv, FreshInv, ClientsInv,
       SocketInv, TypeOK, Registered, ClosePCs
  <2> QED
    BY <1>0, <2>1, <2>2, <2>3, <2>4, <2>5 DEF ServerInv
<1>8. ASSUME NEW l \in Starts, AcceptError(l)
      PROVE  ServerInv'
  <2>1. LoopInv'
    BY <1>0, <1>8 DEF AcceptError, connVars, LoopAt, LoopInv
  <2>2. AppInv'
    BY <1>0, <1>8 DEF AcceptError, connVars, AppInv, Registered
  <2>3. FreshInv'
    BY <1>0, <1>8 DEF AcceptError, connVars, FreshInv, Registered
  <2>4. ClientsInv'
    BY <1>0, <1>8 DEF AcceptError, connVars, ClientsInv
  <2>5. SocketInv'
    BY <1>0, <1>8 DEF AcceptError, connVars, SocketInv
  <2> QED
    BY <1>0, <2>1, <2>2, <2>3, <2>4, <2>5 DEF ServerInv
<1>9. ASSUME NEW l \in Starts, AcceptLimit(l)
      PROVE  ServerInv'
  <2>1. LoopInv'
    BY <1>0, <1>9 DEF AcceptLimit, LoopAt, LoopInv, TypeOK, Registered, ClosePCs
  <2>2. AppInv'
    BY <1>0, <1>9 DEF AcceptLimit, LoopAt, LoopInv, AppInv, FreshInv,
       ClientsInv, SocketInv, TypeOK, Registered, ClosePCs
  <2>3. FreshInv'
    BY <1>0, <1>9 DEF AcceptLimit, LoopAt, LoopInv, AppInv, FreshInv,
       ClientsInv, SocketInv, TypeOK, Registered, ClosePCs
  <2>4. ClientsInv'
    BY <1>0, <1>9 DEF AcceptLimit, LoopAt, LoopInv, AppInv, FreshInv,
       ClientsInv, SocketInv, TypeOK, Registered, ClosePCs
  <2>5. SocketInv'
    BY <1>0, <1>9 DEF AcceptLimit, LoopAt, SocketInv, TypeOK, Registered,
       ClosePCs
  <2> QED
    BY <1>0, <2>1, <2>2, <2>3, <2>4, <2>5 DEF ServerInv
<1>10. ASSUME NEW c \in Conns, Dial(c)
      PROVE  ServerInv'
  <2>1. LoopInv'
    BY <1>0, <1>10 DEF Dial, serverVars, LoopInv
  <2>2. AppInv'
    BY <1>0, <1>10 DEF Dial, serverVars, AppInv, Registered
  <2>3. FreshInv'
    BY <1>0, <1>10 DEF Dial, serverVars, FreshInv, Registered
  <2>4. ClientsInv'
    BY <1>0, <1>10 DEF Dial, serverVars, ClientsInv
  <2>5. SocketInv'
    BY <1>0, <1>10 DEF Dial, serverVars, SocketInv
  <2> QED
    BY <1>0, <2>1, <2>2, <2>3, <2>4, <2>5 DEF ServerInv
<1>11. ASSUME NEW c \in Conns, AppCloses(c)
      PROVE  ServerInv'
  <2>1. LoopInv'
    BY <1>0, <1>11 DEF AppCloses, serverVars, LoopInv
  <2>2. AppInv'
    BY <1>0, <1>11 DEF AppCloses, serverVars, Known, LoopInv, AppInv, FreshInv,
       ClientsInv, SocketInv, TypeOK, Registered, ClosePCs
  <2>3. FreshInv'
    BY <1>0, <1>11 DEF AppCloses, serverVars, FreshInv, Registered
  <2>4. ClientsInv'
    BY <1>0, <1>11 DEF AppCloses, serverVars, ClientsInv
  <2>5. SocketInv'
    BY <1>0, <1>11 DEF AppCloses, serverVars, SocketInv
  <2> QED
    BY <1>0, <2>1, <2>2, <2>3, <2>4, <2>5 DEF ServerInv
<1>12. CASE AppClose
  <2>1. CASE app.pc = "close"
    <3>1. LoopInv'
      BY <1>0, <1>12, <2>1 DEF AppClose, CloseEffect, AfterClose,
         FollowingClose, LoopInv
    <3>2. AppInv'
      BY <1>0, <1>12, <2>1 DEF AppClose, CloseEffect, AfterClose,
         FollowingClose, AppInv, Registered
    <3>3. FreshInv'
      BY <1>0, <1>12, <2>1 DEF AppClose, CloseEffect, AfterClose,
         FollowingClose, FreshInv, Registered
    <3>4. ClientsInv'
      BY <1>0, <1>12, <2>1 DEF AppClose, CloseEffect, AfterClose,
         FollowingClose, ClientsInv
    <3>5. SocketInv'
      BY <1>0, <1>12, <2>1 DEF AppClose, CloseEffect, AfterClose,
         FollowingClose, SocketInv
    <3> QED
      BY <1>0, <3>1, <3>2, <3>3, <3>4, <3>5 DEF ServerInv
  <2>2. CASE app.pc = "mark"
    <3>1. LoopInv'
      BY <1>0, <1>12, <2>2 DEF AppClose, CloseEffect, AfterClose,
         FollowingClose, LoopInv
    <3>2. AppInv'
      BY <1>0, <1>12, <2>2 DEF AppClose, CloseEffect, AfterClose,
         FollowingClose, AppInv, Registered
    <3>3. FreshInv'
      BY <1>0, <1>12, <2>2 DEF AppClose, CloseEffect, AfterClose,
         FollowingClose, LoopInv, AppInv, FreshInv, ClientsInv, SocketInv, TypeOK,
         Registered, ClosePCs
    <3>4. ClientsInv'
      BY <1>0, <1>12, <2>2 DEF AppClose, CloseEffect, AfterClose,
         FollowingClose, ClientsInv
    <3>5. SocketInv'
      BY <1>0, <1>12, <2>2 DEF AppClose, CloseEffect, AfterClose,
         FollowingClose, SocketInv, TypeOK, Registered, ClosePCs
    <3> QED
      BY <1>0, <3>1, <3>2, <3>3, <3>4, <3>5 DEF ServerInv
  <2>3. CASE app.pc = "remove"
    <3>1. LoopInv'
      BY <1>0, <1>12, <2>3 DEF AppClose, CloseEffect, AfterClose,
         FollowingClose, LoopInv
    <3>2. AppInv'
      BY <1>0, <1>12, <2>3 DEF AppClose, CloseEffect, AfterClose,
         FollowingClose, AppInv, Registered
    <3>3. FreshInv'
      BY <1>0, <1>12, <2>3 DEF AppClose, CloseEffect, AfterClose,
         FollowingClose, FreshInv, Registered
    <3>4. ClientsInv'
      BY <1>0, <1>12, <2>3 DEF AppClose, CloseEffect, AfterClose,
         FollowingClose, ClientsInv
    <3>5. SocketInv'
      BY <1>0, <1>12, <2>3 DEF AppClose, CloseEffect, AfterClose,
         FollowingClose, SocketInv
    <3> QED
      BY <1>0, <3>1, <3>2, <3>3, <3>4, <3>5 DEF ServerInv
  <2>4. CASE app.pc = "notify"
    <3>1. LoopInv'
      BY <1>0, <1>12, <2>4 DEF AppClose, CloseEffect, AfterClose,
         FollowingClose, LoopInv
    <3>2. AppInv'
      BY <1>0, <1>12, <2>4 DEF AppClose, CloseEffect, AfterClose,
         FollowingClose, AppInv, Registered
    <3>3. FreshInv'
      BY <1>0, <1>12, <2>4 DEF AppClose, CloseEffect, AfterClose,
         FollowingClose, FreshInv, Registered
    <3>4. ClientsInv'
      BY <1>0, <1>12, <2>4 DEF AppClose, CloseEffect, AfterClose,
         FollowingClose, ClientsInv
    <3>5. SocketInv'
      BY <1>0, <1>12, <2>4 DEF AppClose, CloseEffect, AfterClose,
         FollowingClose, SocketInv
    <3> QED
      BY <1>0, <3>1, <3>2, <3>3, <3>4, <3>5 DEF ServerInv
  <2>5. CASE app.pc = "shut"
    <3>1. LoopInv'
      BY <1>0, <1>12, <2>5 DEF AppClose, CloseEffect, AfterClose,
         FollowingClose, LoopInv
    <3>2. AppInv'
      BY <1>0, <1>12, <2>5 DEF AppClose, CloseEffect, AfterClose,
         FollowingClose, AppInv, TypeOK, Registered, ClosePCs
    <3>3. FreshInv'
      BY <1>0, <1>12, <2>5 DEF AppClose, CloseEffect, AfterClose,
         FollowingClose, LoopInv, AppInv, FreshInv, ClientsInv, SocketInv, TypeOK,
         Registered, ClosePCs
    <3>4. ClientsInv'
      BY <1>0, <1>12, <2>5 DEF AppClose, CloseEffect, AfterClose,
         FollowingClose, ClientsInv, TypeOK, Registered, ClosePCs
    <3>5. SocketInv'
      BY <1>0, <1>12, <2>5 DEF AppClose, CloseEffect, AfterClose,
         FollowingClose, SocketInv, TypeOK, Registered, ClosePCs
    <3> QED
      BY <1>0, <3>1, <3>2, <3>3, <3>4, <3>5 DEF ServerInv
  <2>6. CASE app.pc = "closed"
    <3>1. LoopInv'
      BY <1>0, <1>12, <2>6 DEF AppClose, CloseEffect, AfterClose,
         FollowingClose, LoopInv
    <3>2. AppInv'
      BY <1>0, <1>12, <2>6 DEF AppClose, CloseEffect, AfterClose,
         FollowingClose, AppInv, Registered
    <3>3. FreshInv'
      BY <1>0, <1>12, <2>6 DEF AppClose, CloseEffect, AfterClose,
         FollowingClose, LoopInv, AppInv, FreshInv, ClientsInv, SocketInv, TypeOK,
         Registered, ClosePCs
    <3>4. ClientsInv'
      BY <1>0, <1>12, <2>6 DEF AppClose, CloseEffect, AfterClose,
         FollowingClose, ClientsInv
    <3>5. SocketInv'
      BY <1>0, <1>12, <2>6 DEF AppClose, CloseEffect, AfterClose,
         FollowingClose, LoopInv, AppInv, FreshInv, ClientsInv, SocketInv, TypeOK,
         Registered, ClosePCs
    <3> QED
      BY <1>0, <3>1, <3>2, <3>3, <3>4, <3>5 DEF ServerInv
  <2> QED
    BY <1>12, <2>1, <2>2, <2>3, <2>4, <2>5, <2>6 DEF AppClose, ClosePCs
<1>13. ASSUME NEW c \in Conns, HandlerClose(c)
      PROVE  ServerInv'
  <2>1. CASE pc[c] = "close"
    <3>1. LoopInv'
      BY <1>0, <1>13, <2>1 DEF HandlerClose, CloseEffect, AfterClose,
         FollowingClose, LoopInv
    <3>2. AppInv'
      BY <1>0, <1>13, <2>1 DEF HandlerClose, CloseEffect, AfterClose,
         FollowingClose, AppInv, Registered
    <3>3. FreshInv'
      BY <1>0, <1>13, <2>1 DEF HandlerClose, CloseEffect, AfterClose,
         FollowingClose, FreshInv, Registered
    <3>4. ClientsInv'
      BY <1>0, <1>13, <2>1 DEF HandlerClose, CloseEffect, AfterClose,
         FollowingClose, LoopInv, AppInv, FreshInv, ClientsInv, SocketInv, TypeOK,
         Registered, ClosePCs
    <3>5. SocketInv'
      BY <1>0, <1>13, <2>1 DEF HandlerClose, CloseEffect, AfterClose,
         FollowingClose, SocketInv
    <3> QED
      BY <1>0, <3>1, <3>2, <3>3, <3>4, <3>5 DEF ServerInv
  <2>2. CASE pc[c] = "mark"
    <3>1. LoopInv'
      BY <1>0, <1>13, <2>2 DEF HandlerClose, CloseEffect, AfterClose,
         FollowingClose, LoopInv
    <3>2. AppInv'
      BY <1>0, <1>13, <2>2 DEF HandlerClose, CloseEffect, AfterClose,
         FollowingClose, AppInv, Registered
    <3>3. FreshInv'
      BY <1>0, <1>13, <2>2 DEF HandlerClose, CloseEffect, AfterClose,
         FollowingClose, FreshInv, TypeOK, Registered, ClosePCs
    <3>4. ClientsInv'
      BY <1>0, <1>13, <2>2 DEF HandlerClose, CloseEffect, AfterClose,
         FollowingClose, ClientsInv
    <3>5. SocketInv'
      BY <1>0, <1>13, <2>2 DEF HandlerClose, CloseEffect, AfterClose,
         FollowingClose, SocketInv, TypeOK, Registered, ClosePCs
    <3> QED
      BY <1>0, <3>1, <3>2, <3>3, <3>4, <3>5 DEF ServerInv
  <2>3. CASE pc[c] = "remove"
    <3>1. LoopInv'
      BY <1>0, <1>13, <2>3 DEF HandlerClose, CloseEffect, AfterClose,
         FollowingClose, LoopInv
    <3>2. AppInv'
      BY <1>0, <1>13, <2>3 DEF HandlerClose, CloseEffect, AfterClose,
         FollowingClose, AppInv, Registered
    <3>3. FreshInv'
      BY <1>0, <1>13, <2>3 DEF HandlerClose, CloseEffect, AfterClose,
         FollowingClose, FreshInv, Registered
    <3>4. ClientsInv'
      BY <1>0, <1>13, <2>3 DEF HandlerClose, CloseEffect, AfterClose,
         FollowingClose, ClientsInv
    <3>5. SocketInv'
      BY <1>0, <1>13, <2>3 DEF HandlerClose, CloseEffect, AfterClose,
         FollowingClose, SocketInv
    <3> QED
      BY <1>0, <3>1, <3>2, <3>3, <3>4, <3>5 DEF ServerInv
  <2>4. CASE pc[c] = "notify"
    <3>1. LoopInv'
      BY <1>0, <1>13, <2>4 DEF HandlerClose, CloseEffect, AfterClose,
         FollowingClose, LoopInv
    <3>2. AppInv'
      BY <1>0, <1>13, <2>4 DEF HandlerClose, CloseEffect, AfterClose,
         FollowingClose, AppInv, Registered
    <3>3. FreshInv'
      BY <1>0, <1>13, <2>4 DEF HandlerClose, CloseEffect, AfterClose,
         FollowingClose, FreshInv, Registered
    <3>4. ClientsInv'
      BY <1>0, <1>13, <2>4 DEF HandlerClose, CloseEffect, AfterClose,
         FollowingClose, ClientsInv
    <3>5. SocketInv'
      BY <1>0, <1>13, <2>4 DEF HandlerClose, CloseEffect, AfterClose,
         FollowingClose, SocketInv
    <3> QED
      BY <1>0, <3>1, <3>2, <3>3, <3>4, <3>5 DEF ServerInv
  <2>5. CASE pc[c] = "shut"
    <3>1. LoopInv'
      BY <1>0, <1>13, <2>5 DEF HandlerClose, CloseEffect, AfterClose,
         FollowingClose, LoopInv
    <3>2. AppInv'
      BY <1>0, <1>13, <2>5 DEF HandlerClose, CloseEffect, AfterClose,
         FollowingClose, AppInv, TypeOK, Registered, ClosePCs
    <3>3. FreshInv'
      BY <1>0, <1>13, <2>5 DEF HandlerClose, CloseEffect, AfterClose,
         FollowingClose, FreshInv, TypeOK, Registered, ClosePCs
    <3>4. ClientsInv'
      BY <1>0, <1>13, <2>5 DEF HandlerClose, CloseEffect, AfterClose,
         FollowingClose, ClientsInv, TypeOK, Registered, ClosePCs
    <3>5. SocketInv'
      BY <1>0, <1>13, <2>5 DEF HandlerClose, CloseEffect, AfterClose,
         FollowingClose, SocketInv, TypeOK, Registered, ClosePCs
    <3> QED
      BY <1>0, <3>1, <3>2, <3>3, <3>4, <3>5 DEF ServerInv
  <2>6. CASE pc[c] = "closed"
    <3>1. LoopInv'
      BY <1>0, <1>13, <2>6 DEF HandlerClose, CloseEffect, AfterClose,
         FollowingClose, LoopInv
    <3>2. AppInv'
      BY <1>0, <1>13, <2>6 DEF HandlerClose, CloseEffect, AfterClose,
         FollowingClose, AppInv, Registered
    <3>3. FreshInv'
      BY <1>0, <1>13, <2>6 DEF HandlerClose, CloseEffect, AfterClose,
         FollowingClose, FreshInv, TypeOK, Registered, ClosePCs
    <3>4. ClientsInv'
      BY <1>0, <1>13, <2>6 DEF HandlerClose, CloseEffect, AfterClose,
         FollowingClose, ClientsInv
    <3>5. SocketInv'
      BY <1>0, <1>13, <2>6 DEF HandlerClose, CloseEffect, AfterClose,
         FollowingClose, SocketInv, TypeOK, Registered, ClosePCs
    <3> QED
      BY <1>0, <3>1, <3>2, <3>3, <3>4, <3>5 DEF ServerInv
  <2> QED
    BY <1>13, <2>1, <2>2, <2>3, <2>4, <2>5, <2>6 DEF HandlerClose, ClosePCs
<1>14. ASSUME NEW c \in Conns, Register(c)
      PROVE  ServerInv'
  <2>1. LoopInv'
    BY <1>0, <1>14 DEF Register, HandlerKeeps, LoopInv
  <2>2. AppInv'
    BY <1>0, <1>14 DEF Register, HandlerKeeps, AppInv, Registered
  <2>3. FreshInv'
    BY <1>0, <1>14 DEF Register, HandlerKeeps, FreshInv, TypeOK, Registered,
       ClosePCs
  <2>4. ClientsInv'
    BY <1>0, <1>14 DEF Register, HandlerKeeps, LoopInv, AppInv, FreshInv,
       ClientsInv, SocketInv, TypeOK, Registered, ClosePCs
  <2>5. SocketInv'
    BY <1>0, <1>14 DEF Register, HandlerKeeps, SocketInv
  <2> QED
    BY <1>0, <2>1, <2>2, <2>3, <2>4, <2>5 DEF ServerInv
<1>15. ASSUME NEW c \in Conns, SetUp(c)
      PROVE  ServerInv'
  <2>1. LoopInv'
    BY <1>0, <1>15 DEF SetUp, HandlerKeeps, LoopInv
  <2>2. AppInv'
    BY <1>0, <1>15 DEF SetUp, HandlerKeeps, AppInv, Registered
  <2>3. FreshInv'
    BY <1>0, <1>15 DEF SetUp, HandlerKeeps, FreshInv, Registered
  <2>4. ClientsInv'
    BY <1>0, <1>15 DEF SetUp, HandlerKeeps, ClientsInv
  <2>5. SocketInv'
    BY <1>0, <1>15 DEF SetUp, HandlerKeeps, SocketInv
  <2> QED
    BY <1>0, <2>1, <2>2, <2>3, <2>4, <2>5 DEF ServerInv
<1>16. ASSUME NEW c \in Conns, OnConnect(c)
      PROVE  ServerInv'
  <2>1. LoopInv'
    BY <1>0, <1>16 DEF OnConnect, HandlerKeeps, LoopInv
  <2>2. AppInv'
    BY <1>0, <1>16 DEF OnConnect, HandlerKeeps, AppInv, Registered
  <2>3. FreshInv'
    BY <1>0, <1>16 DEF OnConnect, HandlerKeeps, FreshInv, Registered
  <2>4. ClientsInv'
    BY <1>0, <1>16 DEF OnConnect, HandlerKeeps, ClientsInv
  <2>5. SocketInv'
    BY <1>0, <1>16 DEF OnConnect, HandlerKeeps, SocketInv
  <2> QED
    BY <1>0, <2>1, <2>2, <2>3, <2>4, <2>5 DEF ServerInv
<1>17. ASSUME NEW c \in Conns, StartHandshake(c)
      PROVE  ServerInv'
  <2>1. LoopInv'
    BY <1>0, <1>17 DEF StartHandshake, HandlerKeeps, LoopInv
  <2>2. AppInv'
    BY <1>0, <1>17 DEF StartHandshake, HandlerKeeps, AppInv, Registered
  <2>3. FreshInv'
    BY <1>0, <1>17 DEF StartHandshake, HandlerKeeps, FreshInv, Registered
  <2>4. ClientsInv'
    BY <1>0, <1>17 DEF StartHandshake, HandlerKeeps, ClientsInv
  <2>5. SocketInv'
    BY <1>0, <1>17 DEF StartHandshake, HandlerKeeps, SocketInv
  <2> QED
    BY <1>0, <2>1, <2>2, <2>3, <2>4, <2>5 DEF ServerInv
<1>18. ASSUME NEW c \in Conns, HandshakeOK(c)
      PROVE  ServerInv'
  <2>1. LoopInv'
    BY <1>0, <1>18 DEF HandshakeOK, HandlerKeeps, LoopInv
  <2>2. AppInv'
    BY <1>0, <1>18 DEF HandshakeOK, HandlerKeeps, AppInv, Registered
  <2>3. FreshInv'
    BY <1>0, <1>18 DEF HandshakeOK, HandlerKeeps, FreshInv, Registered
  <2>4. ClientsInv'
    BY <1>0, <1>18 DEF HandshakeOK, HandlerKeeps, ClientsInv
  <2>5. SocketInv'
    BY <1>0, <1>18 DEF HandshakeOK, HandlerKeeps, SocketInv
  <2> QED
    BY <1>0, <2>1, <2>2, <2>3, <2>4, <2>5 DEF ServerInv
<1>19. ASSUME NEW c \in Conns, HandshakeFails(c)
      PROVE  ServerInv'
  <2>1. LoopInv'
    BY <1>0, <1>19 DEF HandshakeFails, HandlerKeeps, LoopInv
  <2>2. AppInv'
    BY <1>0, <1>19 DEF HandshakeFails, HandlerKeeps, AppInv, Registered
  <2>3. FreshInv'
    BY <1>0, <1>19 DEF HandshakeFails, HandlerKeeps, FreshInv, Registered
  <2>4. ClientsInv'
    BY <1>0, <1>19 DEF HandshakeFails, HandlerKeeps, ClientsInv
  <2>5. SocketInv'
    BY <1>0, <1>19 DEF HandshakeFails, HandlerKeeps, SocketInv
  <2> QED
    BY <1>0, <2>1, <2>2, <2>3, <2>4, <2>5 DEF ServerInv
<1>20. ASSUME NEW c \in Conns, NextMessage(c)
      PROVE  ServerInv'
  <2>1. LoopInv'
    BY <1>0, <1>20 DEF NextMessage, HandlerKeeps, LoopInv, TypeOK, Registered,
       ClosePCs
  <2>2. AppInv'
    BY <1>0, <1>20 DEF NextMessage, HandlerKeeps, AppInv, TypeOK, Registered,
       ClosePCs
  <2>3. FreshInv'
    BY <1>0, <1>20 DEF NextMessage, HandlerKeeps, FreshInv, TypeOK, Registered,
       ClosePCs
  <2>4. ClientsInv'
    BY <1>0, <1>20 DEF NextMessage, HandlerKeeps, ClientsInv, TypeOK,
       Registered, ClosePCs
  <2>5. SocketInv'
    BY <1>0, <1>20 DEF NextMessage, HandlerKeeps, SocketInv, TypeOK, Registered,
       ClosePCs
  <2> QED
    BY <1>0, <2>1, <2>2, <2>3, <2>4, <2>5 DEF ServerInv
<1>21. ASSUME NEW c \in Conns, OnMessage(c)
      PROVE  ServerInv'
  <2>1. LoopInv'
    BY <1>0, <1>21 DEF OnMessage, HandlerKeeps, LoopInv
  <2>2. AppInv'
    BY <1>0, <1>21 DEF OnMessage, HandlerKeeps, AppInv, Registered
  <2>3. FreshInv'
    BY <1>0, <1>21 DEF OnMessage, HandlerKeeps, FreshInv, Registered
  <2>4. ClientsInv'
    BY <1>0, <1>21 DEF OnMessage, HandlerKeeps, ClientsInv
  <2>5. SocketInv'
    BY <1>0, <1>21 DEF OnMessage, HandlerKeeps, SocketInv
  <2> QED
    BY <1>0, <2>1, <2>2, <2>3, <2>4, <2>5 DEF ServerInv
<1>22. ASSUME NEW c \in Conns, ReadFails(c)
      PROVE  ServerInv'
  <2>1. LoopInv'
    BY <1>0, <1>22 DEF ReadFails, HandlerKeeps, LoopInv
  <2>2. AppInv'
    BY <1>0, <1>22 DEF ReadFails, HandlerKeeps, AppInv, Registered
  <2>3. FreshInv'
    BY <1>0, <1>22 DEF ReadFails, HandlerKeeps, FreshInv, Registered
  <2>4. ClientsInv'
    BY <1>0, <1>22 DEF ReadFails, HandlerKeeps, ClientsInv
  <2>5. SocketInv'
    BY <1>0, <1>22 DEF ReadFails, HandlerKeeps, SocketInv
  <2> QED
    BY <1>0, <2>1, <2>2, <2>3, <2>4, <2>5 DEF ServerInv
<1>23. ASSUME NEW c \in Conns, HandshakeEnds(c)
      PROVE  ServerInv'
  <2>1. LoopInv'
    BY <1>0, <1>23 DEF HandshakeEnds, HandlerKeeps, LoopInv
  <2>2. AppInv'
    BY <1>0, <1>23 DEF HandshakeEnds, HandlerKeeps, AppInv, Registered
  <2>3. FreshInv'
    BY <1>0, <1>23 DEF HandshakeEnds, HandlerKeeps, FreshInv, Registered
  <2>4. ClientsInv'
    BY <1>0, <1>23 DEF HandshakeEnds, HandlerKeeps, ClientsInv
  <2>5. SocketInv'
    BY <1>0, <1>23 DEF HandshakeEnds, HandlerKeeps, SocketInv
  <2> QED
    BY <1>0, <2>1, <2>2, <2>3, <2>4, <2>5 DEF ServerInv
<1>24. ASSUME NEW c \in Conns, ReadOK(c)
      PROVE  ServerInv'
  <2>1. LoopInv'
    BY <1>0, <1>24 DEF ReadOK, HandlerKeeps, LoopInv
  <2>2. AppInv'
    BY <1>0, <1>24 DEF ReadOK, HandlerKeeps, AppInv, Registered
  <2>3. FreshInv'
    BY <1>0, <1>24 DEF ReadOK, HandlerKeeps, FreshInv, Registered
  <2>4. ClientsInv'
    BY <1>0, <1>24 DEF ReadOK, HandlerKeeps, ClientsInv
  <2>5. SocketInv'
    BY <1>0, <1>24 DEF ReadOK, HandlerKeeps, SocketInv
  <2> QED
    BY <1>0, <2>1, <2>2, <2>3, <2>4, <2>5 DEF ServerInv
<1>25. ASSUME NEW c \in Conns, WriteMessage(c)
      PROVE  ServerInv'
  <2>1. LoopInv'
    BY <1>0, <1>25 DEF WriteMessage, serverVars, LoopInv
  <2>2. AppInv'
    BY <1>0, <1>25 DEF WriteMessage, serverVars, Known, LoopInv, AppInv,
       FreshInv, ClientsInv, SocketInv, TypeOK, Registered, ClosePCs
  <2>3. FreshInv'
    BY <1>0, <1>25 DEF WriteMessage, serverVars, FreshInv, Registered
  <2>4. ClientsInv'
    BY <1>0, <1>25 DEF WriteMessage, serverVars, ClientsInv
  <2>5. SocketInv'
    BY <1>0, <1>25 DEF WriteMessage, serverVars, SocketInv
  <2> QED
    BY <1>0, <2>1, <2>2, <2>3, <2>4, <2>5 DEF ServerInv
<1>26. ASSUME NEW c \in Conns, WriteReturns(c)
      PROVE  ServerInv'
  <2>1. LoopInv'
    BY <1>0, <1>26 DEF WriteReturns, serverVars, LoopInv
  <2>2. AppInv'
    BY <1>0, <1>26 DEF WriteReturns, serverVars, AppInv, Registered
  <2>3. FreshInv'
    BY <1>0, <1>26 DEF WriteReturns, serverVars, LoopInv, AppInv, FreshInv,
       ClientsInv, SocketInv, TypeOK, Registered, ClosePCs
  <2>4. ClientsInv'
    BY <1>0, <1>26 DEF WriteReturns, serverVars, ClientsInv
  <2>5. SocketInv'
    BY <1>0, <1>26 DEF WriteReturns, serverVars, SocketInv, TypeOK, Registered,
       ClosePCs
  <2> QED
    BY <1>0, <2>1, <2>2, <2>3, <2>4, <2>5 DEF ServerInv
<1>27. CASE UNCHANGED vars
  BY <1>0, <1>27 DEF vars, serverVars, connVars, ServerInv, LoopInv, AppInv, FreshInv,
     ClientsInv, SocketInv, Registered
<1> QED
  BY <1>1, <1>2, <1>3, <1>4, <1>5, <1>6, <1>7, <1>8, <1>9, <1>10, <1>11,
     <1>12, <1>13, <1>14, <1>15, <1>16, <1>17, <1>18, <1>19, <1>20, <1>21,
     <1>22, <1>23, <1>24, <1>25, <1>26, <1>27
  DEF Next, Handler, AcceptLoop

----------------------------------------------------------------------------
(* The theorems.                                                           *)

\* The inductive invariant holds in every state of the server.
THEOREM ServerInvariant == Spec => []ServerInv
<1>1. Init => ServerInv
  BY InvInit
<1>2. ServerInv /\ [Next]_vars => ServerInv'
  BY InvStep
<1> QED
  BY <1>1, <1>2, PTL DEF Spec

\* Type correctness: the server's variables keep the values of their Go types.
THEOREM ServerTypes == Spec => []TypeOK
<1>1. ServerInv => TypeOK
  BY DEF ServerInv
<1> QED
  BY <1>1, ServerInvariant, PTL

\* Nothing stays in s.clients whose handler is over: Close by the handler,
\* Close by the application and Stop may run at once, on any number of
\* connections, as long as Stop has not left clientsMux locked.
THEOREM ClientsLive == Spec => []NoGhosts
<1>1. ServerInv => NoGhosts
  <2> SUFFICES ASSUME FreshInv, ClientsInv, TypeOK, clientsMux = "free",
                      NEW c \in clients
               PROVE  Live(c)
    BY DEF ServerInv, NoGhosts
  <2>1. c \in Conns
    BY DEF TypeOK
  <2>2. Registered(c)
    BY <2>1 DEF FreshInv
  <2>3. pc[c] # "done"
    BY DEF ClientsInv
  <2> QED
    BY <2>2, <2>3 DEF Live, Registered
<1> QED
  BY <1>1, ServerInvariant, PTL

\* No way out of handleConnection leaves the socket open, also the early
\* returns that do not call Close.
THEOREM SocketsClosed == Spec => []NoOpenSocketLeft
<1>1. ServerInv => NoOpenSocketLeft
  BY DEF ServerInv, SocketInv, NoOpenSocketLeft
<1> QED
  BY <1>1, ServerInvariant, PTL

----------------------------------------------------------------------------
(* Callbacks and the last state of a connection, and that a server goes on *)
(* accepting: for every number of connections and of calls of Close, by    *)
(* whichever goroutines.                                                   *)


\* A server that runs has a listener.
HasListener == running => listener \in Starts

\* No step ends the loop of a server that was not stopped, but a failing close.
LEMMA AcceptsStep ==
  TypeOK /\ HasListener /\ AcceptsUntilStopped /\ [Next]_vars
    => (HasListener /\ AcceptsUntilStopped)'
<1> SUFFICES ASSUME TypeOK, HasListener, AcceptsUntilStopped, [Next]_vars
             PROVE  (HasListener /\ AcceptsUntilStopped)'
  OBVIOUS
<1> USE DEF HasListener, AcceptsUntilStopped
<1>1. CASE Start
  <2>1. listener + 1 \in Starts
    BY <1>1, ServerAssumption DEF Start, TypeOK, Starts
  <2> QED
    BY <1>1, <2>1 DEF Start, LoopAt, TypeOK, connVars
<1>2. CASE Stop
  BY <1>2 DEF Stop
<1>3. CASE StopListener \/ StopClients
  BY <1>3 DEF StopListener, StopClients, TypeOK
<1>4. ASSUME NEW l \in Starts, AcceptLoop(l)
      PROVE  (HasListener /\ AcceptsUntilStopped)'
  <2>1. CASE AcceptCheck(l)
    BY <2>1 DEF AcceptCheck, LoopAt, TypeOK, connVars
  <2>2. CASE AcceptCall(l)
    BY <2>2 DEF AcceptCall, LoopAt, TypeOK, connVars
  <2>3. CASE AcceptConn(l)
    BY <2>3 DEF AcceptConn, LoopAt, TypeOK
  <2>4. CASE AcceptError(l)
    BY <2>4 DEF AcceptError, LoopAt, TypeOK, connVars
  <2>5. CASE AcceptLimit(l)
    BY <2>5 DEF AcceptLimit, LoopAt, TypeOK
  <2> QED
    BY <1>4, <2>1, <2>2, <2>3, <2>4, <2>5 DEF AcceptLoop
<1>5. ASSUME NEW c \in Conns, Handler(c) \/ HandlerClose(c)
      PROVE  (HasListener /\ AcceptsUntilStopped)'
  BY <1>5 DEF Handler, HandlerKeeps, Register, SetUp, OnConnect, StartHandshake,
     HandshakeOK, HandshakeFails, NextMessage, ReadFails, OnMessage, HandlerClose
<1>6. ASSUME NEW c \in Conns,
             \/ Dial(c) \/ ReadOK(c) \/ HandshakeEnds(c) \/ AppCloses(c)
             \/ WriteMessage(c) \/ WriteReturns(c)
      PROVE  (HasListener /\ AcceptsUntilStopped)'
  BY <1>6 DEF Dial, ReadOK, HandshakeEnds, HandlerKeeps, AppCloses, WriteMessage,
     WriteReturns, serverVars
<1>7. CASE AppClose
  BY <1>7 DEF AppClose
<1>8. CASE UNCHANGED vars
  BY <1>8 DEF vars, serverVars, connVars
<1> QED
  BY <1>1, <1>2, <1>3, <1>4, <1>5, <1>6, <1>7, <1>8 DEF Next

----------------------------------------------------------------------------
(* The inductive invariant behind CallbacksPaired and SettlesClosed.       *)

\* The application is in Close for a connection it has asked to be closed.
AppOwns ==
  /\ app.pc = "idle" => app.conn = NoConn
  /\ app.pc # "idle" => app.conn \in appClosed

\* OnConnect comes before anything else a handler does on its connection.
ConnectedFirst ==
  \A c \in connects :
    pc[c] \notin {"idle", "backlog", "accepted", "rejected", "register", "deadline", "connect"}

\* Whoever is past OnDisconnect in Close has called it, and so has whoever set
\* the state to Closed.
Notified ==
  \A c \in Conns :
    \/ pc[c] \in {"shut", "closed"}
    \/ app.conn = c /\ app.pc \in {"shut", "closed"}
    \/ state[c] = "Closed"
    => disconnects[c] >= 1

CallbackInv == AppOwns /\ ConnectedFirst /\ Notified /\ DisconnectAnswers /\ SettlesClosed

\* A server that has not been started satisfies it.
LEMMA CallbackInit == Init => CallbackInv
<1> SUFFICES ASSUME Init
             PROVE  CallbackInv
  OBVIOUS
<1>1. AppOwns /\ ConnectedFirst
  BY DEF Init, AppOwns, ConnectedFirst
<1>2. Notified
  BY ServerAssumption DEF Init, Notified
<1>3. DisconnectAnswers /\ SettlesClosed
  BY DEF Init, DisconnectAnswers, SettlesClosed
<1> QED
  BY <1>1, <1>2, <1>3 DEF CallbackInv

\* Every step keeps it: one case per action, under it one step per part; in the
\* two that run Close, one per place in Close.
LEMMA CallbackStep == ServerInv /\ CallbackInv /\ [Next]_vars => CallbackInv'
<1> SUFFICES ASSUME ServerInv, CallbackInv, [Next]_vars
             PROVE  CallbackInv'
  OBVIOUS
<1> USE DEF GoTo, Become
<1>0. /\ TypeOK /\ AppInv /\ LoopInv /\ NoConn \notin Conns
      /\ AppOwns /\ ConnectedFirst /\ Notified /\ DisconnectAnswers /\ SettlesClosed
  BY ServerAssumption DEF ServerInv, CallbackInv
<1>1. CASE Start
  <2>1. AppOwns'
    BY <1>0, <1>1 DEF Start, connVars, AppOwns
  <2>2. ConnectedFirst'
    BY <1>0, <1>1 DEF Start, connVars, ConnectedFirst
  <2>3. Notified'
    BY <1>0, <1>1 DEF Start, connVars, Notified
  <2>4. DisconnectAnswers'
    BY <1>0, <1>1 DEF Start, connVars, DisconnectAnswers
  <2>5. SettlesClosed'
    BY <1>0, <1>1 DEF Start, connVars, SettlesClosed
  <2> QED
    BY <2>1, <2>2, <2>3, <2>4, <2>5 DEF CallbackInv
<1>2. CASE Stop
  <2>1. AppOwns'
    BY <1>0, <1>2 DEF Stop, connVars, AppOwns
  <2>2. ConnectedFirst'
    BY <1>0, <1>2 DEF Stop, connVars, ConnectedFirst
  <2>3. Notified'
    BY <1>0, <1>2 DEF Stop, connVars, Notified
  <2>4. DisconnectAnswers'
    BY <1>0, <1>2 DEF Stop, connVars, DisconnectAnswers
  <2>5. SettlesClosed'
    BY <1>0, <1>2 DEF Stop, connVars, SettlesClosed
  <2> QED
    BY <2>1, <2>2, <2>3, <2>4, <2>5 DEF CallbackInv
<1>3. CASE StopListener
  <2>1. AppOwns'
    BY <1>0, <1>3 DEF StopListener, AppOwns, TypeOK
  <2>2. ConnectedFirst'
    BY <1>0, <1>3 DEF StopListener, ConnectedFirst, TypeOK
  <2>3. Notified'
    BY <1>0, <1>3 DEF StopListener, Notified, TypeOK
  <2>4. DisconnectAnswers'
    BY <1>0, <1>3 DEF StopListener, DisconnectAnswers, TypeOK
  <2>5. SettlesClosed'
    BY <1>0, <1>3 DEF StopListener, SettlesClosed, TypeOK
  <2> QED
    BY <2>1, <2>2, <2>3, <2>4, <2>5 DEF CallbackInv
<1>4. CASE StopClients
  <2>1. AppOwns'
    BY <1>0, <1>4 DEF StopClients, AppOwns
  <2>2. ConnectedFirst'
    BY <1>0, <1>4 DEF StopClients, ConnectedFirst
  <2>3. Notified'
    BY <1>0, <1>4 DEF StopClients, Notified
  <2>4. DisconnectAnswers'
    BY <1>0, <1>4 DEF StopClients, DisconnectAnswers
  <2>5. SettlesClosed'
    BY <1>0, <1>4 DEF StopClients, SettlesClosed
  <2> QED
    BY <2>1, <2>2, <2>3, <2>4, <2>5 DEF CallbackInv
<1>5. ASSUME NEW l \in Starts, AcceptCheck(l)
      PROVE  CallbackInv'
  <2>1. AppOwns'
    BY <1>0, <1>5 DEF AcceptCheck, connVars, AppOwns
  <2>2. ConnectedFirst'
    BY <1>0, <1>5 DEF AcceptCheck, connVars, ConnectedFirst
  <2>3. Notified'
    BY <1>0, <1>5 DEF AcceptCheck, connVars, Notified
  <2>4. DisconnectAnswers'
    BY <1>0, <1>5 DEF AcceptCheck, connVars, DisconnectAnswers
  <2>5. SettlesClosed'
    BY <1>0, <1>5 DEF AcceptCheck, connVars, SettlesClosed
  <2> QED
    BY <2>1, <2>2, <2>3, <2>4, <2>5 DEF CallbackInv
<1>6. ASSUME NEW l \in Starts, AcceptCall(l)
      PROVE  CallbackInv'
  <2>1. AppOwns'
    BY <1>0, <1>6 DEF AcceptCall, connVars, AppOwns
  <2>2. ConnectedFirst'
    BY <1>0, <1>6 DEF AcceptCall, connVars, ConnectedFirst
  <2>3. Notified'
    BY <1>0, <1>6 DEF AcceptCall, connVars, Notified
  <2>4. DisconnectAnswers'
    BY <1>0, <1>6 DEF AcceptCall, connVars, DisconnectAnswers
  <2>5. SettlesClosed'
    BY <1>0, <1>6 DEF AcceptCall, connVars, SettlesClosed
  <2> QED
    BY <2>1, <2>2, <2>3, <2>4, <2>5 DEF CallbackInv
<1>7. ASSUME NEW l \in Starts, AcceptConn(l)
      PROVE  CallbackInv'
  <2>1. AppOwns'
    BY <1>0, <1>7 DEF AcceptConn, AppOwns, TypeOK
  <2>2. ConnectedFirst'
    BY <1>0, <1>7 DEF AcceptConn, ConnectedFirst, TypeOK
  <2>3. Notified'
    BY <1>0, <1>7 DEF AcceptConn, Notified, TypeOK
  <2>4. DisconnectAnswers'
    BY <1>0, <1>7 DEF AcceptConn, DisconnectAnswers, TypeOK
  <2>5. SettlesClosed'
    BY <1>0, <1>7 DEF AcceptConn, SettlesClosed, TypeOK
  <2> QED
    BY <2>1, <2>2, <2>3, <2>4, <2>5 DEF CallbackInv
<1>8. ASSUME NEW l \in Starts, AcceptError(l)
      PROVE  CallbackInv'
  <2>1. AppOwns'
    BY <1>0, <1>8 DEF AcceptError, connVars, AppOwns
  <2>2. ConnectedFirst'
    BY <1>0, <1>8 DEF AcceptError, connVars, ConnectedFirst
  <2>3. Notified'
    BY <1>0, <1>8 DEF AcceptError, connVars, Notified
  <2>4. DisconnectAnswers'
    BY <1>0, <1>8 DEF AcceptError, connVars, DisconnectAnswers
  <2>5. SettlesClosed'
    BY <1>0, <1>8 DEF AcceptError, connVars, SettlesClosed
  <2> QED
    BY <2>1, <2>2, <2>3, <2>4, <2>5 DEF CallbackInv
<1>9. ASSUME NEW l \in Starts, AcceptLimit(l)
      PROVE  CallbackInv'
  <2>1. AppOwns'
    BY <1>0, <1>9 DEF AcceptLimit, AppOwns, TypeOK
  <2>2. ConnectedFirst'
    BY <1>0, <1>9 DEF AcceptLimit, ConnectedFirst, TypeOK, LoopInv
  <2>3. Notified'
    BY <1>0, <1>9 DEF AcceptLimit, Notified, TypeOK
  <2>4. DisconnectAnswers'
    BY <1>0, <1>9 DEF AcceptLimit, DisconnectAnswers, TypeOK, LoopInv
  <2>5. SettlesClosed'
    BY <1>0, <1>9 DEF AcceptLimit, SettlesClosed, TypeOK
  <2> QED
    BY <2>1, <2>2, <2>3, <2>4, <2>5 DEF CallbackInv
<1>10. ASSUME NEW c \in Conns, Dial(c)
      PROVE  CallbackInv'
  <2>1. AppOwns'
    BY <1>0, <1>10 DEF Dial, AppOwns, TypeOK
  <2>2. ConnectedFirst'
    BY <1>0, <1>10 DEF Dial, ConnectedFirst, TypeOK
  <2>3. Notified'
    BY <1>0, <1>10 DEF Dial, Notified, TypeOK
  <2>4. DisconnectAnswers'
    BY <1>0, <1>10 DEF Dial, DisconnectAnswers, TypeOK
  <2>5. SettlesClosed'
    BY <1>0, <1>10 DEF Dial, SettlesClosed, TypeOK
  <2> QED
    BY <2>1, <2>2, <2>3, <2>4, <2>5 DEF CallbackInv
<1>11. ASSUME NEW c \in Conns, AppCloses(c)
      PROVE  CallbackInv'
  <2>1. AppOwns'
    BY <1>0, <1>11 DEF AppCloses, AppOwns
  <2>2. ConnectedFirst'
    BY <1>0, <1>11 DEF AppCloses, ConnectedFirst
  <2>3. Notified'
    BY <1>0, <1>11 DEF AppCloses, Notified
  <2>4. DisconnectAnswers'
    BY <1>0, <1>11 DEF AppCloses, DisconnectAnswers
  <2>5. SettlesClosed'
    BY <1>0, <1>11 DEF AppCloses, SettlesClosed, AppOwns
  <2> QED
    BY <2>1, <2>2, <2>3, <2>4, <2>5 DEF CallbackInv
<1>12. CASE AppClose
  <2> DEFINE c == app.conn
  <2>0. /\ c \in Conns /\ c \in appClosed /\ Registered(c) /\ app.pc \in ClosePCs
        /\ app \in [pc : ClosePCs \cup {"idle"}, conn : Conns \cup {NoConn}]
    BY <1>0, <1>12 DEF AppClose, AppInv, AppOwns, TypeOK, ClosePCs
  <2>1. CASE app.pc = "close"
    <3>1. /\ UNCHANGED <<pc, state, disconnects, connects, appClosed, writeFailed>>
          /\ \/ state[c] = "Closed" /\ app' = [pc |-> "idle", conn |-> NoConn]
             \/ app' = [pc |-> "mark", conn |-> c]
      BY <1>12, <2>1 DEF AppClose, CloseEffect, AfterClose
    <3> QED
      BY <1>0, <2>0, <2>1, <3>1 DEF CallbackInv, AppOwns, ConnectedFirst, Notified,
         DisconnectAnswers, SettlesClosed
  <2>2. CASE app.pc = "mark"
    <3>1. /\ UNCHANGED <<pc, disconnects, connects, appClosed, writeFailed>>
          /\ state' = [state EXCEPT ![c] = "Closing"]
          /\ app' = [pc |-> "remove", conn |-> c]
      BY <1>12, <2>2 DEF AppClose, CloseEffect, AfterClose, FollowingClose
    <3> QED
      BY <1>0, <2>0, <2>2, <3>1 DEF CallbackInv, AppOwns, ConnectedFirst, Notified,
         DisconnectAnswers, SettlesClosed, TypeOK
  <2>3. CASE app.pc = "remove"
    <3>1. /\ UNCHANGED <<pc, state, disconnects, connects, appClosed, writeFailed>>
          /\ app' = [pc |-> "notify", conn |-> c]
      BY <1>12, <2>3 DEF AppClose, CloseEffect, AfterClose, FollowingClose
    <3> QED
      BY <1>0, <2>0, <2>3, <3>1 DEF CallbackInv, AppOwns, ConnectedFirst, Notified,
         DisconnectAnswers, SettlesClosed
  <2>4. CASE app.pc = "notify"
    <3>1. /\ UNCHANGED <<pc, state, connects, appClosed, writeFailed>>
          /\ disconnects' = [disconnects EXCEPT ![c] = @ + 1]
          /\ app' = [pc |-> "shut", conn |-> c]
      BY <1>12, <2>4 DEF AppClose, CloseEffect, AfterClose, FollowingClose
    <3>2. \A d \in Conns : disconnects[d] \in Nat
      BY <1>0 DEF TypeOK
    <3>3. /\ disconnects'[c] = disconnects[c] + 1
          /\ \A d \in Conns \ {c} : disconnects'[d] = disconnects[d]
      BY <1>0, <2>0, <3>1 DEF TypeOK
    <3> QED
      BY <1>0, <2>0, <2>4, <3>1, <3>2, <3>3 DEF CallbackInv, AppOwns, ConnectedFirst, Notified,
         DisconnectAnswers, SettlesClosed
  <2>5. CASE app.pc = "shut"
    <3>1. /\ UNCHANGED <<pc, state, disconnects, connects, appClosed, writeFailed>>
          /\ app' = [pc |-> "closed", conn |-> c]
      BY <1>12, <2>5 DEF AppClose, CloseEffect, AfterClose, FollowingClose
    <3> QED
      BY <1>0, <2>0, <2>5, <3>1 DEF CallbackInv, AppOwns, ConnectedFirst, Notified,
         DisconnectAnswers, SettlesClosed
  <2>6. CASE app.pc = "closed"
    <3>1. /\ UNCHANGED <<pc, disconnects, connects, appClosed, writeFailed>>
          /\ state' = [state EXCEPT ![c] = "Closed"]
          /\ app' = [pc |-> "idle", conn |-> NoConn]
      BY <1>12, <2>6 DEF AppClose, CloseEffect, AfterClose
    <3> QED
      BY <1>0, <2>0, <2>6, <3>1 DEF CallbackInv, AppOwns, ConnectedFirst, Notified,
         DisconnectAnswers, SettlesClosed, TypeOK
  <2> QED
    BY <2>0, <2>1, <2>2, <2>3, <2>4, <2>5, <2>6 DEF ClosePCs
<1>13. ASSUME NEW c \in Conns, HandlerClose(c)
      PROVE  CallbackInv'
  <2>0. pc[c] \in ClosePCs /\ UNCHANGED <<app, connects, appClosed, writeFailed>>
    BY <1>13 DEF HandlerClose
  <2>1. CASE pc[c] = "close"
    <3>1. /\ UNCHANGED <<state, disconnects>>
          /\ \/ state[c] = "Closed" /\ pc' = [pc EXCEPT ![c] = "done"]
             \/ pc' = [pc EXCEPT ![c] = "mark"]
      BY <1>13, <2>1 DEF HandlerClose, CloseEffect, AfterClose
    <3> QED
      BY <1>0, <2>0, <2>1, <3>1 DEF CallbackInv, AppOwns, ConnectedFirst, Notified,
         DisconnectAnswers, SettlesClosed, TypeOK
  <2>2. CASE pc[c] = "mark"
    <3>1. /\ UNCHANGED disconnects
          /\ state' = [state EXCEPT ![c] = "Closing"]
          /\ pc' = [pc EXCEPT ![c] = "remove"]
      BY <1>13, <2>2 DEF HandlerClose, CloseEffect, AfterClose, FollowingClose
    <3> QED
      BY <1>0, <2>0, <2>2, <3>1 DEF CallbackInv, AppOwns, ConnectedFirst, Notified,
         DisconnectAnswers, SettlesClosed, TypeOK
  <2>3. CASE pc[c] = "remove"
    <3>1. /\ UNCHANGED <<state, disconnects>>
          /\ pc' = [pc EXCEPT ![c] = "notify"]
      BY <1>13, <2>3 DEF HandlerClose, CloseEffect, AfterClose, FollowingClose
    <3> QED
      BY <1>0, <2>0, <2>3, <3>1 DEF CallbackInv, AppOwns, ConnectedFirst, Notified,
         DisconnectAnswers, SettlesClosed, TypeOK
  <2>4. CASE pc[c] = "notify"
    <3>1. /\ UNCHANGED state
          /\ disconnects' = [disconnects EXCEPT ![c] = @ + 1]
          /\ pc' = [pc EXCEPT ![c] = "shut"]
      BY <1>13, <2>4 DEF HandlerClose, CloseEffect, AfterClose, FollowingClose
    <3>2. \A d \in Conns : disconnects[d] \in Nat
      BY <1>0 DEF TypeOK
    <3>3. /\ disconnects'[c] = disconnects[c] + 1
          /\ \A d \in Conns \ {c} : disconnects'[d] = disconnects[d]
      BY <1>0, <3>1 DEF TypeOK
    <3>4. /\ pc'[c] = "shut"
          /\ \A d \in Conns \ {c} : pc'[d] = pc[d]
      BY <1>0, <3>1 DEF TypeOK
    <3>5. AppOwns' /\ ConnectedFirst' /\ SettlesClosed'
      BY <1>0, <2>0, <2>4, <3>1, <3>4 DEF AppOwns, ConnectedFirst, SettlesClosed, TypeOK
    <3>6. Notified'
      BY <1>0, <2>0, <3>1, <3>2, <3>3, <3>4 DEF Notified
    <3>7. DisconnectAnswers'
      BY <1>0, <2>0, <2>4, <3>2, <3>3, <3>4 DEF DisconnectAnswers
    <3> QED
      BY <3>5, <3>6, <3>7 DEF CallbackInv
  <2>5. CASE pc[c] = "shut"
    <3>1. /\ UNCHANGED <<state, disconnects>>
          /\ pc' = [pc EXCEPT ![c] = "closed"]
      BY <1>13, <2>5 DEF HandlerClose, CloseEffect, AfterClose, FollowingClose
    <3> QED
      BY <1>0, <2>0, <2>5, <3>1 DEF CallbackInv, AppOwns, ConnectedFirst, Notified,
         DisconnectAnswers, SettlesClosed, TypeOK
  <2>6. CASE pc[c] = "closed"
    <3>1. /\ UNCHANGED disconnects
          /\ state' = [state EXCEPT ![c] = "Closed"]
          /\ pc' = [pc EXCEPT ![c] = "done"]
      BY <1>13, <2>6 DEF HandlerClose, CloseEffect, AfterClose
    <3> QED
      BY <1>0, <2>0, <2>6, <3>1 DEF CallbackInv, AppOwns, ConnectedFirst, Notified,
         DisconnectAnswers, SettlesClosed, TypeOK
  <2> QED
    BY <2>0, <2>1, <2>2, <2>3, <2>4, <2>5, <2>6 DEF ClosePCs
<1>14. ASSUME NEW c \in Conns, Register(c)
      PROVE  CallbackInv'
  <2>1. AppOwns'
    BY <1>0, <1>14 DEF Register, HandlerKeeps, AppOwns, TypeOK
  <2>2. ConnectedFirst'
    BY <1>0, <1>14 DEF Register, HandlerKeeps, ConnectedFirst, TypeOK
  <2>3. Notified'
    BY <1>0, <1>14 DEF Register, HandlerKeeps, Notified, TypeOK
  <2>4. DisconnectAnswers'
    BY <1>0, <1>14 DEF Register, HandlerKeeps, DisconnectAnswers, TypeOK
  <2>5. SettlesClosed'
    BY <1>0, <1>14 DEF Register, HandlerKeeps, SettlesClosed, TypeOK
  <2> QED
    BY <2>1, <2>2, <2>3, <2>4, <2>5 DEF CallbackInv
<1>15. ASSUME NEW c \in Conns, SetUp(c)
      PROVE  CallbackInv'
  <2>1. AppOwns'
    BY <1>0, <1>15 DEF SetUp, HandlerKeeps, AppOwns, TypeOK
  <2>2. ConnectedFirst'
    BY <1>0, <1>15 DEF SetUp, HandlerKeeps, ConnectedFirst, TypeOK
  <2>3. Notified'
    BY <1>0, <1>15 DEF SetUp, HandlerKeeps, Notified, TypeOK
  <2>4. DisconnectAnswers'
    BY <1>0, <1>15 DEF SetUp, HandlerKeeps, DisconnectAnswers, TypeOK, ConnectedFirst
  <2>5. SettlesClosed'
    BY <1>0, <1>15 DEF SetUp, HandlerKeeps, SettlesClosed, TypeOK, ConnectedFirst
  <2> QED
    BY <2>1, <2>2, <2>3, <2>4, <2>5 DEF CallbackInv
<1>16. ASSUME NEW c \in Conns, OnConnect(c)
      PROVE  CallbackInv'
  <2>1. AppOwns'
    BY <1>0, <1>16 DEF OnConnect, HandlerKeeps, AppOwns, TypeOK
  <2>2. ConnectedFirst'
    BY <1>0, <1>16 DEF OnConnect, HandlerKeeps, ConnectedFirst, TypeOK
  <2>3. Notified'
    BY <1>0, <1>16 DEF OnConnect, HandlerKeeps, Notified, TypeOK
  <2>4. DisconnectAnswers'
    BY <1>0, <1>16 DEF OnConnect, HandlerKeeps, DisconnectAnswers, TypeOK
  <2>5. SettlesClosed'
    BY <1>0, <1>16 DEF OnConnect, HandlerKeeps, SettlesClosed, TypeOK
  <2> QED
    BY <2>1, <2>2, <2>3, <2>4, <2>5 DEF CallbackInv
<1>17. ASSUME NEW c \in Conns, StartHandshake(c)
      PROVE  CallbackInv'
  <2>1. AppOwns'
    BY <1>0, <1>17 DEF StartHandshake, HandlerKeeps, AppOwns, TypeOK
  <2>2. ConnectedFirst'
    BY <1>0, <1>17 DEF StartHandshake, HandlerKeeps, ConnectedFirst, TypeOK
  <2>3. Notified'
    BY <1>0, <1>17 DEF StartHandshake, HandlerKeeps, Notified, TypeOK
  <2>4. DisconnectAnswers'
    BY <1>0, <1>17 DEF StartHandshake, HandlerKeeps, DisconnectAnswers, TypeOK
  <2>5. SettlesClosed'
    BY <1>0, <1>17 DEF StartHandshake, HandlerKeeps, SettlesClosed, TypeOK
  <2> QED
    BY <2>1, <2>2, <2>3, <2>4, <2>5 DEF CallbackInv
<1>18. ASSUME NEW c \in Conns, HandshakeOK(c)
      PROVE  CallbackInv'
  <2>1. AppOwns'
    BY <1>0, <1>18 DEF HandshakeOK, HandlerKeeps, AppOwns, TypeOK
  <2>2. ConnectedFirst'
    BY <1>0, <1>18 DEF HandshakeOK, HandlerKeeps, ConnectedFirst, TypeOK
  <2>3. Notified'
    BY <1>0, <1>18 DEF HandshakeOK, HandlerKeeps, Notified, TypeOK
  <2>4. DisconnectAnswers'
    BY <1>0, <1>18 DEF HandshakeOK, HandlerKeeps, DisconnectAnswers, TypeOK
  <2>5. SettlesClosed'
    BY <1>0, <1>18 DEF HandshakeOK, HandlerKeeps, SettlesClosed, TypeOK
  <2> QED
    BY <2>1, <2>2, <2>3, <2>4, <2>5 DEF CallbackInv
<1>19. ASSUME NEW c \in Conns, HandshakeFails(c)
      PROVE  CallbackInv'
  <2>1. AppOwns'
    BY <1>0, <1>19 DEF HandshakeFails, HandlerKeeps, AppOwns, TypeOK
  <2>2. ConnectedFirst'
    BY <1>0, <1>19 DEF HandshakeFails, HandlerKeeps, ConnectedFirst, TypeOK
  <2>3. Notified'
    BY <1>0, <1>19 DEF HandshakeFails, HandlerKeeps, Notified, TypeOK
  <2>4. DisconnectAnswers'
    BY <1>0, <1>19 DEF HandshakeFails, HandlerKeeps, DisconnectAnswers, TypeOK
  <2>5. SettlesClosed'
    BY <1>0, <1>19 DEF HandshakeFails, HandlerKeeps, SettlesClosed, TypeOK
  <2> QED
    BY <2>1, <2>2, <2>3, <2>4, <2>5 DEF CallbackInv
<1>20. ASSUME NEW c \in Conns, NextMessage(c)
      PROVE  CallbackInv'
  <2>1. AppOwns'
    BY <1>0, <1>20 DEF NextMessage, HandlerKeeps, AppOwns, TypeOK
  <2>2. ConnectedFirst'
    BY <1>0, <1>20 DEF NextMessage, HandlerKeeps, ConnectedFirst, TypeOK
  <2>3. Notified'
    BY <1>0, <1>20 DEF NextMessage, HandlerKeeps, Notified, TypeOK
  <2>4. DisconnectAnswers'
    BY <1>0, <1>20 DEF NextMessage, HandlerKeeps, DisconnectAnswers, TypeOK
  <2>5. SettlesClosed'
    BY <1>0, <1>20 DEF NextMessage, HandlerKeeps, SettlesClosed, TypeOK
  <2> QED
    BY <2>1, <2>2, <2>3, <2>4, <2>5 DEF CallbackInv
<1>21. ASSUME NEW c \in Conns, OnMessage(c)
      PROVE  CallbackInv'
  <2>1. AppOwns'
    BY <1>0, <1>21 DEF OnMessage, HandlerKeeps, AppOwns, TypeOK
  <2>2. ConnectedFirst'
    BY <1>0, <1>21 DEF OnMessage, HandlerKeeps, ConnectedFirst, TypeOK
  <2>3. Notified'
    BY <1>0, <1>21 DEF OnMessage, HandlerKeeps, Notified, TypeOK
  <2>4. DisconnectAnswers'
    BY <1>0, <1>21 DEF OnMessage, HandlerKeeps, DisconnectAnswers, TypeOK
  <2>5. SettlesClosed'
    BY <1>0, <1>21 DEF OnMessage, HandlerKeeps, SettlesClosed, TypeOK
  <2> QED
    BY <2>1, <2>2, <2>3, <2>4, <2>5 DEF CallbackInv
<1>22. ASSUME NEW c \in Conns, ReadFails(c)
      PROVE  CallbackInv'
  <2>1. AppOwns'
    BY <1>0, <1>22 DEF ReadFails, HandlerKeeps, AppOwns, TypeOK
  <2>2. ConnectedFirst'
    BY <1>0, <1>22 DEF ReadFails, HandlerKeeps, ConnectedFirst, TypeOK
  <2>3. Notified'
    BY <1>0, <1>22 DEF ReadFails, HandlerKeeps, Notified, TypeOK
  <2>4. DisconnectAnswers'
    BY <1>0, <1>22 DEF ReadFails, HandlerKeeps, DisconnectAnswers, TypeOK
  <2>5. SettlesClosed'
    BY <1>0, <1>22 DEF ReadFails, HandlerKeeps, SettlesClosed, TypeOK
  <2> QED
    BY <2>1, <2>2, <2>3, <2>4, <2>5 DEF CallbackInv
<1>23. ASSUME NEW c \in Conns, HandshakeEnds(c)
      PROVE  CallbackInv'
  <2>1. AppOwns'
    BY <1>0, <1>23 DEF HandshakeEnds, HandlerKeeps, AppOwns
  <2>2. ConnectedFirst'
    BY <1>0, <1>23 DEF HandshakeEnds, HandlerKeeps, ConnectedFirst
  <2>3. Notified'
    BY <1>0, <1>23 DEF HandshakeEnds, HandlerKeeps, Notified
  <2>4. DisconnectAnswers'
    BY <1>0, <1>23 DEF HandshakeEnds, HandlerKeeps, DisconnectAnswers
  <2>5. SettlesClosed'
    BY <1>0, <1>23 DEF HandshakeEnds, HandlerKeeps, SettlesClosed
  <2> QED
    BY <2>1, <2>2, <2>3, <2>4, <2>5 DEF CallbackInv
<1>24. ASSUME NEW c \in Conns, ReadOK(c)
      PROVE  CallbackInv'
  <2>1. AppOwns'
    BY <1>0, <1>24 DEF ReadOK, HandlerKeeps, AppOwns, TypeOK
  <2>2. ConnectedFirst'
    BY <1>0, <1>24 DEF ReadOK, HandlerKeeps, ConnectedFirst, TypeOK
  <2>3. Notified'
    BY <1>0, <1>24 DEF ReadOK, HandlerKeeps, Notified, TypeOK
  <2>4. DisconnectAnswers'
    BY <1>0, <1>24 DEF ReadOK, HandlerKeeps, DisconnectAnswers, TypeOK
  <2>5. SettlesClosed'
    BY <1>0, <1>24 DEF ReadOK, HandlerKeeps, SettlesClosed, TypeOK
  <2> QED
    BY <2>1, <2>2, <2>3, <2>4, <2>5 DEF CallbackInv
<1>25. ASSUME NEW c \in Conns, WriteMessage(c)
      PROVE  CallbackInv'
  <2>1. AppOwns'
    BY <1>0, <1>25 DEF WriteMessage, AppOwns
  <2>2. ConnectedFirst'
    BY <1>0, <1>25 DEF WriteMessage, ConnectedFirst
  <2>3. Notified'
    BY <1>0, <1>25 DEF WriteMessage, Notified
  <2>4. DisconnectAnswers'
    BY <1>0, <1>25 DEF WriteMessage, DisconnectAnswers
  <2>5. SettlesClosed'
    BY <1>0, <1>25 DEF WriteMessage, SettlesClosed
  <2> QED
    BY <2>1, <2>2, <2>3, <2>4, <2>5 DEF CallbackInv
<1>26. ASSUME NEW c \in Conns, WriteReturns(c)
      PROVE  CallbackInv'
  <2>1. AppOwns'
    BY <1>0, <1>26 DEF WriteReturns, AppOwns, TypeOK
  <2>2. ConnectedFirst'
    BY <1>0, <1>26 DEF WriteReturns, ConnectedFirst, TypeOK
  <2>3. Notified'
    BY <1>0, <1>26 DEF WriteReturns, Notified, TypeOK
  <2>4. DisconnectAnswers'
    BY <1>0, <1>26 DEF WriteReturns, DisconnectAnswers, TypeOK
  <2>5. SettlesClosed'
    BY <1>0, <1>26 DEF WriteReturns, SettlesClosed, TypeOK
  <2> QED
    BY <2>1, <2>2, <2>3, <2>4, <2>5 DEF CallbackInv
<1>27. CASE UNCHANGED vars
  BY <1>0, <1>27 DEF vars, serverVars, connVars, CallbackInv, AppOwns, ConnectedFirst,
     Notified, DisconnectAnswers, SettlesClosed
<1> QED
  BY <1>1, <1>2, <1>3, <1>4, <1>5, <1>6, <1>7, <1>8, <1>9, <1>10, <1>11,
     <1>12, <1>13, <1>14, <1>15, <1>16, <1>17, <1>18, <1>19, <1>20, <1>21,
     <1>22, <1>23, <1>24, <1>25, <1>26, <1>27
  DEF Next, Handler, AcceptLoop

----------------------------------------------------------------------------
(* A socket is read by its handshake goroutine or by its handler.          *)

\* The steps of a handler before its handshake goroutine is there, and those in
\* which it reads messages.
Before == {"idle", "backlog", "accepted", "rejected", "register", "deadline", "connect", "start"}
Reading == {"loop", "read", "account"}

\* A goroutine that has not ended has sent no answer; there is none before the
\* handshake; and when messages are read, OnConnect has been called and the
\* goroutine has ended.
HandshakeInv ==
  \A c \in Conns :
    /\ handshakeDone[c] # "empty" => handshake[c] = "done"
    /\ pc[c] \in Before => handshake[c] = "none"
    /\ pc[c] \in {"start", "wait"} \cup Reading => c \in connects
    /\ pc[c] \in Reading => handshake[c] = "done"

\* No step lets a handler read while the goroutine runs: the handler goes to its
\* loop with an answer in hand, and the goroutine does nothing after it.
LEMMA HandshakeStep == TypeOK /\ LoopInv /\ HandshakeInv /\ [Next]_vars => HandshakeInv'
<1> SUFFICES ASSUME TypeOK, LoopInv, HandshakeInv, [Next]_vars
             PROVE  HandshakeInv'
  OBVIOUS
<1> USE DEF GoTo, HandshakeInv, Before, Reading
<1>1. CASE UNCHANGED <<pc, handshake, handshakeDone, connects>>
  BY <1>1
<1>2. CASE Start \/ Stop \/ StopListener \/ StopClients \/ AppClose
  BY <1>1, <1>2 DEF Start, Stop, StopListener, StopClients, AppClose, connVars
<1>3. ASSUME NEW l \in Starts, AcceptLoop(l)
      PROVE  HandshakeInv'
  <2>1. CASE AcceptCheck(l) \/ AcceptCall(l) \/ AcceptError(l)
    BY <1>1, <2>1 DEF AcceptCheck, AcceptCall, AcceptError, connVars
  <2>2. CASE AcceptConn(l)
    BY <2>2 DEF AcceptConn, TypeOK
  <2>3. CASE AcceptLimit(l)
    BY <2>3 DEF AcceptLimit, TypeOK, LoopInv
  <2> QED
    BY <1>3, <2>1, <2>2, <2>3 DEF AcceptLoop
<1>4. ASSUME NEW c \in Conns, Dial(c) \/ Register(c) \/ SetUp(c) \/ OnConnect(c)
      PROVE  HandshakeInv'
  <2>1. CASE Dial(c)
    BY <2>1 DEF Dial, TypeOK
  <2>2. CASE Register(c)
    BY <2>2 DEF Register, HandlerKeeps, TypeOK
  <2>3. CASE SetUp(c)
    BY <2>3 DEF SetUp, HandlerKeeps, TypeOK
  <2>4. CASE OnConnect(c)
    BY <2>4 DEF OnConnect, HandlerKeeps, TypeOK
  <2> QED
    BY <1>4, <2>1, <2>2, <2>3, <2>4
<1>5. ASSUME NEW c \in Conns, StartHandshake(c)
      PROVE  HandshakeInv'
  BY <1>5 DEF StartHandshake, HandlerKeeps, TypeOK
<1>6. ASSUME NEW c \in Conns, HandshakeEnds(c)
      PROVE  HandshakeInv'
  BY <1>6 DEF HandshakeEnds, HandlerKeeps, TypeOK
<1>7. ASSUME NEW c \in Conns, HandshakeOK(c)
      PROVE  HandshakeInv'
  BY <1>7 DEF HandshakeOK, HandlerKeeps, TypeOK
<1>8. ASSUME NEW c \in Conns, HandshakeFails(c)
      PROVE  HandshakeInv'
  BY <1>8 DEF HandshakeFails, HandlerKeeps, TypeOK
<1>9. ASSUME NEW c \in Conns, NextMessage(c) \/ ReadOK(c) \/ OnMessage(c) \/ ReadFails(c)
      PROVE  HandshakeInv'
  <2>1. CASE NextMessage(c)
    BY <2>1 DEF NextMessage, HandlerKeeps, TypeOK
  <2>2. CASE ReadOK(c)
    BY <2>2 DEF ReadOK, HandlerKeeps, TypeOK
  <2>3. CASE OnMessage(c)
    BY <2>3 DEF OnMessage, HandlerKeeps, TypeOK
  <2>4. CASE ReadFails(c)
    BY <2>4 DEF ReadFails, HandlerKeeps, TypeOK
  <2> QED
    BY <1>9, <2>1, <2>2, <2>3, <2>4
<1>10. ASSUME NEW c \in Conns, HandlerClose(c)
       PROVE  HandshakeInv'
  <2>1. pc[c] \in ClosePCs /\ AfterClose(c, pc[c], "done") \in ClosePCs \cup {"done"}
    BY <1>10, AfterCloseType DEF HandlerClose
  <2> QED
    BY <1>10, <2>1 DEF HandlerClose, ClosePCs, TypeOK
<1>11. ASSUME NEW c \in Conns, AppCloses(c) \/ WriteMessage(c) \/ WriteReturns(c)
       PROVE  HandshakeInv'
  BY <1>1, <1>11 DEF AppCloses, WriteMessage, WriteReturns
<1>12. CASE UNCHANGED vars
  BY <1>1, <1>12 DEF vars, connVars
<1> QED
  BY <1>2, <1>3, <1>4, <1>5, <1>6, <1>7, <1>8, <1>9, <1>10, <1>11, <1>12 DEF Next, Handler

----------------------------------------------------------------------------
(* The theorems.                                                           *)

\* A server that runs and was never stopped has an accept loop that goes on:
\* only a failing close of a refused connection ends it (acceptLoop).
THEOREM AcceptsForever == Spec => []AcceptsUntilStopped
<1>1. Init => HasListener /\ AcceptsUntilStopped
  BY DEF Init, HasListener, AcceptsUntilStopped
<1>2. ServerInv => TypeOK
  BY DEF ServerInv
<1> QED
  BY <1>1, <1>2, AcceptsStep, ServerInvariant, PTL DEF Spec

\* One goroutine at a time reads a connection's socket: its handshake's, and when
\* that has ended, however the select was decided (server.go:529-537), its handler.
THEOREM HandshakeBeforeMessages == Spec => []HandshakeInv
<1>1. Init => HandshakeInv
  BY DEF Init, HandshakeInv, Before, Reading
<1>2. ServerInv => TypeOK /\ LoopInv
  BY DEF ServerInv
<1> QED
  BY <1>1, <1>2, HandshakeStep, ServerInvariant, PTL DEF Spec

\* The invariant of the callbacks and of the last state holds in every state.
THEOREM CallbackInvariant == Spec => []CallbackInv
  BY CallbackInit, CallbackStep, ServerInvariant, PTL DEF Spec

\* Every OnConnect is answered by OnDisconnect; unless the application calls
\* Close itself, once, and no message follows; and no message comes before
\* OnConnect, or while the handshake goroutine reads the socket.
THEOREM CallbacksPair == Spec => []CallbacksPaired
<1>1. CallbackInv /\ HandshakeInv => CallbacksPaired
  BY DEF CallbackInv, HandshakeInv, Reading, CallbacksPaired, MessagesAfterHandshake
<1> QED
  BY <1>1, CallbackInvariant, HandshakeBeforeMessages, PTL

\* The handler, the application and failing writes may change the state in any
\* order: a connection that is over is Closed, or Error by a write that failed.
THEOREM LastStateClosed == Spec => []SettlesClosed
<1>1. CallbackInv => SettlesClosed
  BY DEF CallbackInv
<1> QED
  BY <1>1, CallbackInvariant, PTL

=============================================================================
