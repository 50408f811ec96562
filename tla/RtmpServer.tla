----------------------------- MODULE RtmpServer -----------------------------
(***************************************************************************)
(* The life of connections in Server: the goroutines of acceptLoop, of     *)
(* handleConnection and of the handshake, an operator that starts and      *)
(* stops the server, and an application goroutine that closes connections  *)
(* it finds with GetConnections or was given by OnConnect.                 *)
(*                                                                         *)
(* A step is what happens between two points where another goroutine can   *)
(* tell the difference.  A section under clientsMux is one step, unless it *)
(* returns with the mutex locked.                                          *)
(***************************************************************************)
EXTENDS Integers, FiniteSets

CONSTANTS
  Conns,            \* the connections peers may open
  NoConn,           \* none of them
  MaxConnections,   \* config.MaxConnections; 0 for a negative one, no limit
  MaxStarts,        \* bound on the calls of Start that succeed
  MaxAppCloses,     \* bound on the application's calls of Close
  WrittenTo         \* the connections the application writes to

ASSUME ServerAssumption ==
  /\ NoConn \notin Conns
  /\ MaxConnections \in Nat
  /\ MaxStarts \in Nat \ {0}
  /\ MaxAppCloses \in Nat
  /\ WrittenTo \subseteq Conns

Starts == 1 .. MaxStarts

VARIABLES
  running,        \* s.running
  ctxDone,        \* s.ctx is cancelled; NewServer makes it once
  listener,       \* which Listen made s.listener; 0 is nil
  listening,      \* that listener is open
  loops,          \* the acceptLoop goroutine of each Start
  stopping,       \* what Stop, which holds runMux, does next; "idle" if none
  stopped,        \* the last call of Start or Stop was a Stop that returned nil
  clients,        \* the keys of s.clients
  clientsMux      \* "free", or "leaked" once Stop has returned holding it

serverVars ==
  <<running, ctxDone, listener, listening, loops, stopping, stopped, clients,
    clientsMux>>

VARIABLES
  pc,             \* where the connection's handler is
  socket,         \* "open" or "closed" at this end
  state,          \* sc.state
  handshake,      \* its handshake goroutine: "none", "run" or "done"
  handshakeDone,  \* the buffered channel: "empty", "ok" or "err"
  chunkSizeOK,    \* config.ChunkSize is one SetRead/WriteChunkSize accept
  app,            \* the application goroutine: where it is, on which connection
  connects,       \* the connections OnConnect was called for
  disconnects,    \* how often OnDisconnect was called
  appClosed,      \* the connections the application has called Close on
  closeFailed,    \* a Close of the operating system has returned an error
  writing,        \* connections in WriteMessage, past its test of the state
  writeFailed     \* connections on which a WriteMessage has failed

connVars ==
  <<pc, socket, state, handshake, handshakeDone, chunkSizeOK, app, connects,
    disconnects, appClosed, closeFailed, writing, writeFailed>>

vars == <<serverVars, connVars>>

\* The steps of ServerConnection.Close, for whichever goroutine runs it.
ClosePCs == {"close", "mark", "remove", "notify", "shut", "closed"}

\* A handler: not connected, in the backlog of the listener, accepted (its
\* goroutine exists from "register" to "done"), or turned away by acceptLoop.
HandlerPCs ==
  {"idle", "backlog", "accepted", "rejected", "register", "deadline", "connect",
   "start", "wait", "loop", "read", "account", "done"} \cup ClosePCs

Live(c) == pc[c] \notin {"idle", "backlog", "accepted", "rejected", "done"}

Init ==
  /\ running = FALSE
  /\ ctxDone = FALSE
  /\ listener = 0
  /\ listening = FALSE
  /\ loops = [l \in Starts |-> [pc |-> "none", on |-> 0, conn |-> NoConn]]
  /\ stopping = "idle"
  /\ stopped = FALSE
  /\ clients = {}
  /\ clientsMux = "free"
  /\ pc = [c \in Conns |-> "idle"]
  /\ socket = [c \in Conns |-> "closed"]
  /\ state = [c \in Conns |-> "Connected"]
  /\ handshake = [c \in Conns |-> "none"]
  /\ handshakeDone = [c \in Conns |-> "empty"]
  /\ chunkSizeOK \in BOOLEAN
  /\ app = [pc |-> "idle", conn |-> NoConn]
  /\ connects = {}
  /\ disconnects = [c \in Conns |-> 0]
  /\ appClosed = {}
  /\ closeFailed = FALSE
  /\ writing = {}
  /\ writeFailed = {}

LoopAt(l, where, on, c) ==
  loops' = [loops EXCEPT ![l] = [pc |-> where, on |-> on, conn |-> c]]
GoTo(c, where) == pc' = [pc EXCEPT ![c] = where]
Become(c, st) == state' = [state EXCEPT ![c] = st]

----------------------------------------------------------------------------
(* Start and Stop, under runMux.                                           *)

Start ==
  /\ stopping = "idle"
  /\ ~running
  /\ listener < MaxStarts
  /\ running' = TRUE
  /\ listener' = listener + 1
  /\ listening' = TRUE
  /\ LoopAt(listener + 1, "check", 0, NoConn)
  /\ stopped' = FALSE
  /\ UNCHANGED <<ctxDone, stopping, clients, clientsMux, connVars>>

Stop ==
  /\ stopping = "idle"
  /\ running
  /\ running' = FALSE
  /\ ctxDone' = TRUE
  /\ stopping' = "listener"
  /\ UNCHANGED <<listener, listening, loops, stopped, clients, clientsMux,
                 connVars>>

\* Mutant: the listener is forgotten, not closed.
StopForgetsListener ==
  /\ stopping = "listener"
  /\ stopping' = "clients"
  /\ UNCHANGED <<running, ctxDone, listener, listening, loops, stopped,
                 clients, clientsMux, connVars>>

\* What waits in the listener's backlog is reset with it.
StopListener ==
  /\ stopping = "listener"
  /\ listening' = FALSE
  /\ pc' = [c \in Conns |-> IF pc[c] = "backlog" THEN "idle" ELSE pc[c]]
  /\ \/ stopping' = "clients" /\ UNCHANGED closeFailed
     \/ stopping' = "idle" /\ closeFailed' = TRUE
  /\ UNCHANGED <<running, ctxDone, listener, loops, stopped, clients,
                 clientsMux, socket, state, handshake, handshakeDone,
                 chunkSizeOK, app, connects, disconnects, appClosed, writing,
                 writeFailed>>

\* Closes the registered connections; a first error ends Stop at once, with
\* the mutex locked and the map as it was.
StopClients ==
  /\ stopping = "clients"
  /\ clientsMux = "free"
  /\ stopping' = "idle"
  /\ \/ /\ socket' = [c \in Conns |-> IF c \in clients THEN "closed" ELSE socket[c]]
        /\ clients' = {}
        /\ stopped' = TRUE
        /\ UNCHANGED <<clientsMux, closeFailed>>
     \/ \E some \in SUBSET clients \ {{}} :
          /\ socket' = [c \in Conns |-> IF c \in some THEN "closed" ELSE socket[c]]
          /\ clientsMux' = "leaked"
          /\ closeFailed' = TRUE
          /\ UNCHANGED <<clients, stopped>>
  /\ UNCHANGED <<running, ctxDone, listener, listening, loops, pc, state,
                 handshake, handshakeDone, chunkSizeOK, app, connects,
                 disconnects, appClosed, writing, writeFailed>>

----------------------------------------------------------------------------
(* acceptLoop, once per Start.                                             *)

\* A peer's SYN, answered by the operating system.
Dial(c) ==
  /\ pc[c] = "idle"
  /\ listening
  /\ GoTo(c, "backlog")
  /\ UNCHANGED <<serverVars, socket, state, handshake, handshakeDone,
                 chunkSizeOK, app, connects, disconnects, appClosed,
                 closeFailed, writing, writeFailed>>

AcceptCheck(l) ==
  /\ loops[l].pc = "check"
  /\ LoopAt(l, IF ctxDone THEN "done" ELSE "read", 0, NoConn)
  /\ UNCHANGED <<running, ctxDone, listener, listening, stopping, stopped,
                 clients, clientsMux, connVars>>

\* s.listener is read afresh each time, with no lock.
AcceptCall(l) ==
  /\ loops[l].pc = "read"
  /\ LoopAt(l, "accept", listener, NoConn)
  /\ UNCHANGED <<running, ctxDone, listener, listening, stopping, stopped,
                 clients, clientsMux, connVars>>

ListenerOpen(l) == listening /\ loops[l].on = listener

AcceptConn(l) ==
  /\ loops[l].pc = "accept"
  /\ ListenerOpen(l)
  /\ \E c \in Conns :
       /\ pc[c] = "backlog"
       /\ GoTo(c, "accepted")
       /\ socket' = [socket EXCEPT ![c] = "open"]
       /\ LoopAt(l, "limit", 0, c)
  /\ UNCHANGED <<running, ctxDone, listener, listening, stopping, stopped,
                 clients, clientsMux, state, handshake, handshakeDone,
                 chunkSizeOK, app, connects, disconnects, appClosed,
                 closeFailed, writing, writeFailed>>

\* Mutant: an error of Accept is logged and the loop goes on with no connection.
AcceptErrorGoesOn(l) ==
  /\ loops[l].pc = "accept"
  /\ LoopAt(l, IF ctxDone THEN "done" ELSE "limit", 0, NoConn)
  /\ UNCHANGED <<running, ctxDone, listener, listening, stopping, stopped,
                 clients, clientsMux, connVars>>

\* Accept fails for good on a closed listener, and may fail on an open one
\* (no file descriptor left); the loop ends or goes round.
AcceptError(l) ==
  /\ loops[l].pc = "accept"
  /\ LoopAt(l, IF ctxDone THEN "done" ELSE "check", 0, NoConn)
  /\ UNCHANGED <<running, ctxDone, listener, listening, stopping, stopped,
                 clients, clientsMux, connVars>>

AtLimit == MaxConnections > 0 /\ Cardinality(clients) >= MaxConnections

\* The count is taken under RLock, and is history when the goroutine starts.
AcceptLimit(l) ==
  LET c == loops[l].conn
  IN  /\ loops[l].pc = "limit"
      /\ clientsMux = "free"
      /\ IF AtLimit
         THEN /\ socket' = [socket EXCEPT ![c] = "closed"]
              /\ GoTo(c, "rejected")
              /\ \/ /\ LoopAt(l, "check", 0, NoConn)
                    /\ UNCHANGED closeFailed
                 \/ /\ LoopAt(l, "done", 0, NoConn)
                    /\ closeFailed' = TRUE
         ELSE /\ GoTo(c, "register")
              /\ LoopAt(l, "check", 0, NoConn)
              /\ UNCHANGED <<socket, closeFailed>>
      /\ UNCHANGED <<running, ctxDone, listener, listening, stopping,
                     stopped, clients, clientsMux, state, handshake,
                     handshakeDone, chunkSizeOK, app, connects, disconnects,
                     appClosed, writing, writeFailed>>

----------------------------------------------------------------------------
(* ServerConnection.Close.  Each step is an effect of its own; the caller  *)
(* says where it goes next.                                                *)

\* Mutant: the entry stays in the map of clients.
CloseKeepsEntry(c, at) ==
  CASE at \in {"mark", "closed"} ->
         /\ Become(c, IF at = "mark" THEN "Closing" ELSE "Closed")
         /\ UNCHANGED <<clients, disconnects, socket>>
    [] at = "notify" ->
         /\ disconnects' = [disconnects EXCEPT ![c] = @ + 1]
         /\ UNCHANGED <<state, clients, socket>>
    [] at = "shut" ->
         /\ socket' = [socket EXCEPT ![c] = "closed"]
         /\ UNCHANGED <<state, clients, disconnects>>
    [] at \in {"close", "remove"} ->
         UNCHANGED <<state, clients, disconnects, socket>>

CloseEffect(c, at) ==
  CASE at = "mark" ->
         /\ Become(c, "Closing")
         /\ UNCHANGED <<clients, disconnects, socket>>
    [] at = "remove" ->
         /\ clientsMux = "free"
         /\ clients' = clients \ {c}
         /\ UNCHANGED <<state, disconnects, socket>>
    [] at = "notify" ->
         /\ disconnects' = [disconnects EXCEPT ![c] = @ + 1]
         /\ UNCHANGED <<state, clients, socket>>
    [] at = "shut" ->
         /\ socket' = [socket EXCEPT ![c] = "closed"]
         /\ UNCHANGED <<state, clients, disconnects>>
    [] at = "closed" ->
         /\ Become(c, "Closed")
         /\ UNCHANGED <<clients, disconnects, socket>>
    [] at = "close" ->
         UNCHANGED <<state, clients, disconnects, socket>>

\* The order of Close, between its test and its return.
FollowingClose ==
  [mark |-> "remove", remove |-> "notify", notify |-> "shut", shut |-> "closed"]

\* Mutants of Close: a connection that met an error is taken for closed, the
\* last assignment is missing.
AfterCloseError(c, at, done) ==
  CASE at = "close" -> IF state[c] \in {"Closed", "Error"} THEN done ELSE "mark"
    [] at = "closed" -> done
    [] OTHER -> FollowingClose[at]

AfterCloseEarly(c, at, done) ==
  CASE at = "close" -> IF state[c] = "Closed" THEN done ELSE "mark"
    [] at = "shut" -> done
    [] OTHER -> FollowingClose[at]

\* "close" is the test for a connection that is Closed already.
AfterClose(c, at, done) ==
  CASE at = "close" -> IF state[c] = "Closed" THEN done ELSE "mark"
    [] at = "closed" -> done
    [] OTHER -> FollowingClose[at]

HandlerClose(c) ==
  /\ pc[c] \in ClosePCs
  /\ CloseEffect(c, pc[c])
  /\ GoTo(c, AfterClose(c, pc[c], "done"))
  /\ UNCHANGED <<running, ctxDone, listener, listening, loops, stopping,
                 stopped, clientsMux, handshake, handshakeDone, chunkSizeOK,
                 app, connects, appClosed, closeFailed, writing, writeFailed>>

\* What OnConnect and GetConnections have given to the application.
Known(c) == c \in connects \/ (c \in clients /\ clientsMux = "free")

AppCloses(c) ==
  /\ app.pc = "idle"
  /\ Known(c)
  /\ c \notin appClosed
  /\ Cardinality(appClosed) < MaxAppCloses
  /\ app' = [pc |-> "close", conn |-> c]
  /\ appClosed' = appClosed \cup {c}
  /\ UNCHANGED <<serverVars, pc, socket, state, handshake, handshakeDone,
                 chunkSizeOK, connects, disconnects, closeFailed, writing,
                 writeFailed>>

AppClose ==
  LET to == AfterClose(app.conn, app.pc, "idle")
  IN  /\ app.pc \in ClosePCs
      /\ CloseEffect(app.conn, app.pc)
      /\ app' = [pc |-> to, conn |-> IF to = "idle" THEN NoConn ELSE app.conn]
      /\ UNCHANGED <<running, ctxDone, listener, listening, loops, stopping,
                     stopped, clientsMux, pc, handshake, handshakeDone,
                     chunkSizeOK, connects, appClosed, closeFailed, writing,
                     writeFailed>>

----------------------------------------------------------------------------
(* handleConnection and start.                                             *)

\* What only the handler and the handshake goroutine change.
HandlerKeeps ==
  UNCHANGED <<running, ctxDone, listener, listening, loops, stopping,
              stopped, clientsMux, chunkSizeOK, app, disconnects, appClosed,
              closeFailed, writing, writeFailed>>

Register(c) ==
  /\ pc[c] = "register"
  /\ clientsMux = "free"
  /\ clients' = clients \cup {c}
  /\ GoTo(c, "deadline")
  /\ HandlerKeeps
  /\ UNCHANGED <<socket, state, handshake, handshakeDone, connects>>

\* Mutant: a refused chunk size is only logged before the handler returns.
SetUpReturns(c) ==
  /\ pc[c] = "deadline"
  /\ GoTo(c, IF socket[c] = "open" /\ chunkSizeOK THEN "connect" ELSE "done")
  /\ HandlerKeeps
  /\ UNCHANGED <<clients, socket, state, handshake, handshakeDone, connects>>

\* Setting a deadline fails on a socket that was closed meanwhile, and then
\* the handler leaves without Close; a chunk size the chunker refuses ends the
\* connection before OnConnect has seen it.
SetUp(c) ==
  /\ pc[c] = "deadline"
  /\ GoTo(c, IF socket[c] = "closed" THEN "done"
             ELSE IF chunkSizeOK THEN "connect" ELSE "close")
  /\ HandlerKeeps
  /\ UNCHANGED <<clients, socket, state, handshake, handshakeDone, connects>>

\* OnConnect accepts the connection or refuses it.
OnConnect(c) ==
  /\ pc[c] = "connect"
  /\ connects' = connects \cup {c}
  /\ \E next \in {"start", "close"} : GoTo(c, next)
  /\ HandlerKeeps
  /\ UNCHANGED <<clients, socket, state, handshake, handshakeDone>>

StartHandshake(c) ==
  /\ pc[c] = "start"
  /\ Become(c, "Handshaking")
  /\ handshake' = [handshake EXCEPT ![c] = "run"]
  /\ GoTo(c, "wait")
  /\ HandlerKeeps
  /\ UNCHANGED <<clients, socket, handshakeDone, connects>>

\* The goroutine ends by sending what DoHandshake returned, into a channel with
\* room for it: an error once the socket is closed, the peer gone or the read
\* deadline over; its success is up to the peer.
HandshakeEnds(c) ==
  /\ handshake[c] = "run"
  /\ handshake' = [handshake EXCEPT ![c] = "done"]
  /\ \/ handshakeDone' = [handshakeDone EXCEPT ![c] = "err"]
     \/ /\ socket[c] = "open"
        /\ handshakeDone' = [handshakeDone EXCEPT ![c] = "ok"]
  /\ HandlerKeeps
  /\ UNCHANGED <<clients, pc, socket, state, connects>>

\* The handler's select takes the answer out of the channel.
HandshakeOK(c) ==
  /\ pc[c] = "wait"
  /\ handshakeDone[c] = "ok"
  /\ handshakeDone' = [handshakeDone EXCEPT ![c] = "empty"]
  /\ Become(c, "Ready")
  /\ GoTo(c, "loop")
  /\ HandlerKeeps
  /\ UNCHANGED <<clients, socket, handshake, connects>>

\* Mutant: the handler of a failed handshake returns without Close.
HandshakeFailsLeaves(c) ==
  /\ pc[c] = "wait"
  /\ \/ /\ handshakeDone[c] = "err"
        /\ handshakeDone' = [handshakeDone EXCEPT ![c] = "empty"]
     \/ UNCHANGED handshakeDone
  /\ Become(c, "Error")
  /\ GoTo(c, "done")
  /\ HandlerKeeps
  /\ UNCHANGED <<clients, socket, handshake, connects>>

\* An error; or the timeout, which may win against any answer.
HandshakeFails(c) ==
  /\ pc[c] = "wait"
  /\ \/ /\ handshakeDone[c] = "err"
        /\ handshakeDone' = [handshakeDone EXCEPT ![c] = "empty"]
     \/ UNCHANGED handshakeDone
  /\ Become(c, "Error")
  /\ GoTo(c, "close")
  /\ HandlerKeeps
  /\ UNCHANGED <<clients, socket, handshake, connects>>

\* The head of the message loop, and ReadMessage's look at the state.
NextMessage(c) ==
  /\ pc[c] = "loop"
  /\ IF ctxDone
     THEN GoTo(c, "close") /\ UNCHANGED state
     ELSE IF state[c] \in {"Closed", "Closing"}
     THEN GoTo(c, "close") /\ Become(c, "Error")
     ELSE GoTo(c, "read") /\ UNCHANGED state
  /\ HandlerKeeps
  /\ UNCHANGED <<clients, socket, handshake, handshakeDone, connects>>

ReadOK(c) ==
  /\ pc[c] = "read"
  /\ socket[c] = "open"
  /\ GoTo(c, "account")
  /\ HandlerKeeps
  /\ UNCHANGED <<clients, socket, state, handshake, handshakeDone, connects>>

\* ReadMessage takes writeLock to count the bytes; then the message is given to
\* OnMessage and processed.
OnMessage(c) ==
  /\ pc[c] = "account"
  /\ c \notin writing
  /\ GoTo(c, "loop")
  /\ HandlerKeeps
  /\ UNCHANGED <<clients, socket, state, handshake, handshakeDone, connects>>

\* Mutant: a failed read is logged and the loop goes on.
ReadRetries(c) ==
  /\ pc[c] = "read"
  /\ GoTo(c, "loop")
  /\ HandlerKeeps
  /\ UNCHANGED <<clients, socket, state, handshake, handshakeDone, connects>>

\* The socket is closed, the peer gone or the deadline, set once, over.
ReadFails(c) ==
  /\ pc[c] = "read"
  /\ Become(c, "Error")
  /\ GoTo(c, "close")
  /\ HandlerKeeps
  /\ UNCHANGED <<clients, socket, handshake, handshakeDone, connects>>

----------------------------------------------------------------------------
(* ServerConnection.WriteMessage, from any goroutine, another connection's *)
(* OnMessage among them.  It holds writeLock throughout, Close does not    *)
(* take it.                                                                *)

WriteMessage(c) ==
  /\ c \in WrittenTo
  /\ Known(c)
  /\ pc[c] # "deadline"       \* its chunker is made in SetUp
  /\ c \notin writing
  /\ state[c] \notin {"Closed", "Closing"}
  /\ writing' = writing \cup {c}
  /\ UNCHANGED <<serverVars, pc, socket, state, handshake, handshakeDone,
                 chunkSizeOK, app, connects, disconnects, appClosed,
                 closeFailed, writeFailed>>

\* It ends well or, the socket closed, the peer gone or the write deadline
\* over, badly, and then the state is Error whatever it was.
WriteReturns(c) ==
  /\ c \in writing
  /\ writing' = writing \ {c}
  /\ \/ UNCHANGED <<state, writeFailed>>
     \/ Become(c, "Error") /\ writeFailed' = writeFailed \cup {c}
  /\ UNCHANGED <<serverVars, pc, socket, handshake, handshakeDone,
                 chunkSizeOK, app, connects, disconnects, appClosed,
                 closeFailed>>

----------------------------------------------------------------------------
Handler(c) ==
  \/ Register(c) \/ SetUp(c) \/ OnConnect(c)
  \/ StartHandshake(c) \/ HandshakeOK(c) \/ HandshakeFails(c)
  \/ NextMessage(c) \/ ReadFails(c) \/ OnMessage(c) \/ HandlerClose(c)

AcceptLoop(l) ==
  AcceptCheck(l) \/ AcceptCall(l) \/ AcceptConn(l) \/ AcceptError(l) \/ AcceptLimit(l)

Next ==
  \/ Start \/ Stop \/ StopListener \/ StopClients
  \/ \E l \in Starts : AcceptLoop(l)
  \/ \E c \in Conns : \/ Dial(c) \/ ReadOK(c) \/ Handler(c) \/ HandshakeEnds(c)
                       \/ AppCloses(c) \/ WriteMessage(c) \/ WriteReturns(c)
  \/ AppClose

\* Goroutines that can go on do.  A timer stands behind HandshakeFails and the
\* read deadline behind ReadFails: the deadline is set once and never renewed,
\* so reads cannot succeed for ever, nor a write be stuck.  A mutex of Go goes
\* to a goroutine that has waited long enough.  ReadOK is up to the peer.
\* Nothing brings an answer of Accept on an open listener, nor the end of
\* DoHandshake on an open socket: only what is closed under them must fail.
Fairness ==
  /\ \A c \in Conns : WF_vars(Handler(c)) /\ SF_vars(ReadFails(c))
                       /\ SF_vars(OnMessage(c)) /\ WF_vars(WriteReturns(c))
                       /\ WF_vars(HandshakeEnds(c) /\ socket[c] = "closed")
  /\ \A l \in Starts :
       WF_vars(\/ AcceptCheck(l) \/ AcceptCall(l) \/ AcceptConn(l) \/ AcceptLimit(l)
               \/ AcceptError(l) /\ ~ListenerOpen(l))
  /\ WF_vars(StopListener) /\ WF_vars(StopClients) /\ WF_vars(AppClose)

Spec == Init /\ [][Next]_vars /\ Fairness

----------------------------------------------------------------------------
LoopPCs == {"none", "check", "read", "accept", "limit", "done"}

Loop == [pc : LoopPCs, on : 0 .. MaxStarts, conn : Conns \cup {NoConn}]

\* The server's variables hold values of their Go types, and where acceptLoop
\* uses what Accept returned (server.go:307-317) it is a connection.
TypeOK ==
  /\ running \in BOOLEAN /\ ctxDone \in BOOLEAN
  /\ listener \in 0 .. MaxStarts /\ listening \in BOOLEAN
  /\ loops \in [Starts -> Loop]
  /\ \A l \in Starts : loops[l].pc = "limit" => loops[l].conn \in Conns
  /\ stopping \in {"idle", "listener", "clients"} /\ stopped \in BOOLEAN
  /\ clients \subseteq Conns /\ clientsMux \in {"free", "leaked"}
  /\ pc \in [Conns -> HandlerPCs]
  /\ socket \in [Conns -> {"open", "closed"}]
  /\ state \in [Conns -> {"Connected", "Handshaking", "Ready", "Closing", "Closed",
                          "Error"}]
  /\ handshake \in [Conns -> {"none", "run", "done"}]
  /\ handshakeDone \in [Conns -> {"empty", "ok", "err"}]
  /\ chunkSizeOK \in BOOLEAN /\ closeFailed \in BOOLEAN
  /\ app \in [pc : ClosePCs \cup {"idle"}, conn : Conns \cup {NoConn}]
  /\ connects \subseteq Conns /\ appClosed \subseteq Conns
  /\ disconnects \in [Conns -> Nat]
  /\ writing \subseteq Conns /\ writeFailed \subseteq Conns

\* A registered connection has a handler that still runs and will take it out,
\* also when Stop, the application and the handler close it at the same time,
\* as long as Stop has not left the map locked.
NoGhosts == clientsMux = "free" => \A c \in clients : Live(c)

\* A handler that has ended has closed its socket, whichever way it ended.
NoOpenSocketLeft == \A c \in Conns : pc[c] \in {"done", "rejected"} => socket[c] = "closed"

\* A server that runs and has not been stopped before has a loop that accepts,
\* whatever connections it refused; only a failing close of a refused connection
\* ends the loop.  After Stop the context stays cancelled, and a server that is
\* started again accepts nothing for long.
AcceptsUntilStopped ==
  running /\ ~ctxDone /\ ~closeFailed => loops[listener].pc \notin {"none", "done"}

DisconnectAnswers ==
  \A c \in Conns :
    /\ pc[c] = "done" /\ c \in connects => disconnects[c] >= 1
    /\ c \notin appClosed =>
         /\ disconnects[c] <= 1
         /\ disconnects[c] = 1 => pc[c] \in {"shut", "closed", "done"}

MessagesAfterHandshake ==
  \A c \in Conns :
    pc[c] \in {"read", "account"} => c \in connects /\ handshake[c] = "done"

\* OnDisconnect answers every OnConnect; unless the application calls Close
\* itself it does so once, and no message follows.  Messages are read, and given
\* to OnMessage, after OnConnect and when the handshake goroutine has ended: a
\* handler that its timeout has freed leaves the goroutine with the socket
\* (server.go:534) and must not read from it itself.
CallbacksPaired == DisconnectAnswers /\ MessagesAfterHandshake

\* Whoever closes a connection, and in whatever order with the handler's own
\* transitions, its last state is Closed; only a WriteMessage that overlapped
\* Close and failed can leave Error there.
SettlesClosed ==
  \A c \in Conns :
    pc[c] = "done" /\ c \in connects /\ app.conn # c =>
      state[c] = "Closed" \/ (state[c] = "Error" /\ c \in writeFailed)

\* Every connection that is accepted is over one day: no handler waits for
\* ever for its peer, its handshake goroutine or a mutex.
HandlersEnd == \A c \in Conns : pc[c] = "register" ~> pc[c] = "done" \/ closeFailed

\* Nor does a handshake goroutine outlive its connection, also when the
\* handler gave up on it and nothing but the socket can end it: every way out of
\* the handler shuts the socket, and the channel takes an answer nobody awaits.
\* A Stop that keeps the mutex stops the handler before it gets there.
HandshakesEnd ==
  \A c \in Conns : handshake[c] = "run" ~> handshake[c] = "done" \/ closeFailed

\* Stop ends the accept loops, unless Start reaches them first.
LoopsEnd ==
  \A l \in Starts :
    loops[l].pc # "none" /\ ctxDone /\ ~running
      ~> loops[l].pc = "done" \/ running \/ closeFailed

----------------------------------------------------------------------------
(* What the documentation says and the code does not keep.                 *)

\* README and ServerConfig: "MaxConnections specifies the maximum number of
\* concurrent connections".
WithinLimit == MaxConnections > 0 => Cardinality(clients) <= MaxConnections

\* Stop: "stops the RTMP server and closes all client connections".
StopClosesAll == stopped => \A c \in Conns : socket[c] = "closed"

=============================================================================
