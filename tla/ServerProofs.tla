----------------------------- MODULE ServerProofs -----------------------------
(***************************************************************************)
(* Safety of Server for every set of connections.                          *)
(***************************************************************************)
EXTENDS Server, TLAPS

(* Accept holds a connection exactly while it is about to record it. *)
AcceptInv == accepted \in Conns <=> run = "record"

TypeInv == TypeOK /\ AcceptInv

LEMMA TypeInit == Init => TypeInv
  BY ServerAssumption DEF Init, TypeInv, TypeOK, AcceptInv

LEMMA TypeRun ==
    ASSUME TypeInv,
           Listen \/ ListenFails \/ Serve \/ RecordConn \/
           AcceptFails
    PROVE  TypeInv'
<1> USE ServerAssumption DEF TypeInv, TypeOK, AcceptInv, serverVars, tableVars,
                              sessionVars
<1>1. CASE Listen
  BY <1>1 DEF Listen
<1>2. CASE ListenFails
  BY <1>2 DEF ListenFails
<1>3. CASE Serve
  BY <1>3 DEF Serve
<1>4. CASE RecordConn
  BY <1>4 DEF RecordConn
<1>5. CASE AcceptFails
  BY <1>5 DEF AcceptFails
<1>6. QED
  BY <1>1, <1>2, <1>3, <1>4, <1>5

LEMMA TypeClose ==
    ASSUME TypeInv,
           CloseNothing \/ CloseSocket \/ CloseConns \/
           UnsetListener
    PROVE  TypeInv'
<1> USE ServerAssumption DEF TypeInv, TypeOK, AcceptInv, serverVars, tableVars,
                              sessionVars
<1>1. CASE CloseNothing
  BY <1>1 DEF CloseNothing
<1>2. CASE CloseSocket
  BY <1>2 DEF CloseSocket
<1>3. CASE CloseConns
  BY <1>3 DEF CloseConns
<1>4. CASE UnsetListener
  BY <1>4 DEF UnsetListener
<1>5. QED
  BY <1>1, <1>2, <1>3, <1>4

LEMMA TypePeer ==
    ASSUME TypeInv,
           NEW c \in Conns,
           Accept(c) \/ Connect(c) \/ PeerCloses(c) \/
           ReceiveRequest(c) \/ IdentifyClient(c) \/
           TakeContext(c)
    PROVE  TypeInv'
<1> USE ServerAssumption DEF TypeInv, TypeOK, AcceptInv, serverVars, tableVars,
                              sessionVars
<1>1. CASE Accept(c)
  BY <1>1 DEF Accept
<1>2. CASE Connect(c)
  BY <1>2 DEF Connect
<1>3. CASE PeerCloses(c)
  BY <1>3 DEF PeerCloses
<1>4. CASE ReceiveRequest(c)
  BY <1>4 DEF ReceiveRequest
<1>5. CASE IdentifyClient(c)
  BY <1>5 DEF IdentifyClient
<1>6. CASE TakeContext(c)
  BY <1>6 DEF TakeContext
<1>7. QED
  BY <1>1, <1>2, <1>3, <1>4, <1>5, <1>6

LEMMA TypeHandler ==
    ASSUME TypeInv,
           NEW c \in Conns,
           ConnectHandlers(c) \/ ReadLoopEnds(c) \/
           ClientDisconnectHandlers(c) \/
           KiteDisconnectHandlers(c) \/ SessionCloses(c)
    PROVE  TypeInv'
<1> USE ServerAssumption DEF TypeInv, TypeOK, AcceptInv, serverVars, tableVars,
                              sessionVars
<1>1. CASE ConnectHandlers(c)
  BY <1>1 DEF ConnectHandlers
<1>2. CASE ReadLoopEnds(c)
  BY <1>2 DEF ReadLoopEnds
<1>3. CASE ClientDisconnectHandlers(c)
  BY <1>3 DEF ClientDisconnectHandlers
<1>4. CASE KiteDisconnectHandlers(c)
  BY <1>4 DEF KiteDisconnectHandlers
<1>5. CASE SessionCloses(c)
  BY <1>5 DEF SessionCloses
<1>6. QED
  BY <1>1, <1>2, <1>3, <1>4, <1>5

LEMMA TypeStep == TypeInv /\ [Next]_vars => TypeInv'
<1> SUFFICES ASSUME TypeInv, [Next]_vars PROVE TypeInv'
  OBVIOUS
<1>1. CASE UNCHANGED vars
  BY <1>1 DEF TypeInv, TypeOK, AcceptInv, vars, serverVars, tableVars, sessionVars
<1>2. CASE Next
  BY <1>2, TypeRun, TypeClose, TypePeer, TypeHandler
     DEF Next, RunStep, CloseStep, HandlerStep
<1>3. QED
  BY <1>1, <1>2

(* Every reachable state of the server is well typed. *)
THEOREM TypeCorrect == Spec => []TypeOK
<1>1. TypeInv => TypeOK
  BY DEF TypeInv
<1>2. QED
  BY <1>1, TypeInit, TypeStep, PTL DEF Spec

-----------------------------------------------------------------------------
(***************************************************************************)
(* No connection outlives Close: an open one is in the table or is the one *)
(* that is being accepted, and Close empties the table for good.  A handler*)
(* takes its connection out of the table only after it was closed.         *)
(***************************************************************************)
TableInv ==
    /\ connsNil => conns = {}
    /\ \A c \in Conns :
          /\ handler[c] \in {"disconnect", "kite", "close", "done"} => conn[c] = "closed"
          /\ conn[c] = "open" /\ Alive => c \in conns \/ c = accepted

LEMMA TableInit == Init => TableInv
  BY DEF Init, TableInv

LEMMA TableRun ==
    ASSUME TypeInv, TableInv, Alive,
           Listen \/ ListenFails \/ Serve \/ RecordConn \/
           AcceptFails
    PROVE  TableInv'
<1> USE ServerAssumption DEF TypeInv, TypeOK, AcceptInv, TableInv, Alive,
                         serverVars, tableVars,
                              sessionVars
<1>1. CASE Listen
  BY <1>1 DEF Listen
<1>2. CASE ListenFails
  BY <1>2 DEF ListenFails
<1>3. CASE Serve
  BY <1>3 DEF Serve
<1>4. CASE RecordConn
  BY <1>4 DEF RecordConn
<1>5. CASE AcceptFails
  BY <1>5 DEF AcceptFails
<1>6. QED
  BY <1>1, <1>2, <1>3, <1>4, <1>5

LEMMA TableClose ==
    ASSUME TypeInv, TableInv, Alive,
           CloseNothing \/ CloseSocket \/ CloseConns \/
           UnsetListener
    PROVE  TableInv'
<1> USE ServerAssumption DEF TypeInv, TypeOK, AcceptInv, TableInv, Alive,
                         serverVars, tableVars,
                              sessionVars
<1>1. CASE CloseNothing
  BY <1>1 DEF CloseNothing
<1>2. CASE CloseSocket
  BY <1>2 DEF CloseSocket
<1>3. CASE CloseConns
  BY <1>3 DEF CloseConns
<1>4. CASE UnsetListener
  BY <1>4 DEF UnsetListener
<1>5. QED
  BY <1>1, <1>2, <1>3, <1>4

LEMMA TablePeer ==
    ASSUME TypeInv, TableInv, Alive,
           NEW c \in Conns,
           Accept(c) \/ Connect(c) \/ PeerCloses(c) \/
           ReceiveRequest(c) \/ IdentifyClient(c) \/
           TakeContext(c)
    PROVE  TableInv'
<1> USE ServerAssumption DEF TypeInv, TypeOK, AcceptInv, TableInv, Alive,
                         serverVars, tableVars,
                              sessionVars
<1>1. CASE Accept(c)
  BY <1>1 DEF Accept
<1>2. CASE Connect(c)
  BY <1>2 DEF Connect
<1>3. CASE PeerCloses(c)
  BY <1>3 DEF PeerCloses
<1>4. CASE ReceiveRequest(c)
  BY <1>4 DEF ReceiveRequest
<1>5. CASE IdentifyClient(c)
  BY <1>5 DEF IdentifyClient
<1>6. CASE TakeContext(c)
  BY <1>6 DEF TakeContext
<1>7. QED
  BY <1>1, <1>2, <1>3, <1>4, <1>5, <1>6

LEMMA TableHandler ==
    ASSUME TypeInv, TableInv, Alive,
           NEW c \in Conns,
           ConnectHandlers(c) \/ ReadLoopEnds(c) \/
           ClientDisconnectHandlers(c) \/
           KiteDisconnectHandlers(c) \/ SessionCloses(c)
    PROVE  TableInv'
<1> USE ServerAssumption DEF TypeInv, TypeOK, AcceptInv, TableInv, Alive,
                         serverVars, tableVars,
                              sessionVars
<1>1. CASE ConnectHandlers(c)
  BY <1>1 DEF ConnectHandlers
<1>2. CASE ReadLoopEnds(c)
  BY <1>2 DEF ReadLoopEnds
<1>3. CASE ClientDisconnectHandlers(c)
  BY <1>3 DEF ClientDisconnectHandlers
<1>4. CASE KiteDisconnectHandlers(c)
  BY <1>4 DEF KiteDisconnectHandlers
<1>5. CASE SessionCloses(c)
  BY <1>5 DEF SessionCloses
<1>6. QED
  BY <1>1, <1>2, <1>3, <1>4, <1>5

LEMMA TableStep == TypeInv /\ TableInv /\ [Next]_vars => TableInv'
<1> SUFFICES ASSUME TypeInv, TableInv, [Next]_vars PROVE TableInv'
  OBVIOUS
<1>1. CASE UNCHANGED vars
  BY <1>1 DEF TableInv, Alive, vars, serverVars, tableVars, sessionVars
<1>2. CASE Next
  BY <1>2, TableRun, TableClose, TablePeer, TableHandler
     DEF Next, RunStep, CloseStep, HandlerStep
<1>3. QED
  BY <1>1, <1>2

(* Once Close has walked the table nothing is served on a connection that *)
(* was accepted, however the accept loop and the peers were interleaved.  *)
THEOREM ClosedForGood == Spec => []NoneOutlivesClose
<1>1. TableInv => NoneOutlivesClose
  BY DEF TableInv, NoneOutlivesClose
<1>2. QED
  BY <1>1, TypeInit, TypeStep, TableInit, TableStep, PTL DEF Spec

-----------------------------------------------------------------------------
(***************************************************************************)
(* Contexts: a request exists only on a session whose connect handlers     *)
(* have set the context, which the disconnect handlers cancel; a session   *)
(* starts on an accepted connection that had none.                         *)
(***************************************************************************)
ContextInv ==
    /\ accepted \in Conns =>
          handler[accepted] = "none" /\ conn[accepted] \in {"open", "closed"}
    /\ \A c \in Conns :
          /\ conn[c] \in {"none", "backlog"} => handler[c] = "none"
          /\ handler[c] \in {"none", "start"} => request[c] = "none"
          /\ handler[c] \notin {"none", "start"} => ctx[c] # "background"
          /\ handler[c] \in {"kite", "close", "done"} => ctx[c] = "cancelled"
          /\ request[c] # "background"

LEMMA ContextInit == Init => ContextInv
  BY ServerAssumption DEF Init, ContextInv

LEMMA ContextRun ==
    ASSUME TypeInv, ContextInv,
           Listen \/ ListenFails \/ Serve \/ RecordConn \/
           AcceptFails
    PROVE  ContextInv'
<1> USE ServerAssumption DEF TypeInv, TypeOK, AcceptInv, ContextInv,
                         serverVars, tableVars,
                              sessionVars
<1>1. CASE Listen
  BY <1>1 DEF Listen
<1>2. CASE ListenFails
  BY <1>2 DEF ListenFails
<1>3. CASE Serve
  BY <1>3 DEF Serve
<1>4. CASE RecordConn
  BY <1>4 DEF RecordConn
<1>5. CASE AcceptFails
  BY <1>5 DEF AcceptFails
<1>6. QED
  BY <1>1, <1>2, <1>3, <1>4, <1>5

LEMMA ContextClose ==
    ASSUME TypeInv, ContextInv,
           CloseNothing \/ CloseSocket \/ CloseConns \/
           UnsetListener
    PROVE  ContextInv'
<1> USE ServerAssumption DEF TypeInv, TypeOK, AcceptInv, ContextInv,
                         serverVars, tableVars,
                              sessionVars
<1>1. CASE CloseNothing
  BY <1>1 DEF CloseNothing
<1>2. CASE CloseSocket
  BY <1>2 DEF CloseSocket
<1>3. CASE CloseConns
  BY <1>3 DEF CloseConns
<1>4. CASE UnsetListener
  BY <1>4 DEF UnsetListener
<1>5. QED
  BY <1>1, <1>2, <1>3, <1>4

LEMMA ContextPeer ==
    ASSUME TypeInv, ContextInv,
           NEW c \in Conns,
           Accept(c) \/ Connect(c) \/ PeerCloses(c) \/
           ReceiveRequest(c) \/ IdentifyClient(c) \/
           TakeContext(c)
    PROVE  ContextInv'
<1> USE ServerAssumption DEF TypeInv, TypeOK, AcceptInv, ContextInv,
                         serverVars, tableVars,
                              sessionVars
<1>1. CASE Accept(c)
  BY <1>1 DEF Accept
<1>2. CASE Connect(c)
  BY <1>2 DEF Connect
<1>3. CASE PeerCloses(c)
  BY <1>3 DEF PeerCloses
<1>4. CASE ReceiveRequest(c)
  BY <1>4 DEF ReceiveRequest
<1>5. CASE IdentifyClient(c)
  BY <1>5 DEF IdentifyClient
<1>6. CASE TakeContext(c)
  BY <1>6 DEF TakeContext
<1>7. QED
  BY <1>1, <1>2, <1>3, <1>4, <1>5, <1>6

LEMMA ContextHandler ==
    ASSUME TypeInv, ContextInv,
           NEW c \in Conns,
           ConnectHandlers(c) \/ ReadLoopEnds(c) \/
           ClientDisconnectHandlers(c) \/
           KiteDisconnectHandlers(c) \/ SessionCloses(c)
    PROVE  ContextInv'
<1> USE ServerAssumption DEF TypeInv, TypeOK, AcceptInv, ContextInv,
                         serverVars, tableVars,
                              sessionVars
<1>1. CASE ConnectHandlers(c)
  BY <1>1 DEF ConnectHandlers
<1>2. CASE ReadLoopEnds(c)
  BY <1>2 DEF ReadLoopEnds
<1>3. CASE ClientDisconnectHandlers(c)
  BY <1>3 DEF ClientDisconnectHandlers
<1>4. CASE KiteDisconnectHandlers(c)
  BY <1>4 DEF KiteDisconnectHandlers
<1>5. CASE SessionCloses(c)
  BY <1>5 DEF SessionCloses
<1>6. QED
  BY <1>1, <1>2, <1>3, <1>4, <1>5

LEMMA ContextStep == TypeInv /\ ContextInv /\ [Next]_vars => ContextInv'
<1> SUFFICES ASSUME TypeInv, ContextInv, [Next]_vars PROVE ContextInv'
  OBVIOUS
<1>1. CASE UNCHANGED vars
  BY <1>1 DEF ContextInv, vars, serverVars, tableVars, sessionVars
<1>2. CASE Next
  BY <1>2, ContextRun, ContextClose, ContextPeer, ContextHandler
     DEF Next, RunStep, CloseStep, HandlerStep
<1>3. QED
  BY <1>1, <1>2

(* A request never runs with a context that its session does not cancel,  *)
(* also when it takes it after the session has ended.                     *)
THEOREM ContextCancelled == Spec => []ContextOfSession
<1>1. ContextInv => ContextOfSession
  BY DEF ContextInv, ContextOfSession
<1>2. QED
  BY <1>1, TypeInit, TypeStep, ContextInit, ContextStep, PTL DEF Spec

-----------------------------------------------------------------------------
(***************************************************************************)
(* What Close leaves behind can only end: the socket is closed before the  *)
(* table is walked and never opened again, and a handler has told whom it  *)
(* has to tell before it is done.                                          *)
(***************************************************************************)
ClosingInv ==
    /\ listener \/ socket = "closed" => run \notin {"idle", "listening"}
    /\ closer = "conns" \/ connsNil => socket = "closed"
    /\ closer = "idle" => ~connsNil
    /\ run = "returned" => closed

ToldInv ==
    \A c \in Conns :
        /\ handler[c] \in {"none", "start"} => notified[c] = {}
        /\ handler[c] \in {"close", "done"} => "disconnect" \in notified[c]

LEMMA DrainInit == Init => ClosingInv /\ ToldInv
  BY DEF Init, ClosingInv, ToldInv

LEMMA ClosingStep == TypeInv /\ ClosingInv /\ [Next]_vars => ClosingInv'
<1> SUFFICES ASSUME TypeInv, ClosingInv, [Next]_vars PROVE ClosingInv'
  OBVIOUS
<1> USE DEF serverVars, tableVars
<1>1. CASE RunStep \/ ListenFails
  BY <1>1 DEF RunStep, Listen, ListenFails, Serve, Accept, RecordConn, AcceptFails, ClosingInv
<1>2. CASE CloseNothing \/ CloseSocket \/ CloseStep
  BY <1>2 DEF CloseNothing, CloseSocket, CloseStep, CloseConns, UnsetListener, ClosingInv
<1>3. ASSUME UNCHANGED <<serverVars, connsNil, closer>> PROVE ClosingInv'
  BY <1>3 DEF ClosingInv
<1>4. ASSUME NEW c \in Conns,
             \/ Connect(c) \/ PeerCloses(c) \/ HandlerStep(c)
             \/ ReceiveRequest(c) \/ IdentifyClient(c) \/ TakeContext(c)
      PROVE  ClosingInv'
  BY <1>3, <1>4 DEF Connect, PeerCloses, HandlerStep, ConnectHandlers, ReadLoopEnds,
     ClientDisconnectHandlers, KiteDisconnectHandlers, SessionCloses, ReceiveRequest,
     IdentifyClient, TakeContext
<1>5. QED
  BY <1>1, <1>2, <1>3, <1>4 DEF Next, vars

LEMMA ToldStep == TypeInv /\ ContextInv /\ ToldInv /\ [Next]_vars => ToldInv'
<1> SUFFICES ASSUME TypeInv, ContextInv, ToldInv, [Next]_vars PROVE ToldInv'
  OBVIOUS
<1>1. ASSUME UNCHANGED <<handler, notified>> PROVE ToldInv'
  BY <1>1 DEF ToldInv
<1>2. CASE RecordConn
  <2>1. accepted \in Conns /\ handler[accepted] = "none"
    BY <1>2 DEF RecordConn, TypeInv, AcceptInv, ContextInv
  <2>2. QED
    BY <1>2, <2>1 DEF RecordConn, ToldInv, TypeInv, TypeOK
<1>3. ASSUME NEW c \in Conns, HandlerStep(c) PROVE ToldInv'
  <2> USE DEF ToldInv, TypeInv, TypeOK
  <2>1. CASE ConnectHandlers(c)
    BY <2>1 DEF ConnectHandlers
  <2>2. CASE ReadLoopEnds(c)
    BY <2>2 DEF ReadLoopEnds
  <2>3. CASE ClientDisconnectHandlers(c)
    BY <2>3 DEF ClientDisconnectHandlers
  <2>4. CASE KiteDisconnectHandlers(c)
    BY <2>4 DEF KiteDisconnectHandlers
  <2>5. CASE SessionCloses(c)
    BY <2>5 DEF SessionCloses
  <2>6. QED
    BY <1>3, <2>1, <2>2, <2>3, <2>4, <2>5 DEF HandlerStep
<1>4. ASSUME NEW c \in Conns, IdentifyClient(c) PROVE ToldInv'
  <2>1. handler[c] \notin {"none", "start"} /\ handler' = handler
    BY <1>4 DEF IdentifyClient, ContextInv
  <2>2. notified' = [notified EXCEPT ![c] = @ \cup {"first"}]
    BY <1>4 DEF IdentifyClient
  <2>3. QED
    BY <2>1, <2>2 DEF ToldInv, TypeInv, TypeOK
<1>5. ASSUME NEW c \in Conns, Connect(c) \/ PeerCloses(c) \/ ReceiveRequest(c) \/ TakeContext(c)
      PROVE  ToldInv'
  BY <1>1, <1>5 DEF Connect, PeerCloses, ReceiveRequest, TakeContext, sessionVars
<1>6. CASE RunStep \/ ListenFails
  BY <1>1, <1>2, <1>6 DEF RunStep, Listen, ListenFails, Serve, Accept, AcceptFails, sessionVars
<1>7. CASE CloseNothing \/ CloseSocket \/ CloseStep
  BY <1>1, <1>7 DEF CloseNothing, CloseSocket, CloseStep, CloseConns, UnsetListener, sessionVars
<1>8. QED
  BY <1>1, <1>3, <1>4, <1>5, <1>6, <1>7 DEF Next, vars, sessionVars

(* Once Close has walked the table Run has returned and closed k.closeC,   *)
(* is about to be refused by the closed socket, holds a connection that it *)
(* has yet to record, or has died of recording one; unless it has died, no *)
(* handler is left that could wait for its peer, and one that is done has  *)
(* called the disconnect handlers if it called the connect handlers.       *)
ClosingEnds ==
    connsNil =>
        /\ \/ run \in {"record", "crashed"}
           \/ run = "accept" /\ socket = "closed"
           \/ run = "returned" /\ closed
        /\ conns = {}
        /\ run # "crashed" => \A c \in Conns :
              /\ handler[c] # "none" => conn[c] = "closed"
              /\ handler[c] \in {"none", "done"} /\ "connect" \in notified[c] =>
                    "disconnect" \in notified[c]

(* A Run that holds no connection when Close has walked the table takes    *)
(* none afterwards, and does not die.                                      *)
StaysClosed ==
    connsNil /\ run \notin {"record", "crashed"} =>
        (connsNil /\ run \notin {"record", "crashed"})'

(* Unless Accept holds a connection when Close has walked the table, which *)
(* is the panic of server.go:184, nothing that is left after Close can go  *)
(* on for ever or ends without the disconnect handlers (server.go:41-53,   *)
(* 177-220, kite.go:280-301), and the process survives: what CloseDrains   *)
(* rests on, for any set of connections.                                   *)
THEOREM ClosingAlwaysEnds == Spec => []ClosingEnds /\ [][StaysClosed]_vars
<1>1. TypeInv /\ TableInv /\ ContextInv /\ ClosingInv /\ ToldInv => ClosingEnds
  <2> SUFFICES ASSUME TypeInv, TableInv, ContextInv, ClosingInv, ToldInv, connsNil
               PROVE  ClosingEnds
    BY DEF ClosingEnds
  <2>1. \/ run \in {"record", "crashed"}
        \/ run = "accept" /\ socket = "closed"
        \/ run = "returned" /\ closed
    BY DEF ClosingInv, TypeInv, TypeOK
  <2>2. ASSUME NEW c \in Conns, handler[c] # "none", run # "crashed" PROVE conn[c] = "closed"
    <3>1. c # accepted /\ conns = {} /\ conn[c] \notin {"none", "backlog"}
      BY <2>2 DEF ContextInv, TableInv
    <3>2. QED
      BY <2>2, <3>1 DEF TableInv, TypeInv, TypeOK, Alive
  <2>3. QED
    BY <2>1, <2>2 DEF ClosingEnds, TableInv, ToldInv
<1>2. ClosingInv /\ [Next]_vars => [StaysClosed]_vars
  <2> SUFFICES ASSUME ClosingInv, Next, connsNil, run \notin {"record", "crashed"}
               PROVE  (connsNil /\ run \notin {"record", "crashed"})'
    BY DEF StaysClosed
  <2>1. socket = "closed" /\ run # "idle"
    BY DEF ClosingInv
  <2>2. CASE RunStep \/ ListenFails
    BY <2>1, <2>2 DEF RunStep, Listen, ListenFails, Serve, Accept, RecordConn, AcceptFails,
                      tableVars
  <2>3. CASE CloseNothing \/ CloseSocket \/ CloseStep
    BY <2>3 DEF CloseNothing, CloseSocket, CloseStep, CloseConns, UnsetListener, serverVars,
                tableVars
  <2>4. CASE \E c \in Conns : \/ Connect(c) \/ PeerCloses(c) \/ HandlerStep(c)
                             \/ ReceiveRequest(c) \/ IdentifyClient(c) \/ TakeContext(c)
    BY <2>4 DEF Connect, PeerCloses, HandlerStep, ReceiveRequest, IdentifyClient, TakeContext,
                ConnectHandlers, ReadLoopEnds, ClientDisconnectHandlers,
                KiteDisconnectHandlers, SessionCloses, serverVars, tableVars
  <2>5. QED
    BY <2>2, <2>3, <2>4 DEF Next
<1>3. QED
  BY <1>1, <1>2, TypeInit, TypeStep, TableInit, TableStep, ContextInit, ContextStep, DrainInit,
     ClosingStep, ToldStep, PTL DEF Spec
=============================================================================
