------------------------------- MODULE Server -------------------------------
(***************************************************************************)
(* The server of a kite (server.go) and what it runs for every connection  *)
(* (sockjsHandler and the handler lists of kite.go).                       *)
(*                                                                         *)
(* Processes: Run, whose accept loop is http.Serve over gracefulListener;  *)
(* Close; for every connection the goroutine of sockjsHandler and one      *)
(* request (runMethod, a goroutine of its own); the peers.  k.listener is  *)
(* read and written without a lock.  A connection carries one session.     *)
(***************************************************************************)
EXTENDS Naturals

CONSTANTS
    Conns,   \* the connections peers make
    None

ASSUME ServerAssumption == None \notin Conns

VARIABLES
    run,         \* where Run is; "crashed": the process has died of a panic
    socket,      \* the listening socket
    listener,    \* k.listener is not nil
    conns,       \* gracefulListener.conns
    connsNil,    \* gracefulListener.conns is nil
    accepted,    \* the connection Accept holds and has not recorded yet
    ready,       \* k.readyC is closed
    closed,      \* k.closeC is closed
    closer,      \* where Close is
    conn,        \* every connection
    handler,     \* where its sockjsHandler is
    ctx,         \* c.ctx of its client
    request,     \* its request
    notified     \* history: the kite's handlers that have been called for it

serverVars == <<run, socket, listener, ready, closed>>
tableVars == <<conns, connsNil, accepted>>
sessionVars == <<handler, ctx, request, notified>>
vars == <<serverVars, tableVars, closer, conn, sessionVars>>

TypeOK ==
    /\ run \in {"idle", "listening", "accept", "record", "returned", "crashed"}
    /\ socket \in {"none", "open", "closed"}
    /\ listener \in BOOLEAN /\ ready \in BOOLEAN /\ closed \in BOOLEAN
    /\ conns \subseteq Conns /\ connsNil \in BOOLEAN
    /\ accepted \in Conns \cup {None}
    /\ closer \in {"idle", "conns", "unset", "returned"}
    /\ conn \in [Conns -> {"none", "backlog", "open", "closed"}]
    /\ handler \in [Conns -> {"none", "start", "read", "disconnect", "kite",
                              "close", "done"}]
    /\ ctx \in [Conns -> {"background", "live", "cancelled"}]
    /\ request \in [Conns -> {"none", "new", "identified", "background", "context"}]
    /\ notified \in [Conns -> SUBSET {"connect", "first", "disconnect"}]

Init ==
    /\ run = "idle" /\ socket = "none" /\ listener = FALSE
    /\ ready = FALSE /\ closed = FALSE
    /\ conns = {} /\ connsNil = FALSE /\ accepted = None
    /\ closer = "idle"
    /\ conn = [c \in Conns |-> "none"]
    /\ handler = [c \in Conns |-> "none"]
    /\ ctx = [c \in Conns |-> "background"]
    /\ request = [c \in Conns |-> "none"]
    /\ notified = [c \in Conns |-> {}]

Alive == run # "crashed"

-----------------------------------------------------------------------------
(* Run. *)

Listen ==
    /\ run = "idle"
    /\ run' = "listening" /\ socket' = "open"
    /\ UNCHANGED <<listener, ready, closed, tableVars, closer, conn, sessionVars>>

(* net.Listen fails: Run ends the process (Log.Fatal). *)
ListenFails ==
    /\ run = "idle"
    /\ run' = "crashed"
    /\ UNCHANGED <<socket, listener, ready, closed, tableVars, closer, conn,
                   sessionVars>>

(* newGracefulListener, close(k.readyC), http.Serve. *)
Serve ==
    /\ run = "listening"
    /\ run' = "accept" /\ listener' = TRUE /\ ready' = TRUE
    /\ UNCHANGED <<socket, closed, tableVars, closer, conn, sessionVars>>

Accept(c) ==
    /\ run = "accept" /\ socket = "open" /\ conn[c] = "backlog"
    /\ run' = "record" /\ accepted' = c
    /\ conn' = [conn EXCEPT ![c] = "open"]
    /\ UNCHANGED <<socket, listener, ready, closed, conns, connsNil, closer,
                   sessionVars>>

(* Mutant: a connection accepted while Close runs is served all the same. *)
ServeLateConn ==
    /\ run = "record"
    /\ run' = "accept" /\ accepted' = None
    /\ conns' = IF connsNil THEN {} ELSE conns \cup {accepted}
    /\ handler' = [handler EXCEPT ![accepted] = "start"]
    /\ UNCHANGED <<socket, listener, ready, closed, connsNil, closer, conn, ctx,
                   request, notified>>

(* Accept records the connection (connsMu), and http.Serve gives it a      *)
(* goroutine; on a nil map the assignment panics, outside every recover.   *)
RecordConn ==
    /\ run = "record"
    /\ accepted' = None
    /\ IF connsNil
         THEN run' = "crashed" /\ UNCHANGED <<conns, handler>>
         ELSE /\ run' = "accept"
              /\ conns' = conns \cup {accepted}
              /\ handler' = [handler EXCEPT ![accepted] = "start"]
    /\ UNCHANGED <<socket, listener, ready, closed, connsNil, closer, conn, ctx,
                   request, notified>>

(* "use of closed network connection": listenAndServe returns. *)
AcceptFails ==
    /\ run = "accept" /\ socket = "closed"
    /\ run' = "returned" /\ closed' = TRUE
    /\ UNCHANGED <<socket, listener, ready, tableVars, closer, conn, sessionVars>>

-----------------------------------------------------------------------------
(* Close. *)

(* Nothing to close yet: Close returns, and Run goes on. *)
CloseNothing ==
    /\ closer = "idle" /\ ~listener
    /\ closer' = "returned"
    /\ UNCHANGED <<serverVars, tableVars, conn, sessionVars>>

(* The listening socket, and with it the connections nobody accepted. *)
CloseSocket ==
    /\ closer = "idle" /\ listener
    /\ closer' = "conns" /\ socket' = "closed"
    /\ conn' = [c \in Conns |-> IF conn[c] = "backlog" THEN "closed" ELSE conn[c]]
    /\ UNCHANGED <<run, listener, ready, closed, tableVars, sessionVars>>

CloseConns ==
    /\ closer = "conns"
    /\ closer' = "unset"
    /\ conn' = [c \in Conns |-> IF c \in conns THEN "closed" ELSE conn[c]]
    /\ conns' = {} /\ connsNil' = TRUE
    /\ UNCHANGED <<serverVars, accepted, sessionVars>>

UnsetListener ==
    /\ closer = "unset"
    /\ closer' = "returned" /\ listener' = FALSE
    /\ UNCHANGED <<run, socket, ready, closed, tableVars, conn, sessionVars>>

-----------------------------------------------------------------------------
(* A peer, and sockjsHandler. *)

Connect(c) ==
    /\ socket = "open" /\ conn[c] = "none"
    /\ conn' = [conn EXCEPT ![c] = "backlog"]
    /\ UNCHANGED <<serverVars, tableVars, closer, sessionVars>>

PeerCloses(c) ==
    /\ conn[c] = "open" /\ handler[c] # "none"
    /\ conn' = [conn EXCEPT ![c] = "closed"]
    /\ UNCHANGED <<serverVars, tableVars, closer, sessionVars>>

(* Mutant: the connect handlers run beside readLoop. *)
ReadAtOnce(c) ==
    /\ handler[c] = "start"
    /\ handler' = [handler EXCEPT ![c] = "read"]
    /\ UNCHANGED <<serverVars, tableVars, closer, conn, ctx, request, notified>>

(* k.callOnConnectHandlers, then c.callOnConnectHandlers (setContext). *)
ConnectHandlers(c) ==
    /\ handler[c] = "start"
    /\ handler' = [handler EXCEPT ![c] = "read"]
    /\ notified' = [notified EXCEPT ![c] = @ \cup {"connect"}]
    /\ ctx' = [ctx EXCEPT ![c] = "live"]
    /\ UNCHANGED <<serverVars, tableVars, closer, conn, request>>

(* readLoop hands a method call to runMethod. *)
ReceiveRequest(c) ==
    /\ handler[c] = "read" /\ conn[c] = "open" /\ request[c] = "none"
    /\ request' = [request EXCEPT ![c] = "new"]
    /\ UNCHANGED <<serverVars, tableVars, closer, conn, handler, ctx, notified>>

(* newRequest: c.Kite is set and the first-request handlers run. *)
IdentifyClient(c) ==
    /\ request[c] = "new"
    /\ request' = [request EXCEPT ![c] = "identified"]
    /\ notified' = [notified EXCEPT ![c] = @ \cup {"first"}]
    /\ UNCHANGED <<serverVars, tableVars, closer, conn, handler, ctx>>

(* The request takes c.context(). *)
TakeContext(c) ==
    /\ request[c] = "identified"
    /\ request' = [request EXCEPT ![c] = IF ctx[c] = "background" THEN "background" ELSE "context"]
    /\ UNCHANGED <<serverVars, tableVars, closer, conn, handler, ctx, notified>>

ReadLoopEnds(c) ==
    /\ handler[c] = "read" /\ conn[c] = "closed"
    /\ handler' = [handler EXCEPT ![c] = "disconnect"]
    /\ UNCHANGED <<serverVars, tableVars, closer, conn, ctx, request, notified>>

(* c.callOnDisconnectHandlers: closeContext. *)
ClientDisconnectHandlers(c) ==
    /\ handler[c] = "disconnect"
    /\ handler' = [handler EXCEPT ![c] = "kite"]
    /\ ctx' = [ctx EXCEPT ![c] = "cancelled"]
    /\ UNCHANGED <<serverVars, tableVars, closer, conn, request, notified>>

(* Mutant: nobody is told when the kite itself is closing. *)
SilentWhenClosing(c) ==
    /\ handler[c] = "kite"
    /\ handler' = [handler EXCEPT ![c] = "close"]
    /\ notified' = [notified EXCEPT ![c] = IF connsNil THEN @ ELSE @ \cup {"disconnect"}]
    /\ UNCHANGED <<serverVars, tableVars, closer, conn, ctx, request>>

KiteDisconnectHandlers(c) ==
    /\ handler[c] = "kite"
    /\ handler' = [handler EXCEPT ![c] = "close"]
    /\ notified' = [notified EXCEPT ![c] = @ \cup {"disconnect"}]
    /\ UNCHANGED <<serverVars, tableVars, closer, conn, ctx, request>>

(* c.Close, session.Close and gracefulConn.Close: delete on a nil map is   *)
(* harmless.                                                               *)
SessionCloses(c) ==
    /\ handler[c] = "close"
    /\ handler' = [handler EXCEPT ![c] = "done"]
    /\ conns' = conns \ {c}
    /\ UNCHANGED <<serverVars, connsNil, accepted, closer, conn, ctx, request,
                   notified>>

-----------------------------------------------------------------------------
RunStep == Listen \/ Serve \/ (\E c \in Conns : Accept(c)) \/ RecordConn \/ AcceptFails

CloseStep == CloseConns \/ UnsetListener

HandlerStep(c) ==
    \/ ConnectHandlers(c) \/ ReadLoopEnds(c) \/ ClientDisconnectHandlers(c)
    \/ KiteDisconnectHandlers(c) \/ SessionCloses(c)

Next ==
    /\ Alive
    /\ \/ RunStep \/ ListenFails
       \/ CloseNothing \/ CloseSocket \/ CloseStep
       \/ \E c \in Conns :
            \/ Connect(c) \/ PeerCloses(c) \/ HandlerStep(c)
            \/ ReceiveRequest(c) \/ IdentifyClient(c) \/ TakeContext(c)

Spec == Init /\ [][Next]_vars

(* Goroutines run: the accept loop, a Close that has begun, and every      *)
(* sockjsHandler; peers and requests are under no obligation.              *)
Fairness ==
    /\ WF_vars(Alive /\ RunStep)
    /\ WF_vars(Alive /\ CloseStep)
    /\ \A c \in Conns : WF_vars(Alive /\ HandlerStep(c))

FairSpec == Spec /\ Fairness

-----------------------------------------------------------------------------
(* What gracefulListener is for: once Close has walked the table, nothing  *)
(* is served any more on an accepted connection.  A connection between     *)
(* Accept and its entry in the table ends the process instead.             *)
NoneOutlivesClose ==
    connsNil /\ Alive => \A c \in Conns : conn[c] = "open" => c = accepted

(* A request's context is the one of its session: cancelled as soon as the *)
(* disconnect handlers have run, also for a request that comes to take it  *)
(* only after the session has ended.                                       *)
ContextOfSession ==
    \A c \in Conns :
        /\ request[c] # "background"
        /\ request[c] = "context" /\ handler[c] \in {"kite", "close", "done"} => ctx[c] = "cancelled"

Drained ==
    /\ closed /\ run = "returned" /\ conns = {}
    /\ \A c \in Conns : handler[c] \in {"none", "done"}
    /\ \A c \in Conns : "connect" \in notified[c] => "disconnect" \in notified[c]

(* A Close that walks the table while Accept holds no connection ends Run, *)
(* which closes k.closeC, and every session whose connect handlers ran     *)
(* gets its disconnect handlers.                                           *)
CloseDrains == connsNil /\ run # "record" /\ Alive ~> Drained

-----------------------------------------------------------------------------
(* What comments promise and the code does not keep. *)

(* Close stops the server and closes all accepted connections, so that no  *)
(* session outlives the kite (server.go:40, 161-162).  Not when it finds   *)
(* Accept holding a connection: recording that one panics.                 *)
CloseAlwaysDrains == connsNil ~> Drained
=============================================================================
