------------------------------- MODULE Client -------------------------------
(***************************************************************************)
(* The connection of a kite to a remote kite (client.go): the goroutine    *)
(* chain dialForever -> run -> dialForever that owns the SockJS session,   *)
(* one sendHub goroutine per successful dial, the callers of               *)
(* Go/Tell[WithTimeout] with the waiter goroutine each of them leaves      *)
(* behind, the response callbacks run by readLoop, and Close.  The owner's *)
(* connect and disconnect handlers are left out.                           *)
(*                                                                         *)
(* A call stands for one method call: its message, its response callback   *)
(* and its response channel.  The s-th successful dial yields session s    *)
(* and hub s.  The remote kite and the network are the environment: a      *)
(* session may break at any moment, a request may be served or not.        *)
(***************************************************************************)
EXTENDS Naturals, Sequences

CONSTANTS
    Calls,               \* the method calls made through the client
    TimedCalls,          \* the calls made with timeout > 0
    MaxDials,            \* bound: successful dials
    ConcurrentCallbacks, \* the field of that name
    None                 \* no call

ASSUME ConstantsAssumption ==
    /\ TimedCalls \subseteq Calls
    /\ MaxDials \in Nat \ {0}
    /\ ConcurrentCallbacks \in BOOLEAN
    /\ None \notin Calls

VARIABLES
    \* the connection
    Reconnect,      \* c.Reconnect
    session,        \* c.session: 0 is nil, s the session of the s-th dial
    sess,           \* the sessions: "none", "open", "broken" (by the network
                    \* or the peer) or "closed" (by session.Close)
    loop,           \* where the dialForever/run goroutine chain is
    hub,            \* the sendHub goroutine of every dial
    holds,          \* the message a hub is sending, and over which session
    interrupt,      \* c.interrupt, capacity 1: 0, or the session that failed
    closing,        \* how far Close has got
    \* the calls
    caller,         \* the goroutine in GoWithTimeout
    waiter,         \* the goroutine sendMethod starts
    disconnect,     \* c.disconnect: "open" or "nil"
    selects,        \* the c.disconnect a waiter's select evaluated
    disconnectMu,   \* who holds it: a waiter (by its call) or None
    resp,           \* what responseChan received
    doneChan, errC, timer,  \* calls whose doneChan/errC/afterTimeout is ready
    removeCallback, \* the channel of that name: "empty", "id" or "closed"
    callbacks,      \* response callbacks in the scrubber's map
    running,        \* response callbacks being run
    \* the remote kite
    requests, responses, \* <<session, call>> in flight, each way
    served          \* how often the remote kite ran the method

linkVars == <<session, sess>>
hubVars == <<hub, holds, interrupt>>
connVars == <<Reconnect, loop, closing, linkVars, hubVars>>
goVars == <<caller, waiter, resp>>
lockVars == <<disconnect, selects, disconnectMu>>
chanVars == <<doneChan, errC, timer>>
cbVars == <<removeCallback, callbacks, running>>
callVars == <<goVars, lockVars, chanVars, cbVars>>
peerVars == <<requests, responses, served>>
vars == <<connVars, callVars, peerVars>>

Sessions == 1..MaxDials

HubLive(h) == hub[h] \in {"select", "taken", "sending"}

(***************************************************************************)
(* The path of the response callback in the message: Scrub walks the       *)
(* argument slice, so the first component is the int index 0 of the        *)
(* options, the second the field name.                                     *)
(***************************************************************************)
ResponseCallbackPath ==
    <<[kind |-> "int", value |-> "0"],
      [kind |-> "string", value |-> "responseCallback"]>>

(* Mutant: the components' kinds are ignored, so the callback is found. *)
AnyKindIsResponseCallback(path) ==
    Len(path) = 2 /\ path[1].value = "0" /\ path[2].value = "responseCallback"

(* sendCallbackID's test: both components must be Go strings. *)
IsResponseCallback(path) ==
    /\ Len(path) = 2
    /\ \A i \in 1..2 : path[i].kind = "string"
    /\ path[1].value = "0"
    /\ path[2].value = "responseCallback"

-----------------------------------------------------------------------------
TypeOK ==
    /\ Reconnect \in BOOLEAN
    /\ session \in 0..MaxDials
    /\ sess \in [Sessions -> {"none", "open", "broken", "closed"}]
    /\ loop \in {"idle", "dialOnce", "dial", "dialing", "spawn", "read",
                 "signal", "check", "remake", "ended"}
    /\ hub \in [Sessions -> {"none", "select", "taken", "sending", "exited"}]
    /\ holds \in [Sessions -> [msg : Calls \cup {None}, to : 0..MaxDials]]
    /\ interrupt \in 0..MaxDials
    /\ closing \in {"open", "wait", "session", "closed"}
    /\ caller \in [Calls -> {"idle", "sending", "sent", "returned"}]
    /\ waiter \in [Calls -> {"none", "lock", "select", "remove", "done"}]
    /\ disconnect \in {"open", "nil"}
    /\ selects \in [Calls -> {"open", "nil", "closed"}]
    /\ disconnectMu \in Calls \cup {None}
    /\ resp \in [Calls -> {"none", "result", "sendError", "timeout",
                           "disconnect"}]
    /\ doneChan \subseteq Calls
    /\ errC \subseteq Calls
    /\ timer \subseteq TimedCalls
    /\ removeCallback \in [Calls -> {"empty", "id", "closed"}]
    /\ callbacks \subseteq Calls
    /\ running \subseteq Calls
    /\ requests \subseteq Sessions \X Calls
    /\ responses \subseteq Sessions \X Calls
    /\ served \in [Calls -> Nat]

(* NewClient; c.Reconnect is a public field the owner may set. *)
Init ==
    /\ Reconnect \in BOOLEAN
    /\ session = 0
    /\ sess = [s \in Sessions |-> "none"]
    /\ loop = "idle"
    /\ hub = [s \in Sessions |-> "none"]
    /\ holds = [s \in Sessions |-> [msg |-> None, to |-> 0]]
    /\ interrupt = 0
    /\ closing = "open"
    /\ caller = [c \in Calls |-> "idle"]
    /\ waiter = [c \in Calls |-> "none"]
    /\ disconnect = "open"
    /\ selects = [c \in Calls |-> "nil"]
    /\ disconnectMu = None
    /\ resp = [c \in Calls |-> "none"]
    /\ doneChan = {}
    /\ errC = {}
    /\ timer = {}
    /\ removeCallback = [c \in Calls |-> "empty"]
    /\ callbacks = {}
    /\ running = {}
    /\ requests = {}
    /\ responses = {}
    /\ served = [c \in Calls |-> 0]

-----------------------------------------------------------------------------
(***************************************************************************)
(* Dialing.                                                                *)
(***************************************************************************)
loopOnly == <<Reconnect, closing, callVars, linkVars, hubVars,
              peerVars>>

(* DialTimeout: one attempt; its owner may try again. *)
Dial == loop = "idle" /\ loop' = "dialOnce" /\ UNCHANGED loopOnly

DialForever ==
    /\ loop = "idle"
    /\ loop' = "dial"
    /\ Reconnect' = TRUE
    /\ UNCHANGED <<closing, callVars, linkVars, hubVars, peerVars>>

(* The closure dial in dialForever: when Reconnect was reset meanwhile it  *)
(* reports success and run starts on whatever session there is.            *)
CheckReconnect ==
    /\ loop = "dial"
    /\ loop' = IF Reconnect THEN "dialing" ELSE "read"
    /\ UNCHANGED loopOnly

DialFails ==
    /\ loop \in {"dialOnce", "dialing"}
    /\ loop' = IF loop = "dialOnce" THEN "idle" ELSE "dial"
    /\ UNCHANGED loopOnly

(* dial: the session is established and setSession publishes it... *)
DialSucceeds ==
    /\ loop \in {"dialOnce", "dialing"}
    /\ session < MaxDials
    /\ session' = session + 1
    /\ sess' = [sess EXCEPT ![session + 1] = "open"]
    /\ loop' = "spawn"
    /\ UNCHANGED <<Reconnect, closing, callVars, hubVars, peerVars>>

(* ... then the hub, the connect handlers and run get their goroutines. *)
StartHub ==
    /\ loop = "spawn"
    /\ hub' = [hub EXCEPT ![session] = "select"]
    /\ loop' = "read"
    /\ UNCHANGED <<Reconnect, closing, callVars, linkVars, peerVars, holds,
                   interrupt>>

-----------------------------------------------------------------------------
(***************************************************************************)
(* run and readLoop.                                                       *)
(***************************************************************************)

(* readLoop is between two messages: a callback that is not run in its own *)
(* goroutine keeps it.                                                     *)
Receiving ==
    /\ loop = "read"
    /\ ConcurrentCallbacks \/ running = {}

(* A response arrives; without its callback it is dropped. *)
Recv(c) ==
    /\ Receiving
    /\ session # 0 /\ sess[session] # "closed"
    /\ <<session, c>> \in responses
    /\ responses' = responses \ {<<session, c>>}
    /\ running' = IF c \in callbacks THEN running \cup {c} ELSE running
    /\ UNCHANGED <<connVars, lockVars, chanVars, goVars, removeCallback,
                   callbacks, requests, served>>

(* The session is nil or gone: Recv returns an error. *)
RecvFails ==
    /\ Receiving
    /\ session # 0 => sess[session] # "open"
    /\ loop' = "signal"
    /\ UNCHANGED loopOnly

(* receiveData's other case: some hub reported a failed session. *)
Interrupted ==
    /\ Receiving
    /\ session # 0
    /\ interrupt # 0
    /\ interrupt' = 0
    /\ loop' = "signal"
    /\ UNCHANGED <<Reconnect, closing, callVars, linkVars,
                   peerVars, hub, holds>>

(* run closes c.disconnect and forgets it, under disconnectMu. *)
SignalDisconnect ==
    /\ loop = "signal"
    /\ disconnectMu = None
    /\ disconnect' = "nil"
    /\ selects' = [c \in Calls |->
                     IF disconnect = "open" /\ selects[c] = "open"
                     THEN "closed" ELSE selects[c]]
    /\ loop' = "check"
    /\ UNCHANGED <<Reconnect, closing, linkVars, hubVars, chanVars,
                   cbVars, goVars, peerVars, disconnectMu>>

CheckRedial ==
    /\ loop = "check"
    /\ loop' = IF Reconnect THEN "remake" ELSE "ended"
    /\ UNCHANGED loopOnly

(* run makes a fresh c.disconnect and hands over to dialForever. *)
Redial ==
    /\ loop = "remake"
    /\ disconnectMu = None
    /\ disconnect' = "open"
    /\ loop' = "dial"
    /\ UNCHANGED <<Reconnect, closing, linkVars, hubVars, chanVars,
                   cbVars, goVars, peerVars, selects, disconnectMu>>

-----------------------------------------------------------------------------
(***************************************************************************)
(* sendHub.  c.send is unbuffered, so taking a message and the sender's    *)
(* return from marshalAndSend are one step; the caller then starts its     *)
(* waiter.  The hub asks for the session after that, so that a redial in   *)
(* between is the one it sends over.  A hub only lives once there is a     *)
(* session, and setSession never takes it back: "not connected" is dead.   *)
(***************************************************************************)
HubReceives(h, c) ==
    /\ hub[h] = "select"
    /\ caller[c] = "sending"
    /\ hub' = [hub EXCEPT ![h] = "taken"]
    /\ holds' = [holds EXCEPT ![h] = [msg |-> c, to |-> 0]]
    /\ caller' = [caller EXCEPT ![c] = "sent"]
    /\ waiter' = [waiter EXCEPT ![c] = "lock"]
    /\ UNCHANGED <<Reconnect, loop, closing, linkVars, lockVars,
                   chanVars, cbVars, peerVars, interrupt, resp>>

(* getSession. *)
HubGetsSession(h) ==
    /\ hub[h] = "taken"
    /\ hub' = [hub EXCEPT ![h] = "sending"]
    /\ holds' = [holds EXCEPT ![h] = [msg |-> @.msg, to |-> session]]
    /\ UNCHANGED <<Reconnect, loop, closing, callVars, linkVars, peerVars,
                   interrupt>>

idleHub == [msg |-> None, to |-> 0]

(* Mutant: the hub does not let go of a message it has sent. *)
HubSendsAgain(h) ==
    /\ hub[h] = "sending"
    /\ sess[holds[h].to] \in {"open", "broken"}
    /\ requests' = IF sess[holds[h].to] = "open"
                   THEN requests \cup {<<holds[h].to, holds[h].msg>>}
                   ELSE requests
    /\ UNCHANGED <<connVars, callVars, responses, served>>

(* Send returns nil; over a broken session the message is lost. *)
HubSends(h) ==
    /\ hub[h] = "sending"
    /\ sess[holds[h].to] \in {"open", "broken"}
    /\ requests' = IF sess[holds[h].to] = "open"
                   THEN requests \cup {<<holds[h].to, holds[h].msg>>}
                   ELSE requests
    /\ hub' = [hub EXCEPT ![h] = "select"]
    /\ holds' = [holds EXCEPT ![h] = idleHub]
    /\ UNCHANGED <<Reconnect, loop, closing, callVars, linkVars,
                   interrupt, responses, served>>

(* Send fails with an error IsSessionClosed does not know (a plain network *)
(* error, also of a session that is fine): the caller is told, the hub     *)
(* carries on.  An XHR request may have been delivered all the same.       *)
HubSendFails(h) ==
    /\ hub[h] = "sending"
    /\ errC' = errC \cup {holds[h].msg}
    /\ \/ requests' = requests
       \/ /\ sess[holds[h].to] = "open"
          /\ requests' = requests \cup {<<holds[h].to, holds[h].msg>>}
    /\ hub' = [hub EXCEPT ![h] = "select"]
    /\ holds' = [holds EXCEPT ![h] = idleHub]
    /\ UNCHANGED <<Reconnect, loop, closing, linkVars, lockVars, cbVars, goVars,
                   responses, served, interrupt, doneChan, timer>>

(* Mutant: the hub ends without interrupting readLoop. *)
HubSessionClosedSilently(h) ==
    /\ hub[h] = "sending"
    /\ sess[holds[h].to] \in {"broken", "closed"}
    /\ errC' = errC \cup {holds[h].msg}
    /\ hub' = [hub EXCEPT ![h] = "exited"]
    /\ holds' = [holds EXCEPT ![h] = idleHub]
    /\ UNCHANGED <<Reconnect, loop, closing, goVars, linkVars, lockVars,
                   cbVars, peerVars, interrupt, doneChan, timer>>

(* Send fails because the session is closed: readLoop is interrupted       *)
(* unless an interrupt is already waiting for it, and the hub ends.        *)
HubSessionClosed(h) ==
    /\ hub[h] = "sending"
    /\ sess[holds[h].to] \in {"broken", "closed"}
    /\ errC' = errC \cup {holds[h].msg}
    /\ interrupt' = IF interrupt = 0 THEN holds[h].to ELSE interrupt
    /\ hub' = [hub EXCEPT ![h] = "exited"]
    /\ holds' = [holds EXCEPT ![h] = idleHub]
    /\ UNCHANGED <<Reconnect, loop, closing, linkVars, lockVars,
                   cbVars, goVars, peerVars, doneChan, timer>>

(* Mutant: Close closes closeChan after it waited for the hubs. *)
HubClosesLate(h) ==
    /\ hub[h] = "select"
    /\ closing \in {"session", "closed"}
    /\ hub' = [hub EXCEPT ![h] = "exited"]
    /\ UNCHANGED <<Reconnect, loop, closing, callVars, linkVars, peerVars,
                   holds, interrupt>>

(* closeChan is closed. *)
HubCloses(h) ==
    /\ hub[h] = "select"
    /\ closing # "open"
    /\ hub' = [hub EXCEPT ![h] = "exited"]
    /\ UNCHANGED <<Reconnect, loop, closing, callVars, linkVars,
                   peerVars, holds, interrupt>>

-----------------------------------------------------------------------------
(***************************************************************************)
(* Method calls: GoWithTimeout, sendMethod, marshalAndSend.                *)
(***************************************************************************)

(* marshalAndSend's test before it blocks on c.send. *)
CanSend == closing = "open" /\ session # 0

(* sendMethod: Scrub saves the response callback; then the call blocks on  *)
(* c.send, or, on a closed or unconnected client, the callback is removed  *)
(* again and the caller gets the error at once.                            *)
GoWithTimeout(c) ==
    /\ caller[c] = "idle"
    /\ \/ /\ ~CanSend
          /\ caller' = [caller EXCEPT ![c] = "returned"]
          /\ resp' = [resp EXCEPT ![c] = "sendError"]
          /\ callbacks' = callbacks
       \/ /\ CanSend
          /\ caller' = [caller EXCEPT ![c] = "sending"]
          /\ callbacks' = callbacks \cup {c}
          /\ resp' = resp
    /\ UNCHANGED <<connVars, lockVars, chanVars, peerVars, waiter,
                   removeCallback, running>>

(* The end of sendMethod: the id of the response callback is sent to       *)
(* removeCallback, or the channel is closed when none is found.            *)
SendCallbackID(c) ==
    /\ caller[c] = "sent"
    /\ removeCallback' = [removeCallback EXCEPT ![c] =
                            IF IsResponseCallback(ResponseCallbackPath)
                            THEN "id" ELSE "closed"]
    /\ caller' = [caller EXCEPT ![c] = "returned"]
    /\ UNCHANGED <<connVars, lockVars, chanVars, peerVars, waiter, resp,
                   callbacks, running>>

(* <-removeCallback: blocks on an empty channel, takes an id out, and      *)
(* removes the callback only if there was one.                             *)
TakeCallbackID(c) ==
    /\ removeCallback[c] # "empty"
    /\ removeCallback' = [removeCallback EXCEPT ![c] =
                            IF @ = "id" THEN "empty" ELSE @]
    /\ callbacks' = IF removeCallback[c] = "id" THEN callbacks \ {c}
                                                ELSE callbacks

(* The response callback, run for the response that arrived. *)
RunCallback(c) ==
    /\ c \in running
    /\ c \notin doneChan
    /\ TakeCallbackID(c)
    /\ doneChan' = doneChan \cup {c}
    /\ running' = running \ {c}
    /\ UNCHANGED <<connVars, lockVars, goVars, peerVars, errC, timer>>

(* time.After(timeout), armed before the waiter starts. *)
TimerFires(c) ==
    /\ c \in TimedCalls \ timer
    /\ waiter[c] \in {"lock", "select"}
    /\ timer' = timer \cup {c}
    /\ UNCHANGED <<connVars, lockVars, cbVars, goVars, peerVars, doneChan,
                   errC>>

(* The waiter locks disconnectMu, which it keeps to its end, and enters    *)
(* its select on the current c.disconnect.                                 *)
WaiterLocks(c) ==
    /\ waiter[c] = "lock"
    /\ disconnectMu = None
    /\ disconnectMu' = c
    /\ selects' = [selects EXCEPT ![c] = disconnect]
    /\ waiter' = [waiter EXCEPT ![c] = "select"]
    /\ UNCHANGED <<connVars, chanVars, cbVars, peerVars, caller, disconnect,
                   resp>>

(* The cases of the waiter's select that are ready, by the answer each     *)
(* gives the caller.                                                       *)
Ready(c) ==
    {r \in {"result", "disconnect", "sendError", "timeout"} :
        \/ r = "result" /\ c \in doneChan
        \/ r = "disconnect" /\ selects[c] = "closed"
        \/ r = "sendError" /\ c \in errC
        \/ r = "timeout" /\ c \in timer}

(* The waiter answers its caller and leaves the select; but for a timeout  *)
(* it then returns and unlocks.                                            *)
WaiterAnswers(c) ==
    /\ waiter[c] = "select"
    /\ \E r \in Ready(c) :
         /\ resp' = [resp EXCEPT ![c] = r]
         /\ waiter' = [waiter EXCEPT ![c] =
                         IF r = "timeout" THEN "remove" ELSE "done"]
         /\ disconnectMu' = IF r = "timeout" THEN disconnectMu ELSE None
         /\ doneChan' = IF r = "result" THEN doneChan \ {c} ELSE doneChan
         /\ errC' = IF r = "sendError" THEN errC \ {c} ELSE errC
    /\ selects' = [selects EXCEPT ![c] = "nil"]
    /\ timer' = timer \ {c}
    /\ UNCHANGED <<connVars, peerVars, cbVars, caller, disconnect>>

(* Mutant: the timeout case returns without unlocking. *)
WaiterRemovesLocked(c) ==
    /\ waiter[c] = "remove"
    /\ TakeCallbackID(c)
    /\ waiter' = [waiter EXCEPT ![c] = "done"]
    /\ UNCHANGED <<connVars, lockVars, chanVars, peerVars, caller, resp, running>>

(* After a timeout the waiter removes the callback before it unlocks. *)
WaiterRemoves(c) ==
    /\ waiter[c] = "remove"
    /\ TakeCallbackID(c)
    /\ waiter' = [waiter EXCEPT ![c] = "done"]
    /\ disconnectMu' = None
    /\ UNCHANGED <<connVars, chanVars, peerVars, caller, disconnect,
                   selects, resp, running>>

-----------------------------------------------------------------------------
(***************************************************************************)
(* Close.                                                                  *)
(***************************************************************************)
Close ==
    /\ closing = "open"
    /\ closing' = "wait"
    /\ Reconnect' = FALSE
    /\ UNCHANGED <<loop, callVars, linkVars, hubVars, peerVars>>

(* c.wg.Wait(): no hub is left. *)
CloseWaits ==
    /\ closing = "wait"
    /\ \A h \in Sessions : ~HubLive(h)
    /\ closing' = "session"
    /\ UNCHANGED <<Reconnect, loop, callVars, linkVars, hubVars,
                   peerVars>>

CloseSession ==
    /\ closing = "session"
    /\ closing' = "closed"
    /\ sess' = [s \in Sessions |-> IF s = session THEN "closed" ELSE sess[s]]
    /\ UNCHANGED <<Reconnect, loop, callVars, hubVars, peerVars,
                   session>>

-----------------------------------------------------------------------------
(***************************************************************************)
(* The network (external) and the remote kite (request.go, at the other    *)
(* end), of which only that it runs a method and answers it is kept.       *)
(***************************************************************************)
SessionBreaks(s) ==
    /\ sess[s] = "open"
    /\ sess' = [sess EXCEPT ![s] = "broken"]
    /\ UNCHANGED <<Reconnect, loop, closing, callVars, hubVars,
                   peerVars, session>>

(* The remote kite runs the method and calls the response callback. *)
Serve(s, c) ==
    /\ <<s, c>> \in requests
    /\ requests' = requests \ {<<s, c>>}
    /\ served' = [served EXCEPT ![c] = @ + 1]
    /\ responses' = IF sess[s] = "open" THEN responses \cup {<<s, c>>}
                                        ELSE responses
    /\ UNCHANGED <<connVars, callVars>>

-----------------------------------------------------------------------------
LoopStep ==
    \/ CheckReconnect
    \/ StartHub
    \/ \E c \in Calls : Recv(c)
    \/ RecvFails
    \/ Interrupted
    \/ SignalDisconnect
    \/ CheckRedial
    \/ Redial

HubStep(h) ==
    \/ \E c \in Calls : HubReceives(h, c)
    \/ HubGetsSession(h)
    \/ HubSends(h)
    \/ HubSendFails(h)
    \/ HubSessionClosed(h)
    \/ HubCloses(h)

CallStep(c) ==
    \/ SendCallbackID(c)
    \/ RunCallback(c)
    \/ TimerFires(c)
    \/ WaiterLocks(c)
    \/ WaiterAnswers(c)
    \/ WaiterRemoves(c)

CloseStep == CloseWaits \/ CloseSession

Owner ==
    \/ Dial
    \/ DialForever
    \/ Close
    \/ \E c \in Calls : GoWithTimeout(c)

Environment ==
    \/ DialFails
    \/ DialSucceeds
    \/ \E s \in Sessions : SessionBreaks(s)
    \/ \E s \in Sessions, c \in Calls : Serve(s, c)

Next ==
    \/ Owner
    \/ Environment
    \/ LoopStep
    \/ \E h \in Sessions : HubStep(h)
    \/ \E c \in Calls : CallStep(c)
    \/ CloseStep

Spec == Init /\ [][Next]_vars

(***************************************************************************)
(* Fairness: the Go scheduler runs every goroutine that can take a step,   *)
(* and sync.Mutex does not starve a waiter (strong fairness on lock        *)
(* acquisitions).  Dialing succeeds again and again, as the remote kite    *)
(* comes back; nothing is assumed of the remote kite's answers.            *)
(***************************************************************************)
Fairness ==
    /\ WF_vars(LoopStep)
    /\ SF_vars(SignalDisconnect)
    /\ SF_vars(Redial)
    /\ SF_vars(DialSucceeds)
    /\ WF_vars(DialFails \/ DialSucceeds)
    /\ \A h \in Sessions : WF_vars(HubStep(h))
    /\ \A c \in Calls :
         /\ WF_vars(SendCallbackID(c))
         /\ WF_vars(RunCallback(c))
         /\ WF_vars(TimerFires(c))
         /\ SF_vars(WaiterLocks(c))
         /\ WF_vars(WaiterAnswers(c) \/ WaiterRemoves(c))
    /\ WF_vars(CloseStep)

FairSpec == Spec /\ Fairness

-----------------------------------------------------------------------------
(***************************************************************************)
(* Safety.                                                                 *)
(***************************************************************************)

(* While readLoop serves an unclosed client somebody still takes messages  *)
(* off c.send, or readLoop is about to learn of the failure and redial: a  *)
(* sendHub that ends on a closed session never leaves readLoop waiting on  *)
(* a client on which every later call would block (client.go:584-602).     *)
NoDeafReader ==
    loop = "read" /\ closing = "open" =>
        interrupt # 0 \/ \E h \in Sessions : HubLive(h)

(* A waiter's select and run never see different disconnect channels:      *)
(* disconnectMu "protects disconnect chan" (client.go:105).                *)
SelectSeesCurrent ==
    \A c \in Calls : waiter[c] = "select" => selects[c] = disconnect

(* Redials and send errors never make the remote kite run a method twice,  *)
(* and a result is only reported for a method it ran.                      *)
AtMostOnce ==
    \A c \in Calls : served[c] <= 1 /\ (resp[c] = "result" => served[c] = 1)

(* What has become of a call, as its caller sees it. *)
CallState ==
    [c \in Calls |->
        CASE caller[c] = "idle" -> "idle"
          [] caller[c] # "idle" /\ resp[c] = "none" -> "made"
          [] caller[c] # "idle" /\ resp[c] = "result" -> "result"
          [] OTHER -> IF waiter[c] = "none" THEN "refused" ELSE "failed"]

(* Redials, send errors, timeouts and late responses keep the promise:     *)
(* every call is answered at most once and run at most once, and one that  *)
(* was refused never runs (client.go:666-830).                             *)
Promise == INSTANCE MethodCall WITH call <- CallState, runs <- served
ImplementsMethodCall == Promise!Spec

(***************************************************************************)
(* Liveness.                                                               *)
(***************************************************************************)

(* A client with Reconnect set replaces a broken session by a new one.     *)
RedialsBroken ==
    \A s \in Sessions :
        session = s /\ sess[s] = "broken" /\ Reconnect
            ~> session > s \/ closing # "open" \/ session = MaxDials

(* A response callback never blocks readLoop for good: neither on          *)
(* removeCallback, which a timed out waiter reads too, nor on doneChan.    *)
CallbacksFinish == \A c \in Calls : c \in running ~> c \notin running

(* Close returns, and every sendHub ends for good. *)
CloseReturns ==
    closing = "wait" ~> closing = "closed" /\ \A h \in Sessions : ~HubLive(h)

(***************************************************************************)
(* What the comments of client.go promise and the code does not keep.      *)
(***************************************************************************)

Connected == \E s \in Sessions : sess[s] = "open"

(* "Waits until the response has came or the connection has disconnected"  *)
(* (client.go:784): a call pending when its connection broke is answered.  *)
PendingAnswered ==
    \A c \in Calls :
        waiter[c] # "none" /\ ~Connected ~>
            resp[c] # "none" \/ Connected \/ closing # "open"

(* Why it is not: no call is ever answered with the disconnect error,      *)
(* since run closes the channel only while no waiter selects on it         *)
(* (client.go:398-403, 784-798).                                           *)
NoDisconnectAnswer == \A c \in Calls : resp[c] # "disconnect"

(* The timeout is "for waiting reply from the remote Kite" (client.go:725):*)
(* a call with one is answered.  But its waiter only looks at the timer    *)
(* once it has disconnectMu, which the waiter of a call without a timeout  *)
(* may keep for good (client.go:784-798).                                  *)
TimedCallsAnswered ==
    \A c \in TimedCalls : waiter[c] = "lock" ~> resp[c] # "none"

(* "can't send, client is closed" (client.go:867): Close does not leave a  *)
(* call behind.  But closeChan is only looked at before the message is     *)
(* sent to c.send, not while the call waits there (client.go:865-880).     *)
SendersFreed ==
    \A c \in Calls : caller[c] = "sending" ~> caller[c] # "sending"

(* "falls here when connection disconnects" (client.go:394): readLoop only *)
(* gives up a session that is down.                                        *)
OnlyDeadAbandoned ==
    [][loop = "read" /\ loop' # "read" /\ session # 0
         => sess[session] # "open"]_vars
=============================================================================
