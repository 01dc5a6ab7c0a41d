---------------------------- MODULE TokenRenewer ----------------------------
(***************************************************************************)
(* What a client runs on connect and on disconnect: setContext and         *)
(* closeContext (client.go) and the token renewer (tokenrenewer.go).  The  *)
(* handlers run under the read lock of c.m, which setSession takes for     *)
(* writing; a pending writer keeps new readers out (sync.RWMutex).         *)
(*                                                                         *)
(* Processes: the dialForever/run chain; the goroutine that runs the       *)
(* connect handlers of the s-th dial; the renewLoop it starts; AfterFunc   *)
(* timers; the calls the remote kite refuses because the token expired;    *)
(* the remote kite's requests; Close.  Both signals of the renewer are     *)
(* sent without blocking: they meet a loop that is selecting or are lost.  *)
(***************************************************************************)
EXTENDS Naturals, FiniteSets

CONSTANTS
    MaxDials,    \* bound: successful dials
    Requests     \* the requests the remote kite makes

ASSUME RenewerAssumption == MaxDials \in Nat \ {0}

VARIABLES
    chain,       \* where the dialForever/run chain is
    session,     \* c.session: 0 is nil, s the session of the s-th dial
    broken,      \* the session has been lost or closed
    Reconnect,   \* c.Reconnect
    closing,     \* how far Close has got
    readers,     \* who runs handlers under c.m.RLock
    ctx,         \* c.ctx: 0 is context.Background, s what dial s's handler set
    cancelled,   \* the contexts that have been cancelled
    connect,     \* the connect-handler goroutine of every dial
    loop,        \* the renewLoop every connect-handler goroutine starts
    armed,       \* some AfterFunc has yet to send its renew signal
    token,       \* the token in c.Auth.Key
    context,     \* the session and the context of every request
    late         \* history: connect handlers have run under a later session

connVars == <<chain, session, broken, Reconnect, closing>>
ctxVars == <<ctx, cancelled, context, late>>
renewVars == <<loop, armed, token>>
vars == <<connVars, readers, ctxVars, connect, renewVars>>

Dials == 1..MaxDials

TypeOK ==
    /\ chain \in {"dial", "setSession", "read", "disconnect", "signal", "ended"}
    /\ session \in 0..MaxDials
    /\ broken \in BOOLEAN
    /\ Reconnect \in BOOLEAN
    /\ closing \in {"open", "session", "closed"}
    /\ readers \subseteq {<<0, "chain">>} \cup (Dials \X {"connect", "loop"})
    /\ ctx \in 0..MaxDials
    /\ cancelled \subseteq 0..MaxDials
    /\ connect \in [Dials -> {"none", "start", "renew", "wait", "done"}]
    /\ loop \in [Dials -> {"none", "start", "select", "renewing", "notify",
                           "handlers", "sleep", "exited"}]
    /\ armed \in BOOLEAN
    /\ token \in {"fresh", "expired"}
    /\ context \in [Requests -> [session : 0..MaxDials, ctx : 0..MaxDials]]
    /\ late \in BOOLEAN

(* NewClient, then NewTokenRenewer and RenewWhenExpires (GetKites); the    *)
(* owner then calls DialForever.  c.cancel starts as a function that does  *)
(* nothing, so Background is never cancelled.                              *)
Init ==
    /\ chain = "dial" /\ session = 0 /\ broken = FALSE
    /\ Reconnect = TRUE /\ closing = "open"
    /\ readers = {}
    /\ ctx = 0 /\ cancelled = {}
    /\ connect = [s \in Dials |-> "none"]
    /\ loop = [s \in Dials |-> "none"]
    /\ armed = FALSE
    /\ token \in {"fresh", "expired"}
    /\ context = [r \in Requests |-> [session |-> 0, ctx |-> 0]]
    /\ late = FALSE

(* c.m: a reader gets in unless setSession holds or waits for the lock. *)
CanRLock == chain # "setSession"

(* The loops of the wait group: Add is the loop's own first statement. *)
Counted == {s \in Dials : loop[s] \notin {"none", "start", "exited"}}

Selecting == {s \in Dials : loop[s] = "select"}

(* A non-blocking send on t.disconnect. *)
SendDisconnectSignal ==
    \/ \E s \in Selecting : loop' = [loop EXCEPT ![s] = "exited"]
    \/ Selecting = {} /\ UNCHANGED loop

-----------------------------------------------------------------------------
(* The chain: dial, readLoop, the disconnect handlers, dial again. *)

DialSucceeds ==
    /\ chain = "dial" /\ Reconnect /\ session < MaxDials
    /\ chain' = "setSession"
    /\ UNCHANGED <<session, broken, Reconnect, closing, readers, ctxVars,
                   connect, renewVars>>

(* After Close the dial function returns nil without dialing, and run      *)
(* reads from the session of before.                                       *)
DialSkipped ==
    /\ chain = "dial" /\ ~Reconnect
    /\ chain' = "disconnect"
    /\ UNCHANGED <<session, broken, Reconnect, closing, readers, ctxVars,
                   connect, renewVars>>

(* c.m.Lock, the assignment, Unlock; then the handlers get a goroutine. *)
SetSession ==
    /\ chain = "setSession" /\ readers = {}
    /\ session' = session + 1 /\ broken' = FALSE
    /\ connect' = [connect EXCEPT ![session + 1] = "start"]
    /\ chain' = "read"
    /\ UNCHANGED <<Reconnect, closing, readers, ctxVars, renewVars>>

Break ==
    /\ chain = "read" /\ ~broken
    /\ broken' = TRUE
    /\ UNCHANGED <<chain, session, Reconnect, closing, readers, ctxVars,
                   connect, renewVars>>

ReadLoopEnds ==
    /\ chain = "read" /\ broken
    /\ chain' = "disconnect"
    /\ UNCHANGED <<session, broken, Reconnect, closing, readers, ctxVars,
                   connect, renewVars>>

(* Mutant: the disconnect handlers leave the context alone. *)
KeepContext ==
    /\ chain = "disconnect"
    /\ readers' = readers \cup {<<0, "chain">>}
    /\ chain' = "signal"
    /\ UNCHANGED <<session, broken, Reconnect, closing, ctxVars, connect,
                   renewVars>>

(* callOnDisconnectHandlers, the first handler. *)
CloseContext ==
    /\ chain = "disconnect"
    /\ readers' = readers \cup {<<0, "chain">>}
    /\ cancelled' = cancelled \cup ({ctx} \ {0})
    /\ chain' = "signal"
    /\ UNCHANGED <<session, broken, Reconnect, closing, ctx, context, late,
                   connect, renewVars>>

(* callOnDisconnectHandlers, the renewer's handler; then the chain dials   *)
(* again or ends.                                                          *)
SignalDisconnect ==
    /\ chain = "signal"
    /\ SendDisconnectSignal
    /\ readers' = readers \ {<<0, "chain">>}
    /\ chain' = IF Reconnect THEN "dial" ELSE "ended"
    /\ UNCHANGED <<session, broken, Reconnect, closing, ctxVars, connect,
                   armed, token>>

-----------------------------------------------------------------------------
(* The goroutine of callOnConnectHandlers of the s-th dial. *)

SetContext(s) ==
    /\ connect[s] = "start" /\ CanRLock
    /\ readers' = readers \cup {<<s, "connect">>}
    /\ ctx' = s /\ late' = (late \/ s < session)
    /\ connect' = [connect EXCEPT ![s] = "renew"]
    /\ UNCHANGED <<connVars, cancelled, context, renewVars>>

StopPreviousLoop(s) ==
    /\ connect[s] = "renew"
    /\ SendDisconnectSignal
    /\ connect' = [connect EXCEPT ![s] = "wait"]
    /\ UNCHANGED <<connVars, readers, ctxVars, armed, token>>

(* Mutant: the new loop is started, then the old one is told to stop. *)
StartLoopFirst(s) ==
    /\ connect[s] = "wait" /\ Counted = {}
    /\ loop' = [loop EXCEPT ![s] = "exited"]
    /\ connect' = [connect EXCEPT ![s] = "done"]
    /\ readers' = readers \ {<<s, "connect">>}
    /\ UNCHANGED <<connVars, ctxVars, armed, token>>

(* renewLoopWG.Wait, then go t.renewLoop(). *)
StartLoop(s) ==
    /\ connect[s] = "wait" /\ Counted = {}
    /\ loop' = [loop EXCEPT ![s] = "start"]
    /\ connect' = [connect EXCEPT ![s] = "done"]
    /\ readers' = readers \ {<<s, "connect">>}
    /\ UNCHANGED <<connVars, ctxVars, armed, token>>

-----------------------------------------------------------------------------
(* renewLoop. *)

LoopStep(s, from, to) == loop[s] = from /\ loop' = [loop EXCEPT ![s] = to]

LoopStarts(s) ==
    /\ LoopStep(s, "start", "select")
    /\ armed' = TRUE
    /\ UNCHANGED <<connVars, readers, ctxVars, connect, token>>

(* An AfterFunc: others may still be pending once this one has fired. *)
TimerFires ==
    /\ armed
    /\ armed' \in BOOLEAN
    /\ \/ \E s \in Selecting : loop' = [loop EXCEPT ![s] = "renewing"]
       \/ Selecting = {} /\ UNCHANGED loop
    /\ UNCHANGED <<connVars, readers, ctxVars, connect, token>>

(* Mutant: the expire handler is not installed. *)
NoTokenExpireHandler(s) == FALSE /\ UNCHANGED vars

(* callOnTokenExpireHandlers: a call answered "token is expired". *)
TokenExpireSignal(s) ==
    /\ token = "expired" /\ chain = "read" /\ ~broken /\ CanRLock
    /\ LoopStep(s, "select", "renewing")
    /\ UNCHANGED <<connVars, readers, ctxVars, connect, armed, token>>

TokenExpires ==
    /\ token = "fresh"
    /\ token' = "expired"
    /\ UNCHANGED <<connVars, readers, ctxVars, connect, loop, armed>>

(* renewToken: GetToken and parse succeed, c.Auth.Key is set. *)
RenewSucceeds(s) ==
    /\ LoopStep(s, "renewing", "notify")
    /\ token' = "fresh"
    /\ UNCHANGED <<connVars, readers, ctxVars, connect, armed>>

(* callOnTokenRenewHandlers. *)
NotifyLocks(s) ==
    /\ CanRLock
    /\ LoopStep(s, "notify", "handlers")
    /\ readers' = readers \cup {<<s, "loop">>}
    /\ UNCHANGED <<connVars, ctxVars, connect, armed, token>>

NotifyReturns(s) ==
    /\ LoopStep(s, "handlers", "select")
    /\ readers' = readers \ {<<s, "loop">>}
    /\ armed' = TRUE
    /\ UNCHANGED <<connVars, ctxVars, connect, token>>

(* GetToken found no kite: no further timer. *)
RenewFindsNoKite(s) ==
    /\ LoopStep(s, "renewing", "select")
    /\ UNCHANGED <<connVars, readers, ctxVars, connect, armed, token>>

RenewFails(s) ==
    /\ LoopStep(s, "renewing", "sleep")
    /\ UNCHANGED <<connVars, readers, ctxVars, connect, armed, token>>

RetryLater(s) ==
    /\ LoopStep(s, "sleep", "select")
    /\ armed' = TRUE
    /\ UNCHANGED <<connVars, readers, ctxVars, connect, token>>

-----------------------------------------------------------------------------
(* newRequest: the context of the request is c.ctx at that moment. *)
Request(r) ==
    /\ chain = "read" /\ ~broken /\ context[r].session = 0
    /\ context' = [context EXCEPT ![r] = [session |-> session, ctx |-> ctx]]
    /\ UNCHANGED <<connVars, readers, ctx, cancelled, late, connect, renewVars>>

(* Close up to c.wg.Wait, and from there on. *)
Close ==
    /\ closing = "open"
    /\ closing' = "session" /\ Reconnect' = FALSE
    /\ SendDisconnectSignal
    /\ UNCHANGED <<chain, session, broken, readers, ctxVars, connect, armed,
                   token>>

CloseSession ==
    /\ closing = "session" /\ CanRLock
    /\ closing' = "closed"
    /\ broken' = (broken \/ session # 0)
    /\ UNCHANGED <<chain, session, Reconnect, readers, ctxVars, connect,
                   renewVars>>

-----------------------------------------------------------------------------
Chain == DialSucceeds \/ DialSkipped \/ SetSession \/ ReadLoopEnds
            \/ CloseContext \/ SignalDisconnect

Handler(s) == SetContext(s) \/ StopPreviousLoop(s) \/ StartLoop(s)

Loop(s) == LoopStarts(s) \/ NotifyLocks(s) \/ NotifyReturns(s) \/ RetryLater(s)

Answer(s) == RenewSucceeds(s) \/ RenewFindsNoKite(s) \/ RenewFails(s)

Next ==
    \/ Chain \/ Break
    \/ \E s \in Dials : Handler(s) \/ Loop(s) \/ Answer(s) \/ TokenExpireSignal(s)
    \/ TimerFires \/ TokenExpires
    \/ \E r \in Requests : Request(r)
    \/ Close \/ CloseSession

Spec == Init /\ [][Next]_vars

(* Goroutines are scheduled; GetToken returns, and does not fail for ever; *)
(* a client in use keeps making calls, so an expired token is noticed.     *)
Fairness ==
    /\ WF_vars(Chain) /\ WF_vars(CloseSession)
    /\ \A s \in Dials :
        /\ WF_vars(Handler(s)) /\ WF_vars(Loop(s)) /\ WF_vars(Answer(s))
        /\ SF_vars(RenewSucceeds(s))
        /\ WF_vars(TokenExpireSignal(s))

FairSpec == Spec /\ Fairness

-----------------------------------------------------------------------------
(* Whenever no connect handler is at work on a connection, some renewLoop  *)
(* is there to renew its token: no order of the signals that end the loops *)
(* of earlier connections leaves this one without.  (Close ends the loop.) *)
LoopServes ==
    /\ chain = "read" /\ closing = "open"
    /\ \A s \in Dials : connect[s] \in {"none", "done"}
    => \E s \in Dials : loop[s] \notin {"none", "exited"}

(* A request that found the context of its own session keeps it while the  *)
(* session lasts, and sees it cancelled once the session has ended unless  *)
(* some connect-handler goroutine only ran after the next connection had   *)
(* been made: that one replaces the context of the newer session, which    *)
(* nobody cancels then.  Nothing is said of a request that came before its *)
(* session's connect handler had run, and has an earlier context.          *)
ContextFollowsSession ==
    \A r \in Requests :
        LET s == context[r].session
        IN  s # 0 /\ s = context[r].ctx =>
                /\ s = session /\ chain = "read" => s \notin cancelled
                /\ s < session \/ chain \notin {"read", "disconnect"}
                        => s \in cancelled \/ late

(* While the connection is up, an expired token is replaced, whatever      *)
(* signals have been lost.                                                 *)
TokenRenewed ==
    token = "expired" /\ chain = "read"
        ~> token = "fresh" \/ chain # "read" \/ broken

(* A dial that reached the remote kite is put to use: the chain does not   *)
(* wait for ever for a handler to let go of c.m.                           *)
DialCompletes == chain = "setSession" ~> chain # "setSession"
=============================================================================
