--------------------------- MODULE RegisterForever ---------------------------
(***************************************************************************)
(* The kite's side of a dnode registration (kontrolclient.go): the         *)
(* goroutine of RegisterForever, which registers the URLs it receives from *)
(* registerChan one after the other and schedules a retry when that fails, *)
(* and the connect handler of the kontrol client, which puts the last URL  *)
(* into the channel again.  The sends of both are non-blocking.            *)
(*                                                                         *)
(* Kontrol is reduced to what a registration leaves there: over which      *)
(* session it was made.  A session that broke takes requests and answers   *)
(* with it, and kontrol forgets its registrations when they get no more    *)
(* heartbeats (module KontrolDnode).                                       *)
(***************************************************************************)
EXTENDS Naturals

CONSTANTS
    URLs, None,
    MaxSessions,     \* bound: sessions the kontrol client dials
    MaxFailures      \* bound: registrations that fail over a live session

ASSUME BoundsAssumption ==
    /\ None \notin URLs
    /\ MaxSessions \in Nat \ {0} /\ MaxFailures \in Nat

VARIABLES
    offers,          \* URLs the owner has not yet put into registerChan
    registerChan,    \* its one element, or None
    loop,            \* where the goroutine is: at its receive, in Register
                     \* before or after sending the request ("ready", "tell"),
                     \* or back from a successful one ("note")
    u,               \* the URL it is at
    via,             \* the session its request went over
    answered,        \* kontrol has answered the request
    retries,         \* running retry timers of every URL
    lastRegisteredURL,
    readyRegistered, \* the channel of KontrolReadyNotify is closed
    readyConnected,  \* the first connect handler has run
    session, up,     \* the latest session, and whether it works
    handlers,        \* sessions whose connect handler has not run yet
    registered,      \* the latest session kontrol has a registration of
    failures

loopVars == <<loop, u, via, answered>>
connVars == <<session, up>>
vars == <<offers, registerChan, loopVars, retries, lastRegisteredURL,
          readyRegistered, readyConnected, connVars, handlers, registered,
          failures>>

Sessions == 1..MaxSessions

(* Bound: running retry timers of a URL; no more than MaxSessions ever run,*)
(* as a URL gets into the channel once from its owner, once from every     *)
(* connect handler but the first, and otherwise from a timer.              *)
MaxRetries == MaxSessions + MaxFailures

TypeOK ==
    /\ offers \subseteq URLs
    /\ registerChan \in URLs \cup {None}
    /\ loop \in {"receive", "ready", "tell", "note"}
    /\ u \in URLs \cup {None}
    /\ via \in 0..MaxSessions
    /\ answered \in BOOLEAN
    /\ retries \in [URLs -> 0..MaxRetries]
    /\ lastRegisteredURL \in URLs \cup {None}
    /\ readyRegistered \in BOOLEAN
    /\ readyConnected \in BOOLEAN
    /\ session \in 0..MaxSessions
    /\ up \in BOOLEAN
    /\ handlers \subseteq Sessions
    /\ registered \in 0..MaxSessions
    /\ failures \in 0..MaxFailures

Init ==
    /\ offers = URLs
    /\ registerChan = None
    /\ loop = "receive" /\ u = None /\ via = 0 /\ answered = FALSE
    /\ retries = [v \in URLs |-> 0]
    /\ lastRegisteredURL = None
    /\ readyRegistered = FALSE /\ readyConnected = FALSE
    /\ session = 0 /\ up = FALSE
    /\ handlers = {}
    /\ registered = 0
    /\ failures = 0

-----------------------------------------------------------------------------
(***************************************************************************)
(* The kontrol client.                                                     *)
(***************************************************************************)
Dial ==
    /\ ~up /\ session < MaxSessions
    /\ session' = session + 1
    /\ up' = TRUE
    /\ handlers' = handlers \cup {session + 1}
    /\ UNCHANGED <<offers, registerChan, loopVars, retries, lastRegisteredURL,
                   readyRegistered, readyConnected, registered, failures>>

Break ==
    /\ up /\ session < MaxSessions
    /\ up' = FALSE
    /\ UNCHANGED <<offers, registerChan, loopVars, retries, lastRegisteredURL,
                   readyRegistered, readyConnected, session, handlers,
                   registered, failures>>

(* A non-blocking send. *)
TrySend(v) == registerChan' = IF registerChan = None THEN v ELSE registerChan

(* Mutant: the handler registers again only when the loop is idle. *)
OnConnectIdle(s) ==
    /\ s \in handlers
    /\ handlers' = handlers \ {s}
    /\ IF loop = "receive" THEN TrySend(lastRegisteredURL)
                           ELSE UNCHANGED registerChan
    /\ readyConnected' = TRUE
    /\ UNCHANGED <<offers, loopVars, retries, lastRegisteredURL,
                   readyRegistered, connVars, registered, failures>>

(* Mutant: the handler returns early when there is nothing to register. *)
OnConnectReturns(s) ==
    /\ s \in handlers
    /\ handlers' = handlers \ {s}
    /\ TrySend(lastRegisteredURL)
    /\ readyConnected' = (readyConnected \/ lastRegisteredURL # None)
    /\ UNCHANGED <<offers, loopVars, retries, lastRegisteredURL,
                   readyRegistered, connVars, registered, failures>>

(* The connect handler, in a goroutine of its own; without a last URL      *)
(* nothing is sent.                                                        *)
OnConnect(s) ==
    /\ s \in handlers
    /\ handlers' = handlers \ {s}
    /\ TrySend(lastRegisteredURL)
    /\ readyConnected' = TRUE
    /\ UNCHANGED <<offers, loopVars, retries, lastRegisteredURL,
                   readyRegistered, connVars, registered, failures>>

-----------------------------------------------------------------------------
(* RegisterForever with a URL, and RegisterToProxy with one it got from a  *)
(* proxy: a blocking send.                                                 *)
Offer(v) ==
    /\ v \in offers
    /\ registerChan = None
    /\ offers' = offers \ {v}
    /\ registerChan' = v
    /\ UNCHANGED <<loopVars, retries, lastRegisteredURL, readyRegistered,
                   readyConnected, connVars, handlers, registered, failures>>

-----------------------------------------------------------------------------
(***************************************************************************)
(* The goroutine, and Register.                                            *)
(***************************************************************************)
Receive ==
    /\ loop = "receive" /\ registerChan # None
    /\ loop' = "ready"
    /\ u' = registerChan
    /\ registerChan' = None
    /\ UNCHANGED <<offers, via, answered, retries, lastRegisteredURL,
                   readyRegistered, readyConnected, connVars, handlers,
                   registered, failures>>

(* The request goes over the session of the moment, which may be broken. *)
Tell ==
    /\ loop = "ready" /\ readyConnected
    /\ loop' = "tell"
    /\ via' = session
    /\ answered' = FALSE
    /\ UNCHANGED <<offers, registerChan, u, retries, lastRegisteredURL,
                   readyRegistered, readyConnected, connVars, handlers,
                   registered, failures>>

Alive == up /\ via = session

(* Kontrol registers the kite (HandleRegister). *)
Serve ==
    /\ loop = "tell" /\ Alive /\ ~answered
    /\ answered' = TRUE
    /\ registered' = via
    /\ UNCHANGED <<offers, registerChan, loop, u, via, retries,
                   lastRegisteredURL, readyRegistered, readyConnected,
                   connVars, handlers, failures>>

Succeed ==
    /\ loop = "tell" /\ Alive /\ answered
    /\ loop' = "note"
    /\ UNCHANGED <<offers, registerChan, u, via, answered, retries,
                   lastRegisteredURL, readyRegistered, readyConnected,
                   connVars, handlers, registered, failures>>

Note ==
    /\ loop = "note"
    /\ loop' = "receive"
    /\ lastRegisteredURL' = u
    /\ readyRegistered' = TRUE
    /\ UNCHANGED <<offers, registerChan, u, via, answered, retries,
                   readyConnected, connVars, handlers, registered, failures>>

(* Register failed: a timer will try again. *)
ScheduleRetry ==
    /\ loop' = "receive"
    /\ retries' = [retries EXCEPT ![u] = @ + 1]

(* The session broke and the request or its answer is lost. *)
FailLost ==
    /\ loop = "tell" /\ ~Alive
    /\ retries[u] < MaxRetries
    /\ ScheduleRetry
    /\ UNCHANGED <<offers, registerChan, u, via, answered, lastRegisteredURL,
                   readyRegistered, readyConnected, connVars, handlers,
                   registered, failures>>

(* Kontrol refuses, or its answer comes too late. *)
FailAnswered ==
    /\ loop = "tell" /\ Alive
    /\ failures < MaxFailures /\ retries[u] < MaxRetries
    /\ failures' = failures + 1
    /\ ScheduleRetry
    /\ UNCHANGED <<offers, registerChan, u, via, answered, lastRegisteredURL,
                   readyRegistered, readyConnected, connVars, handlers,
                   registered>>

(* Mutant: the timer's function sends only to a loop that is at work. *)
RetryBusy(v) ==
    /\ retries[v] > 0
    /\ retries' = [retries EXCEPT ![v] = @ - 1]
    /\ IF loop = "receive" THEN UNCHANGED registerChan ELSE TrySend(v)
    /\ UNCHANGED <<offers, loopVars, lastRegisteredURL, readyRegistered,
                   readyConnected, connVars, handlers, registered, failures>>

(* The timer's function. *)
Retry(v) ==
    /\ retries[v] > 0
    /\ retries' = [retries EXCEPT ![v] = @ - 1]
    /\ TrySend(v)
    /\ UNCHANGED <<offers, loopVars, lastRegisteredURL, readyRegistered,
                   readyConnected, connVars, handlers, registered, failures>>

-----------------------------------------------------------------------------
LoopStep == Receive \/ Tell \/ Succeed \/ Note \/ FailLost \/ FailAnswered

Next ==
    \/ Dial
    \/ Break
    \/ \E s \in Sessions : OnConnect(s)
    \/ \E v \in URLs : Offer(v) \/ Retry(v)
    \/ LoopStep
    \/ Serve

Spec == Init /\ [][Next]_vars

(* The kontrol client redials for ever, goroutines and timers run, kontrol *)
(* answers.                                                                *)
Fairness ==
    /\ WF_vars(Dial)
    /\ \A s \in Sessions : WF_vars(OnConnect(s))
    /\ \A v \in URLs : WF_vars(Retry(v))
    /\ WF_vars(LoopStep)
    /\ WF_vars(Serve)

FairSpec == Spec /\ Fairness

-----------------------------------------------------------------------------
(***************************************************************************)
(* Properties.                                                             *)
(***************************************************************************)

(* Until the first registration succeeds, a URL the owner gave is in the   *)
(* channel, in the loop's hands or in a retry timer: none of the           *)
(* non-blocking sends drops the last one (kontrolclient.go:328-331).       *)
NeverForgotten ==
    /\ offers # URLs /\ ~readyRegistered
    => \/ registerChan # None
       \/ loop # "receive"
       \/ \E v \in URLs : retries[v] > 0

(* A kite that has registered is registered again over every new session   *)
(* that lasts, although the connect handler's send may find the channel    *)
(* full or the loop waiting for an answer that was lost                    *)
(* (kontrolclient.go:77-86).                                               *)
Reregisters ==
    \A s \in Sessions :
        s \in handlers /\ lastRegisteredURL # None
        ~> registered >= s \/ session > s

(* The channel never stays full, so the owner's blocking sends return      *)
(* (kontrolclient.go:342 and 458).                                         *)
ChannelDrains == registerChan # None ~> registerChan = None

(* RegisterForever "tries to re-register if there is a disconnection"      *)
(* (kontrolclient.go:302): a kite that was told it is registered ends up   *)
(* registered over the session it has, unless that breaks.                 *)
StaysRegistered ==
    readyRegistered /\ up ~> registered = session \/ ~up
=============================================================================
