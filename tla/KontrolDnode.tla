---------------------------- MODULE KontrolDnode ----------------------------
(***************************************************************************)
(* Registration over a dnode connection (kontrol/handlers.go, heartbeat.go *)
(* and kontrol/onceevery): one kite, and kontrol, which for every          *)
(* registration starts an updater goroutine and asks the kite to call a    *)
(* heartbeat callback; the callback pings the updater, which refreshes the *)
(* storage at most once in UpdateInterval, and starts it again when it     *)
(* gave up waiting.                                                        *)
(*                                                                         *)
(* Time is discrete; in the checked instance a unit is 15 seconds.  A      *)
(* goroutine that is ready runs before the next unit of time ends, in any  *)
(* order with the others.  A registration and a goroutine are names, used  *)
(* again when nothing refers to them any more.                             *)
(***************************************************************************)
EXTENDS Naturals

CONSTANTS
    URLs, None,
    Records, NoRecord,   \* bound: registrations remembered at one time
    Updaters,            \* bound: updater goroutines running at one time
    Gap,                 \* heartbeats at most this far apart are regular
    Timeout,             \* HeartbeatInterval + HeartbeatDelay
    UpdateInterval, KeyTTL,
    MaxFailures,         \* bound: storage operations that fail
    MaxRestarts          \* bound: restarts of kontrol

ASSUME TimesAssumption ==
    /\ Gap \in Nat /\ Timeout \in Nat \ {0}
    /\ UpdateInterval \in Nat \ {0} /\ KeyTTL \in Nat \ {0}
    /\ MaxFailures \in Nat /\ MaxRestarts \in Nat

ASSUME NamesAssumption == None \notin URLs /\ NoRecord \notin Records

VARIABLES
    \* the kite
    alive, connected,
    beats,      \* the registration whose callback processHeartbeats calls
    \* kontrol
    asked,      \* registrations whose kite.heartbeat call is on its way
    value,      \* the URL of a registration
    ping,       \* registrations with a ping in their channel
    closed,     \* registrations whose closed flag is set
    since,      \* time since every.Do last ran its function
    caller,     \* the registration whose callback holds the kite's clientLock
    of,         \* the registration an updater goroutine works for
    pc,         \* where the goroutine is: "select", "update" or "ending"
    timer,      \* time left on its time.After
    restarts,
    \* the storage
    url, ttl, failures,
    \* history, capped
    silent,     \* time since kontrol last heard of the kite
    streak,     \* number of regular heartbeats in a row (two at the same
                \* moment count as one): 0, 1, or 2 and more
    settled     \* time since the kite last registered or changed beats

kiteVars == <<alive, connected, beats>>
recordVars == <<asked, value, ping, closed, since, caller>>
updaterVars == <<of, pc, timer>>
storeVars == <<url, ttl, failures>>
clocks == <<silent, streak, settled>>
vars == <<kiteVars, recordVars, updaterVars, restarts, storeVars, clocks>>

Least(m, n) == IF m < n THEN m ELSE n

(* The longest time between two updates of a kite with regular heartbeats. *)
UpdateBound == UpdateInterval + Gap

TypeOK ==
    /\ alive \in BOOLEAN /\ connected \in BOOLEAN
    /\ beats \in Records \cup {NoRecord}
    /\ asked \subseteq Records
    /\ value \in [Records -> URLs \cup {None}]
    /\ ping \subseteq Records
    /\ closed \subseteq Records
    /\ since \in [Records -> 0..UpdateInterval + 1]
    /\ caller \in Records \cup {NoRecord}
    /\ of \in [Updaters -> Records \cup {NoRecord}]
    /\ pc \in [Updaters -> {"select", "update", "ending"}]
    /\ timer \in [Updaters -> 0..Timeout]
    /\ restarts \in 0..MaxRestarts
    /\ url \in URLs \cup {None}
    /\ ttl \in 0..KeyTTL
    /\ failures \in 0..MaxFailures
    /\ silent \in 0..KeyTTL + 1
    /\ streak \in 0..2
    /\ settled \in 0..UpdateBound + 1

Init ==
    /\ alive = TRUE /\ connected = FALSE
    /\ beats = NoRecord
    /\ asked = {}
    /\ value = [r \in Records |-> None]
    /\ ping = {} /\ closed = {}
    /\ since = [r \in Records |-> 0]
    /\ caller = NoRecord
    /\ of = [g \in Updaters |-> NoRecord]
    /\ pc = [g \in Updaters |-> "select"]
    /\ timer = [g \in Updaters |-> 0]
    /\ restarts = 0
    /\ url = None /\ ttl = 0 /\ failures = 0
    /\ silent = 0 /\ streak = 0 /\ settled = 0

-----------------------------------------------------------------------------
(***************************************************************************)
(* The kite and its connection to kontrol.                                 *)
(***************************************************************************)
Connect ==
    /\ alive /\ ~connected
    /\ connected' = TRUE
    /\ UNCHANGED <<alive, beats, recordVars, updaterVars, restarts, storeVars,
                   clocks>>

(* The session breaks: calls under way are lost and the callbacks kontrol  *)
(* sent over it can no longer be called.                                   *)
LoseSession ==
    /\ connected' = FALSE
    /\ beats' = NoRecord
    /\ asked' = {}

Disconnect ==
    /\ connected
    /\ LoseSession
    /\ UNCHANGED <<alive, value, ping, closed, since, caller, updaterVars,
                   restarts, storeVars, clocks>>

Stop ==
    /\ alive
    /\ alive' = FALSE
    /\ LoseSession
    /\ UNCHANGED <<value, ping, closed, since, caller, updaterVars, restarts,
                   storeVars, clocks>>

-----------------------------------------------------------------------------
(***************************************************************************)
(* The storage, Etcd: Upsert and Update write the kite's key whether it    *)
(* exists or not, with a full TTL.                                         *)
(***************************************************************************)
Write(v) ==
    /\ url' = v /\ ttl' = KeyTTL
    /\ failures' = failures

(* A write fails; Etcd writes two keys and may have got as far as one. *)
WriteFails(v) ==
    /\ failures < MaxFailures
    /\ failures' = failures + 1
    /\ \/ UNCHANGED <<url, ttl>>
       \/ url' = v /\ ttl' = KeyTTL

ExpireKey ==
    /\ url # None /\ ttl = 0
    /\ url' = None
    /\ UNCHANGED <<kiteVars, recordVars, updaterVars, restarts, ttl, failures,
                   clocks>>

-----------------------------------------------------------------------------
(***************************************************************************)
(* HandleRegister, for a request that passes its checks.                   *)
(***************************************************************************)
Idle(g) == of[g] = NoRecord

StartUpdater(g, r) ==
    /\ Idle(g)
    /\ of' = [of EXCEPT ![g] = r]
    /\ pc' = [pc EXCEPT ![g] = "select"]
    /\ timer' = [timer EXCEPT ![g] = Timeout]

(* Nothing refers to the registration any more. *)
Forgotten(r) ==
    /\ r \notin asked /\ r # beats /\ r # caller
    /\ \A g \in Updaters : of[g] # r

(* The key is stored, the updater started with an every that is due, and   *)
(* the kite asked for heartbeats.                                          *)
HandleRegister(u) ==
    /\ alive /\ connected
    /\ Write(u)
    /\ \E r \in Records, g \in Updaters :
         /\ Forgotten(r)
         /\ value' = [value EXCEPT ![r] = u]
         /\ since' = [since EXCEPT ![r] = UpdateInterval + 1]
         /\ ping' = ping \ {r}
         /\ closed' = closed \ {r}
         /\ asked' = asked \cup {r}
         /\ StartUpdater(g, r)
    /\ silent' = 0 /\ settled' = 0
    /\ UNCHANGED <<kiteVars, caller, restarts, streak>>

(* "internal error - register" *)
HandleRegisterFails(u) ==
    /\ alive /\ connected
    /\ WriteFails(u)
    /\ silent' = 0 /\ settled' = 0
    /\ UNCHANGED <<kiteVars, recordVars, updaterVars, restarts, streak>>

-----------------------------------------------------------------------------
(***************************************************************************)
(* Heartbeats: the kite's goroutine, and the callback in kontrol.          *)
(***************************************************************************)

(* The callback gets the kite's lock and pings, without blocking. *)
CallbackPings(r) ==
    /\ caller = NoRecord
    /\ caller' = r
    /\ ping' = ping \cup {r}
    /\ silent' = 0
    /\ streak' = IF silent = 0 /\ streak > 0 THEN streak
                                         ELSE Least(streak + 1, 2)

(* handleHeartbeat: processHeartbeats is given the callback, in place of   *)
(* the one it had, and the callback is called a first time.                *)
HandleHeartbeat(r) ==
    /\ r \in asked
    /\ asked' = asked \ {r}
    /\ beats' = r
    /\ settled' = 0
    /\ CallbackPings(r)
    /\ UNCHANGED <<alive, connected, value, closed, since, updaterVars,
                   restarts, storeVars>>

(* Mutant: the ticker of a former registration is not stopped. *)
HeartbeatBoth ==
    /\ beats # NoRecord
    /\ \E r \in Records : value[r] # None /\ CallbackPings(r)
    /\ UNCHANGED <<kiteVars, asked, value, closed, since, updaterVars,
                   restarts, storeVars, settled>>

(* A tick of processHeartbeats. *)
Heartbeat ==
    /\ beats # NoRecord
    /\ CallbackPings(beats)
    /\ UNCHANGED <<kiteVars, asked, value, closed, since, updaterVars,
                   restarts, storeVars, settled>>

(* The callback finds the updater running and returns. *)
CallbackReturns ==
    /\ caller # NoRecord /\ caller \notin closed
    /\ caller' = NoRecord
    /\ UNCHANGED <<kiteVars, asked, value, ping, closed, since, updaterVars,
                   restarts, storeVars, clocks>>

(* The updater has ended: the key is added again, whether that works or    *)
(* not, and the updater started again.                                     *)
CallbackRestarts ==
    /\ caller \in closed
    /\ closed' = closed \ {caller}
    /\ Write(value[caller]) \/ WriteFails(value[caller])
    /\ \E g \in Updaters : StartUpdater(g, caller)
    /\ caller' = NoRecord
    /\ UNCHANGED <<kiteVars, asked, value, ping, since, restarts, clocks>>

-----------------------------------------------------------------------------
(***************************************************************************)
(* The updater: one iteration of its select.                               *)
(***************************************************************************)
Selecting(g) == ~Idle(g) /\ pc[g] = "select"

(* A ping is taken and every.Do called: the function runs when more than   *)
(* the interval has passed.                                                *)
TakePing(g) ==
    /\ Selecting(g)
    /\ of[g] \in ping
    /\ ping' = ping \ {of[g]}
    /\ UNCHANGED <<kiteVars, asked, value, closed, caller, of, restarts,
                   storeVars, clocks>>

(* Mutant: every.last is set by every call. *)
DoSkipsAlways(g) ==
    /\ TakePing(g)
    /\ since[of[g]] <= UpdateInterval
    /\ since' = [since EXCEPT ![of[g]] = 0]
    /\ timer' = [timer EXCEPT ![g] = Timeout]
    /\ pc' = pc

DoSkips(g) ==
    /\ TakePing(g)
    /\ since[of[g]] <= UpdateInterval
    /\ since' = since
    /\ timer' = [timer EXCEPT ![g] = Timeout]
    /\ pc' = pc

DoRuns(g) ==
    /\ TakePing(g)
    /\ since[of[g]] > UpdateInterval
    /\ since' = [since EXCEPT ![of[g]] = 0]
    /\ pc' = [pc EXCEPT ![g] = "update"]
    /\ timer' = timer

(* storage.Update, whose error is only logged. *)
Update(g) ==
    /\ pc[g] = "update" /\ ~Idle(g)
    /\ Write(value[of[g]]) \/ WriteFails(value[of[g]])
    /\ pc' = [pc EXCEPT ![g] = "select"]
    /\ timer' = [timer EXCEPT ![g] = Timeout]
    /\ UNCHANGED <<kiteVars, recordVars, of, restarts, clocks>>

(* Mutant: the updater refreshes the key when its time is up. *)
TimeOutUpdates(g) ==
    /\ Selecting(g)
    /\ timer[g] = 0
    /\ pc' = [pc EXCEPT ![g] = "update"]
    /\ UNCHANGED <<kiteVars, recordVars, of, timer, restarts, storeVars,
                   clocks>>

(* No ping came in time; with both ready, select chooses at random. *)
TimeOut(g) ==
    /\ Selecting(g)
    /\ timer[g] = 0
    /\ pc' = [pc EXCEPT ![g] = "ending"]
    /\ UNCHANGED <<kiteVars, recordVars, of, timer, restarts, storeVars,
                   clocks>>

(* The updater sets the flag and returns. *)
SetClosed(g) ==
    /\ pc[g] = "ending" /\ ~Idle(g)
    /\ closed' = closed \cup {of[g]}
    /\ of' = [of EXCEPT ![g] = NoRecord]
    /\ pc' = [pc EXCEPT ![g] = "select"]
    /\ UNCHANGED <<kiteVars, asked, value, ping, since, caller, timer,
                   restarts, storeVars, clocks>>

-----------------------------------------------------------------------------
(* Kontrol restarts: its goroutines and sessions are gone, the key is not. *)
Restart ==
    /\ restarts < MaxRestarts
    /\ restarts' = restarts + 1
    /\ LoseSession
    /\ caller' = NoRecord
    /\ of' = [g \in Updaters |-> NoRecord]
    /\ pc' = [g \in Updaters |-> "select"]
    /\ streak' = 0
    /\ UNCHANGED <<alive, value, ping, closed, since, timer, storeVars, silent,
                   settled>>

Less(n) == IF n > 0 THEN n - 1 ELSE 0

(* The goroutine has nothing to do but wait. *)
Waits(g) == ~Idle(g) => pc[g] = "select" /\ of[g] \notin ping /\ timer[g] > 0

(* A unit of time passes, once everything that is due has happened.        *)
(* Nothing makes the kite send its heartbeats in time.                     *)
Tick ==
    /\ caller = NoRecord
    /\ \A g \in Updaters : Waits(g)
    /\ ~(url # None /\ ttl = 0)
    /\ since' = [r \in Records |-> Least(since[r] + 1, UpdateInterval + 1)]
    /\ timer' = [g \in Updaters |-> IF Idle(g) THEN timer[g] ELSE Less(timer[g])]
    /\ ttl' = Less(ttl)
    /\ silent' = Least(silent + 1, KeyTTL + 1)
    /\ streak' = IF silent < Gap THEN streak ELSE 0
    /\ settled' = Least(settled + 1, UpdateBound + 1)
    /\ UNCHANGED <<kiteVars, asked, value, ping, closed, caller, of, pc,
                   restarts, url, failures>>

KiteStep ==
    \/ Connect
    \/ Disconnect
    \/ Stop
    \/ Heartbeat
    \/ \E r \in Records : HandleHeartbeat(r)

KontrolStep ==
    \/ \E u \in URLs : HandleRegister(u) \/ HandleRegisterFails(u)
    \/ CallbackReturns
    \/ CallbackRestarts
    \/ \E g \in Updaters : \/ DoSkips(g)
                           \/ DoRuns(g)
                           \/ Update(g)
                           \/ TimeOut(g)
                           \/ SetClosed(g)
    \/ ExpireKey
    \/ Restart

Next == KiteStep \/ KontrolStep \/ Tick

Spec == Init /\ [][Next]_vars

-----------------------------------------------------------------------------
(***************************************************************************)
(* Properties.                                                             *)
(***************************************************************************)

(* "Updater was closed, but we are still getting heartbeats. Starting      *)
(* again" (kontrol/handlers.go:135): a registration never has two updaters *)
(* at work, however heartbeats and the end of the updater interleave.      *)
OneUpdater ==
    \A g, h \in Updaters : ~Idle(g) /\ of[g] = of[h] => g = h

(* The heartbeats of the kite are regular, no callback is at work and the  *)
(* storage has not failed.                                                 *)
Regular == streak = 2 /\ caller = NoRecord /\ failures = 0

(* A kite whose heartbeats are regular can be found: its key is refreshed  *)
(* before it expires although the updater writes only on a ping and once   *)
(* in UpdateInterval, and after a time without heartbeats the second one   *)
(* at the latest adds it again (kontrol/handlers.go:96-142).          *)
ActiveIsListed == Regular => url # None

(* A kite kontrol has not heard of for as long as KeyTTL is unlisted: no   *)
(* updater writes without a heartbeat (kontrol/handlers.go:101-113).       *)
SilentIsUnlisted == silent > KeyTTL => url = None

(* The storage settles on the URL of the registration the kite sends       *)
(* heartbeats for: the updater of an older registration, which may write   *)
(* once more after the new one, is overruled within UpdateInterval + Gap.  *)
URLSettles ==
    Regular /\ beats # NoRecord /\ settled > UpdateBound => url = value[beats]
=============================================================================
