----------------------------- MODULE KontrolHTTP -----------------------------
(***************************************************************************)
(* Registration over HTTP (kontrol/http.go, heartbeat.go): one kite, which *)
(* registers and then sends heartbeats, and kontrol, which for every       *)
(* registration keeps a heartbeat record (a timer that heartbeats reset    *)
(* and an updater goroutine that refreshes the storage) in the map         *)
(* k.heartbeats, by kite ID.  Kites do not interact, so one is enough.     *)
(*                                                                         *)
(* Time is discrete; in the checked instances a unit is ten seconds.  A    *)
(* goroutine that is ready runs before the next unit of time ends, in any  *)
(* order with the others.  A record is a number; kontrol reuses the number *)
(* of a record nothing refers to any more.                                 *)
(***************************************************************************)
EXTENDS Naturals

CONSTANTS
    URLs,            \* the URLs the kite may register with
    None,            \* no URL
    Records,         \* bound: heartbeat records alive at the same time
    NoRecord,        \* no entry in k.heartbeats
    Timeout,         \* HeartbeatInterval + HeartbeatDelay
    UpdateInterval, KeyTTL,
    Insert,          \* Update adds a missing key and Upsert reports its
                     \* errors: TRUE for Etcd, FALSE for Postgres
    MaxFailures,     \* bound: storage operations that fail
    MaxRestarts      \* bound: restarts of kontrol

ASSUME TimesAssumption ==
    /\ Timeout \in Nat \ {0} /\ UpdateInterval \in Nat \ {0}
    /\ KeyTTL \in Nat \ {0}
    /\ MaxFailures \in Nat /\ MaxRestarts \in Nat
    /\ Insert \in BOOLEAN

ASSUME NamesAssumption == None \notin URLs /\ NoRecord \notin Records

VARIABLES
    \* the kite
    alive,
    reg,       \* its RegisterHTTP requests: "none", "sent" or "upserted"
    beats,     \* the URL its heartbeats would register again, or None
    silent,    \* time since its last registration or "pong"
    \* kontrol
    current,   \* k.heartbeats[ID]
    timer,     \* time left on h.timer
    armed,     \* records whose timer runs
    firing,    \* records whose timer function waits for heartbeatsMu
    updater,   \* records whose updater goroutine runs (h.updateC is open)
    ticking,   \* records whose updater.C ticks
    tick,      \* time to its next tick
    value,     \* the URL the updater writes
    restarts,
    \* the storage
    url, ttl,  \* the kite's key
    failures

kiteVars == <<alive, reg, beats>>
recordVars == <<current, timer, armed, firing, updater, ticking, tick, value>>
storeVars == <<url, ttl, failures>>
vars == <<kiteVars, silent, recordVars, restarts, storeVars>>

MaxSilence == Timeout + KeyTTL + 1

TypeOK ==
    /\ alive \in BOOLEAN
    /\ reg \in [URLs -> {"none", "sent", "upserted"}]
    /\ beats \in URLs \cup {None}
    /\ silent \in 0..MaxSilence
    /\ current \in Records \cup {NoRecord}
    /\ timer \in [Records -> 0..Timeout]
    /\ armed \subseteq Records
    /\ firing \subseteq Records
    /\ updater \subseteq Records
    /\ ticking \subseteq Records
    /\ tick \in [Records -> 0..UpdateInterval]
    /\ value \in [Records -> URLs \cup {None}]
    /\ restarts \in 0..MaxRestarts
    /\ url \in URLs \cup {None}
    /\ ttl \in 0..KeyTTL
    /\ failures \in 0..MaxFailures

Init ==
    /\ alive = TRUE
    /\ reg = [u \in URLs |-> "none"]
    /\ beats = None
    /\ silent = 0
    /\ current = NoRecord
    /\ timer = [h \in Records |-> 0]
    /\ armed = {} /\ firing = {} /\ updater = {} /\ ticking = {}
    /\ tick = [h \in Records |-> 0]
    /\ value = [h \in Records |-> None]
    /\ restarts = 0
    /\ url = None /\ ttl = 0
    /\ failures = 0

-----------------------------------------------------------------------------
(***************************************************************************)
(* The kite.                                                               *)
(***************************************************************************)

(* RegisterHTTPForever, called by the owner, who registers a URL only when *)
(* no registration is under way.                                           *)
RegisterHTTPForever(u) ==
    /\ alive
    /\ \A v \in URLs : reg[v] = "none"
    /\ reg' = [reg EXCEPT ![u] = "sent"]
    /\ UNCHANGED <<alive, beats, silent, recordVars, restarts, storeVars>>

(* The kite process ends; it will never come back under this ID. *)
Stop ==
    /\ alive
    /\ \A u \in URLs : reg[u] # "upserted"
    /\ alive' = FALSE
    /\ reg' = [u \in URLs |-> "none"]
    /\ beats' = None
    /\ UNCHANGED <<silent, recordVars, restarts, storeVars>>

-----------------------------------------------------------------------------
(***************************************************************************)
(* HandleRegisterHTTP, after the request was authenticated: first the      *)
(* storage, then, under heartbeatsMu, the record.                          *)
(***************************************************************************)
Upsert(u) ==
    /\ reg[u] = "sent"
    /\ reg' = [reg EXCEPT ![u] = "upserted"]
    /\ url' = u /\ ttl' = KeyTTL
    /\ silent' = 0
    /\ UNCHANGED <<alive, beats, recordVars, restarts, failures>>

(* A write fails.  Etcd writes two keys, one after the other, and may have *)
(* got as far as the first.                                                *)
WriteFails(v) ==
    /\ failures < MaxFailures
    /\ failures' = failures + 1
    /\ \/ UNCHANGED <<url, ttl>>
       \/ Insert /\ url' = v /\ ttl' = KeyTTL

(* The storage fails.  Etcd's error is answered, so the kite tries again;  *)
(* the deferred Rollback of Postgres replaces the error by its own result. *)
UpsertFails(u) ==
    /\ reg[u] = "sent"
    /\ WriteFails(u)
    /\ reg' = IF Insert THEN reg ELSE [reg EXCEPT ![u] = "upserted"]
    /\ silent' = 0
    /\ UNCHANGED <<alive, beats, recordVars, restarts>>

(* The reply reaches the kite, which from now on sends the heartbeats of   *)
(* this registration, or it is lost and the kite registers again.          *)
Reply(u) ==
    \/ /\ reg' = [reg EXCEPT ![u] = "none"]
       /\ beats' = u
    \/ /\ reg' = [reg EXCEPT ![u] = "sent"]
       /\ beats' = beats

(* A request that resets the timer of record h; it may have got            *)
(* heartbeatsMu between the timer's firing and the timer's own function.   *)
ResetTimer(h) ==
    /\ h # NoRecord
    /\ timer' = [timer EXCEPT ![h] = Timeout]
    /\ armed' = armed \cup {h}
    /\ silent' = 0

Free(h) == h \notin armed \cup firing \cup updater /\ h # current

(* There is a record: its timer is reset and its updater handed the URL. *)
ReuseRecord(u) ==
    /\ reg[u] = "upserted"
    /\ ResetTimer(current)
    /\ current \in updater
    /\ value' = [value EXCEPT ![current] = u]
    /\ Reply(u)
    /\ UNCHANGED <<alive, current, firing, updater, ticking, tick, restarts,
                   storeVars>>

NewRecord(u) ==
    /\ reg[u] = "upserted"
    /\ current = NoRecord
    /\ \E h \in Records :
         /\ Free(h)
         /\ current' = h
         /\ ResetTimer(h)
         /\ updater' = updater \cup {h}
         /\ ticking' = ticking \cup {h}
         /\ tick' = [tick EXCEPT ![h] = UpdateInterval]
         /\ value' = [value EXCEPT ![h] = u]
    /\ Reply(u)
    /\ UNCHANGED <<alive, firing, restarts, storeVars>>

-----------------------------------------------------------------------------
(***************************************************************************)
(* HandleHeartbeat, and what the kite does with the answer.                *)
(***************************************************************************)

(* processHeartbeats has a ticker and a ping function. *)
Beating == beats # None

Pong ==
    /\ Beating
    /\ ResetTimer(current)
    /\ UNCHANGED <<kiteVars, current, firing, updater, ticking, tick, value,
                   restarts, storeVars>>

(* "registeragain": the kite stops its heartbeats and registers. *)
RegisterAgain ==
    /\ Beating
    /\ current = NoRecord
    /\ reg' = [reg EXCEPT ![beats] = IF @ = "none" THEN "sent" ELSE @]
    /\ beats' = None
    /\ UNCHANGED <<alive, silent, recordVars, restarts, storeVars>>

-----------------------------------------------------------------------------
(***************************************************************************)
(* The timer function and the updater of a record.                         *)
(***************************************************************************)

(* The timer fires; its function stops the ticker and waits for the lock. *)
TimerFires(h) ==
    /\ h \in armed /\ timer[h] = 0
    /\ armed' = armed \ {h}
    /\ ticking' = ticking \ {h}
    /\ firing' = firing \cup {h}
    /\ UNCHANGED <<kiteVars, silent, current, timer, updater, tick, value,
                   restarts, storeVars>>

(* Mutant: the updater goroutine and its ticker are not stopped. *)
ExpireKeepsUpdater(h) ==
    /\ h \in firing
    /\ firing' = firing \ {h}
    /\ ticking' = ticking \cup {h}
    /\ tick' = [tick EXCEPT ![h] = UpdateInterval]
    /\ current' = NoRecord
    /\ UNCHANGED <<kiteVars, silent, timer, armed, updater, value, restarts,
                   storeVars>>

(* Mutant: the updater is stopped but the entry of the map stays. *)
ExpireKeepsEntry(h) ==
    /\ h \in firing
    /\ firing' = firing \ {h}
    /\ updater' = updater \ {h}
    /\ UNCHANGED <<kiteVars, silent, current, timer, armed, ticking, tick,
                   value, restarts, storeVars>>

(* Under the lock: updateC is closed, which ends the updater, and the      *)
(* entry of the kite's ID is deleted, whichever record it holds.           *)
Expire(h) ==
    /\ h \in firing
    /\ firing' = firing \ {h}
    /\ updater' = updater \ {h}
    /\ current' = NoRecord
    /\ UNCHANGED <<kiteVars, silent, timer, armed, ticking, tick, value,
                   restarts, storeVars>>

(* A tick is in the channel of the updater's ticker; one that came before  *)
(* the ticker was stopped is still delivered.                              *)
Due(h) == h \in updater /\ tick[h] = 0

(* Mutant: the update writes the URL and leaves the TTL as it was. *)
UpdateWithoutTTL(h) ==
    /\ Due(h)
    /\ tick' = [tick EXCEPT ![h] = UpdateInterval]
    /\ url' = value[h]
    /\ UNCHANGED <<kiteVars, silent, current, timer, armed, firing, updater,
                   ticking, value, restarts, ttl, failures>>

(* The updater writes its URL; Postgres only updates an existing row. *)
Update(h) ==
    /\ Due(h)
    /\ tick' = [tick EXCEPT ![h] = UpdateInterval]
    /\ url' = IF Insert \/ url # None THEN value[h] ELSE None
    /\ ttl' = IF Insert \/ url # None THEN KeyTTL ELSE ttl
    /\ UNCHANGED <<kiteVars, silent, current, timer, armed, firing, updater,
                   ticking, value, restarts, failures>>

(* A failed update is only logged. *)
UpdateFails(h) ==
    /\ Due(h)
    /\ WriteFails(value[h])
    /\ tick' = [tick EXCEPT ![h] = UpdateInterval]
    /\ UNCHANGED <<kiteVars, silent, current, timer, armed, firing, updater,
                   ticking, value, restarts>>

(* The key expires: by its TTL in Etcd, by the cleaner in Postgres. *)
ExpireKey ==
    /\ url # None /\ ttl = 0
    /\ url' = None
    /\ UNCHANGED <<kiteVars, silent, recordVars, restarts, ttl, failures>>

(* Kontrol restarts: map, timers and updaters are gone, the key is not; a  *)
(* request in the handler fails and the kite sends it again.               *)
Restart ==
    /\ restarts < MaxRestarts
    /\ restarts' = restarts + 1
    /\ current' = NoRecord
    /\ armed' = {} /\ firing' = {} /\ updater' = {} /\ ticking' = {}
    /\ reg' = [u \in URLs |-> IF reg[u] = "upserted" THEN "sent" ELSE reg[u]]
    /\ UNCHANGED <<alive, beats, silent, timer, tick, value, storeVars>>

-----------------------------------------------------------------------------
Less(n) == IF n > 0 THEN n - 1 ELSE 0

(* A unit of time passes, once everything that is due has happened; the    *)
(* cleaner of Postgres may let a row live longer.  Nothing makes the kite  *)
(* send its heartbeats in time.                                            *)
Tick ==
    /\ firing = {}
    /\ \A h \in Records : ~Due(h) /\ ~(h \in armed /\ timer[h] = 0)
    /\ \A u \in URLs : reg[u] # "upserted"
    /\ Insert => ~(url # None /\ ttl = 0)
    /\ silent' = IF silent < MaxSilence THEN silent + 1 ELSE silent
    /\ timer' = [h \in Records |-> IF h \in armed THEN Less(timer[h]) ELSE 0]
    /\ tick' = [h \in Records |-> IF h \in updater \cap ticking
                                  THEN Less(tick[h]) ELSE 0]
    /\ ttl' = Less(ttl)
    /\ UNCHANGED <<kiteVars, current, armed, firing, updater, ticking, value,
                   restarts, url, failures>>

KiteStep ==
    \/ \E u \in URLs : RegisterHTTPForever(u)
    \/ Stop

KontrolStep ==
    \/ \E u \in URLs : \/ Upsert(u)
                       \/ UpsertFails(u)
                       \/ ReuseRecord(u)
                       \/ NewRecord(u)
    \/ Pong
    \/ RegisterAgain
    \/ \E h \in Records : \/ TimerFires(h)
                          \/ Expire(h)
                          \/ Update(h)
                          \/ UpdateFails(h)
    \/ ExpireKey
    \/ Restart

Next == KiteStep \/ KontrolStep \/ Tick

Spec == Init /\ [][Next]_vars

-----------------------------------------------------------------------------
(***************************************************************************)
(* Properties.                                                             *)
(***************************************************************************)

(* The record in the map has a live updater, so a registration never       *)
(* blocks on h.updateC while it holds heartbeatsMu, which would stop every *)
(* registration and heartbeat of kontrol (kontrol/http.go:160).            *)
UpdateNeverBlocks == current # NoRecord => current \in updater

(* Every updater goroutine has a timer that runs, or one whose function is *)
(* about to end it: also the updater of a record that another record's     *)
(* timer has deleted from the map, and that no registration can find again *)
(* (kontrol/http.go:196-214).                                              *)
UpdatersEnd == updater \subseteq armed \cup firing

(* As long as the storage does not fail, a kite that kontrol knows can be  *)
(* found: its key never expires between two updates.                       *)
KnownIsListed == current # NoRecord /\ failures = 0 => url # None

(* A kite that went silent is unlisted: no updater keeps its key beyond    *)
(* the timeout and the key's own TTL.                                      *)
SilentIsUnlisted == silent > Timeout + KeyTTL => url = None

-----------------------------------------------------------------------------
(***************************************************************************)
(* What comments promise and the code does not keep.                       *)
(***************************************************************************)

(* No entry is deleted while its own timer runs: "Because the timer get    *)
(* reset, the timer is never fired" (kontrol/http.go:30).  Not when the    *)
(* reset comes between the timer's firing and its function.                *)
ArmedNotForgotten ==
    [][(current \in armed) /\ current' = NoRecord => restarts' # restarts]_vars

(* "Register first by adding the value to the storage. Return if there is  *)
(* any error." (kontrol/http.go:140): a request gets past the storage only *)
(* with its key stored.  Not over Postgres, whose Upsert loses its error.  *)
AcceptedIsStored == \A u \in URLs : reg[u] = "upserted" => url # None

(* A registration that finds a record hands its updater the URL "so it     *)
(* does not get overwritten back to the old value" (kontrol/http.go:159):  *)
(* when the registration is done the storage has that URL.  Not when a     *)
(* tick of the updater falls between Upsert and the hand-over.             *)
NotOverwritten ==
    [][\A u \in URLs :
         /\ reg[u] = "upserted" /\ reg'[u] = "none"
         /\ \A v \in URLs \ {u} : reg[v] = "none"
         /\ failures = 0
         => url' = u]_vars
=============================================================================
