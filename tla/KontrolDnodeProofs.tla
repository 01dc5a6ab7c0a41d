------------------------- MODULE KontrolDnodeProofs -------------------------
(***************************************************************************)
(* Safety of KontrolDnode for all values of the intervals and any number   *)
(* of registrations, updaters, failures and restarts.                      *)
(***************************************************************************)
EXTENDS KontrolDnode, Integers, TLAPS

LEMMA LeastBound == ASSUME NEW m \in Nat, NEW n \in Nat
                    PROVE  /\ Least(n, m) \in 0..m
                           /\ Least(n, m) <= n
  BY DEF Least

LEMMA LessBound == ASSUME NEW m \in Nat, NEW n \in 0..m PROVE Less(n) \in 0..m
  BY DEF Less

LEMMA BoundNat == UpdateBound + 1 \in Nat
  BY TimesAssumption DEF UpdateBound

LEMMA TypeInit == Init => TypeOK
<1> SUFFICES ASSUME Init PROVE TypeOK
  OBVIOUS
<1>1. /\ 0 \in 0..UpdateInterval + 1 /\ 0 \in 0..Timeout
      /\ 0 \in 0..MaxRestarts /\ 0 \in 0..KeyTTL /\ 0 \in 0..MaxFailures
      /\ 0 \in 0..KeyTTL + 1 /\ 0 \in 0..2 /\ 0 \in 0..UpdateBound + 1
  BY TimesAssumption, BoundNat
<1>2. since \in [Records -> 0..UpdateInterval + 1]
  BY <1>1 DEF Init
<1>3. timer \in [Updaters -> 0..Timeout]
  BY <1>1 DEF Init
<1>4. QED
  BY <1>1, <1>2, <1>3 DEF Init, TypeOK

LEMMA TypeKite ==
    ASSUME TypeOK, Connect \/ Disconnect \/ Stop \/ Restart PROVE TypeOK'
<1> USE TimesAssumption
    DEF TypeOK, kiteVars, recordVars, updaterVars, storeVars, clocks
<1>1. CASE Connect
  BY <1>1 DEF Connect
<1>2. CASE Disconnect
  BY <1>2 DEF Disconnect, LoseSession
<1>3. CASE Stop
  BY <1>3 DEF Stop, LoseSession
<1>4. CASE Restart
  <2>1. /\ of' \in [Updaters -> Records \cup {NoRecord}]
        /\ pc' \in [Updaters -> {"select", "update", "ending"}]
    BY <1>4 DEF Restart
  <2>2. restarts' \in 0..MaxRestarts /\ streak' \in 0..2
    BY <1>4 DEF Restart
  <2>3. QED
    BY <1>4, <2>1, <2>2 DEF Restart, LoseSession
<1>5. QED
  BY <1>1, <1>2, <1>3, <1>4

LEMMA TypeRegister ==
    ASSUME TypeOK, NEW v \in URLs, HandleRegister(v) \/ HandleRegisterFails(v)
    PROVE  TypeOK'
<1> USE TimesAssumption, BoundNat
    DEF TypeOK, kiteVars, recordVars, updaterVars, storeVars, clocks
<1>1. CASE HandleRegister(v)
  BY <1>1 DEF HandleRegister, StartUpdater, Write
<1>2. CASE HandleRegisterFails(v)
  BY <1>2 DEF HandleRegisterFails, WriteFails
<1>3. QED
  BY <1>1, <1>2

LEMMA TypePings ==
    ASSUME TypeOK, NEW r \in Records, CallbackPings(r)
    PROVE  /\ caller' \in Records /\ ping' \subseteq Records
           /\ silent' \in 0..KeyTTL + 1 /\ streak' \in 0..2
<1>1. Least(streak + 1, 2) \in 0..2
  BY DEF Least, TypeOK
<1>2. QED
  BY <1>1, TimesAssumption DEF TypeOK, CallbackPings

LEMMA TypeHeartbeat ==
    ASSUME TypeOK, Heartbeat \/ \E r \in Records : HandleHeartbeat(r)
    PROVE  TypeOK'
<1>1. CASE Heartbeat
  <2>1. beats \in Records
    BY <1>1 DEF Heartbeat, TypeOK
  <2>2. QED
    BY <1>1, <2>1, TypePings
    DEF Heartbeat, TypeOK, kiteVars, updaterVars, storeVars
<1>2. ASSUME NEW r \in Records, HandleHeartbeat(r) PROVE TypeOK'
  <2>1. CallbackPings(r) /\ settled' \in 0..UpdateBound + 1
    BY <1>2, BoundNat DEF HandleHeartbeat
  <2>2. QED
    BY <1>2, <2>1, TypePings DEF HandleHeartbeat, TypeOK, updaterVars, storeVars
<1>3. QED
  BY <1>1, <1>2

LEMMA TypeCallback ==
    ASSUME TypeOK, CallbackReturns \/ CallbackRestarts PROVE TypeOK'
<1> USE TimesAssumption
    DEF TypeOK, kiteVars, recordVars, updaterVars, storeVars, clocks
<1>1. CASE CallbackReturns
  BY <1>1 DEF CallbackReturns
<1>2. CASE CallbackRestarts
  BY <1>2 DEF CallbackRestarts, StartUpdater, Write, WriteFails
<1>3. QED
  BY <1>1, <1>2

LEMMA TypeUpdater ==
    ASSUME TypeOK, NEW g \in Updaters,
           DoSkips(g) \/ DoRuns(g) \/ Update(g) \/ TimeOut(g) \/ SetClosed(g)
    PROVE  TypeOK'
<1> USE TimesAssumption
    DEF TypeOK, kiteVars, recordVars, updaterVars, storeVars, clocks
<1>1. CASE DoSkips(g)
  BY <1>1 DEF DoSkips, TakePing
<1>2. CASE DoRuns(g)
  BY <1>2 DEF DoRuns, TakePing
<1>3. CASE Update(g)
  BY <1>3 DEF Update, Idle, Write, WriteFails
<1>4. CASE TimeOut(g)
  BY <1>4 DEF TimeOut
<1>5. CASE SetClosed(g)
  BY <1>5 DEF SetClosed, Idle
<1>6. QED
  BY <1>1, <1>2, <1>3, <1>4, <1>5

LEMMA TypeTime == ASSUME TypeOK, ExpireKey \/ Tick PROVE TypeOK'
<1>1. CASE ExpireKey
  BY <1>1 DEF ExpireKey, TypeOK, kiteVars, recordVars, updaterVars, clocks
<1>2. CASE Tick
  <2> USE <1>2, TimesAssumption, BoundNat DEF TypeOK
  <2>1. since' \in [Records -> 0..UpdateInterval + 1]
    BY LeastBound DEF Tick
  <2>2. timer' \in [Updaters -> 0..Timeout]
    BY LessBound DEF Tick
  <2>3. ttl' \in 0..KeyTTL
    BY LessBound DEF Tick
  <2>4. silent' \in 0..KeyTTL + 1
    BY LeastBound DEF Tick
  <2>5. settled' \in 0..UpdateBound + 1
    <3>1. settled \in Nat /\ settled' = Least(settled + 1, UpdateBound + 1)
      BY DEF Tick
    <3>2. QED
      BY <3>1, LeastBound
  <2>6. streak' \in 0..2
    BY DEF Tick
  <2>7. QED
    BY <2>1, <2>2, <2>3, <2>4, <2>5, <2>6 DEF Tick, kiteVars
<1>3. QED
  BY <1>1, <1>2

LEMMA TypeStep == TypeOK /\ [Next]_vars => TypeOK'
<1> SUFFICES ASSUME TypeOK, [Next]_vars PROVE TypeOK'
  OBVIOUS
<1>1. CASE UNCHANGED vars
  BY <1>1 DEF TypeOK, vars, kiteVars, recordVars, updaterVars, storeVars, clocks
<1>2. QED
  BY <1>1, TypeKite, TypeRegister, TypeHeartbeat, TypeCallback, TypeUpdater,
     TypeTime DEF Next, KiteStep, KontrolStep

(* Every reachable state is well typed. *)
THEOREM TypeCorrect == Spec => []TypeOK
  BY TypeInit, TypeStep, PTL DEF Spec

-----------------------------------------------------------------------------
(***************************************************************************)
(* A closed flag is only set when no updater is left.                      *)
(***************************************************************************)
ClosedInv == \A g \in Updaters : ~Idle(g) => of[g] \notin closed

UpdaterInv == OneUpdater /\ ClosedInv

LEMMA StartKeeps ==
    ASSUME TypeOK, UpdaterInv, NEW r \in Records, NEW g \in Updaters,
           StartUpdater(g, r), \A h \in Updaters : of[h] # r,
           closed' = closed \ {r}
    PROVE  UpdaterInv'
  BY NamesAssumption
  DEF TypeOK, UpdaterInv, OneUpdater, ClosedInv, StartUpdater, Idle

LEMMA UpdaterStep ==
    ASSUME TypeOK, UpdaterInv, [Next]_vars PROVE UpdaterInv'
<1>1. ASSUME UNCHANGED <<of, closed>> PROVE UpdaterInv'
  BY <1>1 DEF UpdaterInv, OneUpdater, ClosedInv, Idle
<1>2. ASSUME NEW v \in URLs, HandleRegister(v) PROVE UpdaterInv'
  <2>1. PICK r \in Records, g \in Updaters :
             Forgotten(r) /\ closed' = closed \ {r} /\ StartUpdater(g, r)
    BY <1>2 DEF HandleRegister
  <2>2. \A h \in Updaters : of[h] # r
    BY <2>1 DEF Forgotten
  <2>3. QED
    BY <2>1, <2>2, StartKeeps
<1>3. CASE CallbackRestarts
  <2>1. caller \in closed /\ caller \in Records
    BY <1>3 DEF CallbackRestarts, TypeOK
  <2>2. \A h \in Updaters : of[h] # caller
    BY <2>1, NamesAssumption DEF UpdaterInv, ClosedInv, Idle
  <2>3. QED
    BY <1>3, <2>1, <2>2, StartKeeps DEF CallbackRestarts
<1>4. ASSUME NEW g \in Updaters, SetClosed(g) PROVE UpdaterInv'
  BY <1>4 DEF SetClosed, TypeOK, UpdaterInv, OneUpdater, ClosedInv, Idle
<1>5. CASE Restart
  BY <1>5 DEF Restart, UpdaterInv, OneUpdater, ClosedInv, Idle
<1>6. CASE KiteStep
  BY <1>1, <1>6 DEF KiteStep, Connect, Disconnect, Stop, Heartbeat,
                    HandleHeartbeat, recordVars, updaterVars
<1>7. ASSUME NEW v \in URLs, HandleRegisterFails(v) PROVE UpdaterInv'
  BY <1>1, <1>7 DEF HandleRegisterFails, recordVars, updaterVars
<1>8. ASSUME NEW g \in Updaters,
             DoSkips(g) \/ DoRuns(g) \/ Update(g) \/ TimeOut(g)
      PROVE  UpdaterInv'
  BY <1>1, <1>8 DEF DoSkips, DoRuns, TakePing, Update, TimeOut, recordVars
<1>9. CASE CallbackReturns \/ ExpireKey \/ Tick \/ UNCHANGED vars
  BY <1>1, <1>9 DEF CallbackReturns, ExpireKey, Tick, vars, recordVars,
                    updaterVars
<1>10. QED
  BY <1>2, <1>3, <1>4, <1>5, <1>6, <1>7, <1>8, <1>9 DEF Next, KontrolStep

(* However heartbeats and the end of an updater interleave, a registration *)
(* never has two updaters at work.                                         *)
THEOREM UpdaterUnique == Spec => []OneUpdater
<1>1. Init => UpdaterInv
  BY DEF Init, UpdaterInv, OneUpdater, ClosedInv, Idle
<1>2. UpdaterInv => OneUpdater
  BY DEF UpdaterInv
<1>3. TypeOK /\ UpdaterInv /\ [Next]_vars => UpdaterInv'
  BY UpdaterStep
<1>4. QED
  BY <1>1, <1>2, <1>3, TypeInit, TypeStep, PTL DEF Spec

-----------------------------------------------------------------------------
(***************************************************************************)
(* The key is only written when kontrol has just heard of the kite.        *)
(***************************************************************************)

(* A ping an updater is about to take, or the update it makes of it, is as *)
(* recent as the heartbeat; one that nobody takes may be old.              *)
FreshInv ==
    /\ caller # NoRecord => silent = 0
    /\ \A g \in Updaters :
         ~Idle(g) /\ (pc[g] = "update" \/ of[g] \in ping) => silent = 0

AgeInv == url # None => silent + ttl <= KeyTTL

SilentInv == FreshInv /\ AgeInv

(* A step that writes the key or not, just after a heartbeat. *)
LEMMA AgeKept ==
    ASSUME TypeOK, AgeInv, silent' = 0,
           \/ ttl' = KeyTTL
           \/ UNCHANGED <<url, ttl>>
    PROVE  AgeInv'
  BY TimesAssumption DEF TypeOK, AgeInv

LEMMA OlderByOne ==
    ASSUME NEW a \in Nat, NEW s \in Nat, NEW t \in Nat, NEW m \in Nat,
           a <= s + 1, t > 0, s + t <= m
    PROVE  a + (t - 1) <= m
  OBVIOUS

LEMMA AgeTick == ASSUME TypeOK, AgeInv, Tick PROVE AgeInv'
<1>1. silent' <= silent + 1 /\ silent' \in Nat
  BY LeastBound, TimesAssumption DEF Tick, TypeOK
<1>2. ASSUME url' # None PROVE ttl > 0 /\ silent + ttl <= KeyTTL /\ ttl' = ttl - 1
  BY <1>2, TimesAssumption DEF Tick, TypeOK, AgeInv, Less
<1>3. silent \in Nat /\ ttl \in Nat /\ KeyTTL \in Nat
  BY TimesAssumption DEF TypeOK
<1>4. url' # None => silent' + ttl' <= KeyTTL
  BY <1>1, <1>2, <1>3, OlderByOne
<1>5. QED
  BY <1>4 DEF AgeInv

LEMMA SilentStep ==
    ASSUME TypeOK, SilentInv, [Next]_vars PROVE SilentInv'
<1> USE DEF SilentInv
<1>1. ASSUME UNCHANGED <<silent, caller, ping, of, pc, url, ttl>>
      PROVE  SilentInv'
  BY <1>1 DEF FreshInv, AgeInv, Idle
<1>2. ASSUME NEW r \in Records, CallbackPings(r), UNCHANGED <<url, ttl>>
      PROVE  SilentInv'
  BY <1>2, AgeKept DEF CallbackPings, FreshInv
<1>3. ASSUME NEW v \in URLs, HandleRegister(v) \/ HandleRegisterFails(v)
      PROVE  SilentInv'
  BY <1>3, AgeKept DEF HandleRegister, HandleRegisterFails, Write, WriteFails,
                       FreshInv
<1>4. CASE CallbackRestarts
  <2>1. silent = 0 /\ silent' = 0
    BY <1>4, NamesAssumption DEF CallbackRestarts, FreshInv, TypeOK, clocks
  <2>2. AgeInv'
    BY <1>4, <2>1, AgeKept DEF CallbackRestarts, Write, WriteFails
  <2>3. QED
    BY <2>1, <2>2 DEF FreshInv
<1>5. ASSUME NEW g \in Updaters, DoSkips(g) \/ DoRuns(g) PROVE SilentInv'
  <2>1. silent = 0 /\ silent' = 0
    BY <1>5 DEF DoSkips, DoRuns, TakePing, Selecting, FreshInv, clocks
  <2>2. AgeInv'
    BY <1>5, <2>1, AgeKept DEF DoSkips, DoRuns, TakePing, storeVars
  <2>3. QED
    BY <2>1, <2>2 DEF FreshInv
<1>6. ASSUME NEW g \in Updaters, Update(g) PROVE SilentInv'
  <2>1. silent = 0 /\ silent' = 0
    BY <1>6 DEF Update, FreshInv, clocks
  <2>2. AgeInv'
    BY <1>6, <2>1, AgeKept DEF Update, Write, WriteFails
  <2>3. QED
    BY <2>1, <2>2 DEF FreshInv
<1>7. ASSUME NEW g \in Updaters, TimeOut(g) \/ SetClosed(g) PROVE SilentInv'
  <2>1. AgeInv'
    BY <1>7 DEF TimeOut, SetClosed, AgeInv, storeVars, clocks
  <2>2. FreshInv'
    BY <1>7 DEF TimeOut, SetClosed, FreshInv, Idle, TypeOK, recordVars, clocks
  <2>3. QED
    BY <2>1, <2>2
<1>8. CASE Restart
  BY <1>8 DEF Restart, FreshInv, AgeInv, Idle, storeVars
<1>9. CASE CallbackReturns \/ ExpireKey
  BY <1>9 DEF CallbackReturns, ExpireKey, FreshInv, AgeInv, Idle, kiteVars,
              recordVars, updaterVars, storeVars, clocks
<1>10. CASE Tick
  <2>1. FreshInv'
    BY <1>10 DEF Tick, FreshInv, Waits, Idle
  <2>2. QED
    BY <1>10, <2>1, AgeTick
<1>11. CASE Connect \/ Disconnect \/ Stop \/ UNCHANGED vars
  BY <1>1, <1>11 DEF Connect, Disconnect, Stop, vars, recordVars, updaterVars,
                     storeVars, clocks
<1>12. CASE Heartbeat
  BY <1>2, <1>12 DEF Heartbeat, TypeOK, storeVars
<1>13. ASSUME NEW r \in Records, HandleHeartbeat(r) PROVE SilentInv'
  BY <1>2, <1>13 DEF HandleHeartbeat, storeVars
<1>14. QED
  BY <1>3, <1>4, <1>5, <1>6, <1>7, <1>8, <1>9, <1>10, <1>11, <1>12, <1>13
  DEF Next, KiteStep, KontrolStep

(* A kite that kontrol has not heard of for KeyTTL is unlisted, whatever   *)
(* the intervals and however many registrations it has left behind.        *)
THEOREM SilentUnlisted == Spec => []SilentIsUnlisted
<1>1. Init => SilentInv
  BY DEF Init, SilentInv, FreshInv, AgeInv, Idle
<1>2. TypeOK /\ SilentInv => SilentIsUnlisted
  BY TimesAssumption DEF TypeOK, SilentInv, AgeInv, SilentIsUnlisted
<1>3. TypeOK /\ SilentInv /\ [Next]_vars => SilentInv'
  BY SilentStep
<1>4. QED
  BY <1>1, <1>2, <1>3, TypeInit, TypeStep, PTL DEF Spec

-----------------------------------------------------------------------------
(***************************************************************************)
(* What the callbacks and the calls of a kite refer to.                    *)
(***************************************************************************)
Used(r) == r \in asked \/ r = beats \/ r = caller

(* A registration that is asked for has not had a heartbeat. *)
OrderInv == beats \notin asked /\ caller \notin asked

(* A registration that can still get heartbeats has an updater, or the     *)
(* flag that makes the next heartbeat start one.                           *)
KeptInv ==
    \A r \in Records : Used(r) => r \in closed \/ \E g \in Updaters : of[g] = r

ValueInv == \A r \in Records : ~Forgotten(r) => value[r] \in URLs

RecordInv == OrderInv /\ KeptInv /\ ValueInv

(* Steps that keep what refers to a registration. *)
SameRecords == UNCHANGED <<asked, beats, caller, value, closed, of>>

LEMMA SameKeeps == ASSUME RecordInv, SameRecords PROVE RecordInv'
  BY DEF RecordInv, SameRecords, OrderInv, KeptInv, ValueInv, Used, Forgotten

LEMMA LoseKeeps ==
    ASSUME TypeOK, RecordInv, LoseSession, caller' = NoRecord \/ UNCHANGED <<caller, of>>,
           UNCHANGED <<value, closed>>,
           UNCHANGED of \/ \A g \in Updaters : of'[g] = NoRecord
    PROVE  RecordInv'
  BY NamesAssumption DEF TypeOK, RecordInv, LoseSession, OrderInv, KeptInv, ValueInv, Used, Forgotten

LEMMA RegisterKeeps ==
    ASSUME TypeOK, RecordInv, NEW u \in URLs, HandleRegister(u) PROVE RecordInv'
<1>1. PICK r \in Records, g \in Updaters :
         /\ Forgotten(r) /\ Idle(g)
         /\ value' = [value EXCEPT ![r] = u] /\ closed' = closed \ {r}
         /\ asked' = asked \cup {r} /\ of' = [of EXCEPT ![g] = r]
  BY DEF HandleRegister, StartUpdater
<1>2. beats' = beats /\ caller' = caller
  BY DEF HandleRegister, kiteVars
<1>3. OrderInv'
  BY <1>1, <1>2 DEF RecordInv, OrderInv, Forgotten
<1>4. \A h \in Updaters : of[h] # NoRecord => of'[h] = of[h]
  BY <1>1 DEF Idle, TypeOK
<1>5. of'[g] = r /\ value'[r] = u /\ \A q \in Records : q # r => value'[q] = value[q]
  BY <1>1 DEF TypeOK
<1>6. ASSUME NEW q \in Records, Used(q)' PROVE q \in closed' \/ \E h \in Updaters : of'[h] = q
  <2>1. CASE q = r
    BY <1>5, <2>1
  <2>2. CASE q # r
    <3>1. Used(q)
      BY <1>1, <1>2, <1>6, <2>2 DEF Used
    <3>2. CASE q \in closed
      BY <1>1, <2>2, <3>2
    <3>3. ASSUME NEW h \in Updaters, of[h] = q PROVE of'[h] = q
      BY <1>4, <3>3, NamesAssumption
    <3>4. QED
      BY <3>1, <3>2, <3>3 DEF RecordInv, KeptInv
  <2>3. QED
    BY <2>1, <2>2
<1>7. ASSUME NEW q \in Records, ~Forgotten(q)' PROVE value'[q] \in URLs
  <2>1. CASE q = r
    BY <1>5, <2>1
  <2>2. CASE q # r
    <3>1. ~Forgotten(q)
      BY <1>1, <1>2, <1>7, <2>2 DEF Forgotten, TypeOK
    <3>2. QED
      BY <1>5, <2>2, <3>1 DEF RecordInv, ValueInv
  <2>3. QED
    BY <2>1, <2>2
<1>8. QED
  BY <1>3, <1>6, <1>7 DEF RecordInv, KeptInv, ValueInv

LEMMA RecordStep == ASSUME TypeOK, RecordInv, [Next]_vars PROVE RecordInv'
<1>1. CASE \/ Connect \/ ExpireKey \/ Tick \/ UNCHANGED vars
           \/ \E u \in URLs : HandleRegisterFails(u)
           \/ \E g \in Updaters : DoSkips(g) \/ DoRuns(g) \/ Update(g) \/ TimeOut(g)
  <2>1. SameRecords
    BY <1>1 DEF Connect, ExpireKey, Tick, vars, HandleRegisterFails, DoSkips, DoRuns, TakePing,
                Update, TimeOut, kiteVars, recordVars, updaterVars, SameRecords
  <2>2. QED
    BY <2>1, SameKeeps
<1>2. CASE Disconnect \/ Stop \/ Restart
  BY <1>2, LoseKeeps DEF Disconnect, Stop, Restart, updaterVars
<1>3. ASSUME NEW r \in Records, HandleHeartbeat(r) PROVE RecordInv'
  <2>1. /\ r \in asked /\ asked' = asked \ {r} /\ beats' = r /\ caller' = r
        /\ UNCHANGED <<value, closed, of>>
    BY <1>3 DEF HandleHeartbeat, CallbackPings, updaterVars
  <2>2. QED
    BY <2>1 DEF RecordInv, OrderInv, KeptInv, ValueInv, Used, Forgotten
<1>4. CASE Heartbeat
  <2>1. beats # NoRecord /\ caller' = beats /\ UNCHANGED <<asked, beats, value, closed, of>>
    BY <1>4 DEF Heartbeat, CallbackPings, updaterVars, kiteVars
  <2>2. QED
    BY <2>1 DEF RecordInv, OrderInv, KeptInv, ValueInv, Used, Forgotten
<1>5. CASE CallbackReturns
  <2>1. caller' = NoRecord /\ UNCHANGED <<asked, beats, value, closed, of>>
    BY <1>5 DEF CallbackReturns, updaterVars, kiteVars
  <2>2. QED
    BY <2>1, NamesAssumption DEF TypeOK, RecordInv, OrderInv, KeptInv, ValueInv, Used, Forgotten
<1>6. CASE CallbackRestarts
  <2>1. PICK g \in Updaters : Idle(g) /\ of' = [of EXCEPT ![g] = caller]
    BY <1>6 DEF CallbackRestarts, StartUpdater
  <2>2. /\ caller \in Records /\ caller' = NoRecord /\ closed' = closed \ {caller}
        /\ UNCHANGED <<asked, beats, value>>
    BY <1>6 DEF CallbackRestarts, kiteVars, TypeOK
  <2>3. of'[g] = caller /\ \A h \in Updaters : of[h] # NoRecord => of'[h] = of[h]
    BY <2>1 DEF Idle, TypeOK
  <2>4. \A r \in Records : Used(r)' => Used(r)
    BY <2>2, NamesAssumption DEF Used
  <2>5. KeptInv'
    BY <2>2, <2>3, <2>4, NamesAssumption DEF RecordInv, KeptInv
  <2>6. \A r \in Records : ~Forgotten(r)' => ~Forgotten(r)
    BY <2>1, <2>2, NamesAssumption DEF Forgotten, TypeOK
  <2>7. QED
    BY <2>2, <2>5, <2>6, NamesAssumption DEF RecordInv, ValueInv, OrderInv, TypeOK
<1>7. ASSUME NEW g \in Updaters, SetClosed(g) PROVE RecordInv'
  <2>1. /\ ~Idle(g) /\ closed' = closed \cup {of[g]} /\ of' = [of EXCEPT ![g] = NoRecord]
        /\ UNCHANGED <<asked, beats, caller, value>>
    BY <1>7 DEF SetClosed, kiteVars
  <2>2. KeptInv'
    BY <2>1 DEF TypeOK, RecordInv, KeptInv, Used
  <2>3. \A r \in Records : ~Forgotten(r)' => ~Forgotten(r)
    BY <2>1, NamesAssumption DEF Forgotten, TypeOK
  <2>4. QED
    BY <2>1, <2>2, <2>3 DEF RecordInv, OrderInv, ValueInv
<1>8. QED
  BY <1>1, <1>2, <1>3, <1>4, <1>5, <1>6, <1>7, RegisterKeeps DEF Next, KiteStep, KontrolStep

-----------------------------------------------------------------------------
(***************************************************************************)
(* A kite with regular heartbeats stays listed.                            *)
(***************************************************************************)

(* Heartbeats that are regular keep an updater waiting, and come before    *)
(* the key expires even where the updater skips as many as it may.         *)
Intervals ==
    /\ Gap < Timeout
    /\ Timeout + Gap < KeyTTL
    /\ UpdateInterval + Gap < KeyTTL

Longest == IF UpdateInterval > Timeout THEN UpdateInterval ELSE Timeout

LEMMA LongestFacts ==
    /\ Longest \in Nat /\ Longest >= UpdateInterval /\ Longest >= Timeout
    /\ Intervals => Longest + Gap < KeyTTL
  BY TimesAssumption DEF Longest, Intervals

CountInv == streak > 0 => silent <= Gap

LEMMA CountStep == ASSUME TypeOK, CountInv, [Next]_vars PROVE CountInv'
<1>1. ASSUME silent' = 0 PROVE CountInv'
  BY <1>1, TimesAssumption DEF CountInv
<1>2. ASSUME UNCHANGED <<silent, streak>> PROVE CountInv'
  BY <1>2 DEF CountInv
<1>3. CASE Tick
  <2>1. ASSUME streak' > 0 PROVE silent' <= Gap
    <3>1. silent < Gap /\ silent \in Nat
      BY <1>3, <2>1 DEF Tick, TypeOK
    <3>2. silent' <= silent + 1 /\ silent' \in Nat
      BY <1>3, LeastBound, TimesAssumption DEF Tick, TypeOK
    <3>3. QED
      BY <3>1, <3>2, TimesAssumption
  <2>2. QED
    BY <2>1 DEF CountInv
<1>4. CASE Restart
  BY <1>4 DEF Restart, CountInv
<1>5. CASE Connect \/ Disconnect \/ Stop \/ UNCHANGED vars
  BY <1>2, <1>5 DEF Connect, Disconnect, Stop, vars, clocks
<1>6. CASE Heartbeat \/ \E r \in Records : HandleHeartbeat(r)
  BY <1>1, <1>6 DEF Heartbeat, HandleHeartbeat, CallbackPings
<1>7. CASE \E u \in URLs : HandleRegister(u) \/ HandleRegisterFails(u)
  BY <1>1, <1>7 DEF HandleRegister, HandleRegisterFails
<1>8. CASE \/ CallbackReturns \/ CallbackRestarts \/ ExpireKey
           \/ \E g \in Updaters : \/ DoSkips(g) \/ DoRuns(g) \/ Update(g)
                                  \/ TimeOut(g) \/ SetClosed(g)
  BY <1>2, <1>8 DEF CallbackReturns, CallbackRestarts, ExpireKey, DoSkips, DoRuns, TakePing,
                    Update, TimeOut, SetClosed, clocks
<1>9. QED
  BY <1>3, <1>4, <1>5, <1>6, <1>7, <1>8 DEF Next, KiteStep, KontrolStep

(* The updater of a registration that is asked for has nothing to do. *)
UnpingedInv ==
    \A g \in Updaters : of[g] \in asked => pc[g] # "update" /\ of[g] \notin ping

LEMMA UnpingedStep ==
    ASSUME TypeOK, RecordInv, UnpingedInv, [Next]_vars PROVE UnpingedInv'
<1>0. NoRecord \notin asked
  BY NamesAssumption DEF TypeOK
<1>1. CASE \/ Connect \/ ExpireKey \/ Tick \/ CallbackReturns \/ UNCHANGED vars
           \/ \E u \in URLs : HandleRegisterFails(u)
  <2>1. UNCHANGED <<of, pc, asked, ping>>
    BY <1>1 DEF Connect, ExpireKey, Tick, CallbackReturns, vars, HandleRegisterFails,
                recordVars, updaterVars
  <2>2. QED
    BY <2>1 DEF UnpingedInv
<1>2. CASE Disconnect \/ Stop \/ Restart
  BY <1>2 DEF Disconnect, Stop, Restart, LoseSession, UnpingedInv
<1>3. ASSUME NEW r \in Records, HandleHeartbeat(r) PROVE UnpingedInv'
  BY <1>3 DEF HandleHeartbeat, CallbackPings, UnpingedInv, updaterVars
<1>4. CASE Heartbeat
  BY <1>4 DEF Heartbeat, CallbackPings, UnpingedInv, updaterVars, RecordInv, OrderInv
<1>5. ASSUME NEW u \in URLs, HandleRegister(u) PROVE UnpingedInv'
  <2>1. PICK r \in Records, g \in Updaters :
           /\ Forgotten(r) /\ ping' = ping \ {r} /\ asked' = asked \cup {r}
           /\ of' = [of EXCEPT ![g] = r] /\ pc' = [pc EXCEPT ![g] = "select"]
    BY <1>5 DEF HandleRegister, StartUpdater
  <2>2. QED
    BY <2>1 DEF UnpingedInv, Forgotten, TypeOK
<1>6. CASE CallbackRestarts
  <2>1. PICK g \in Updaters : /\ of' = [of EXCEPT ![g] = caller]
                              /\ pc' = [pc EXCEPT ![g] = "select"]
    BY <1>6 DEF CallbackRestarts, StartUpdater
  <2>2. UNCHANGED <<asked, ping>> /\ caller \notin asked
    BY <1>6 DEF CallbackRestarts, RecordInv, OrderInv
  <2>3. QED
    BY <2>1, <2>2 DEF UnpingedInv, TypeOK
<1>7. ASSUME NEW g \in Updaters, DoSkips(g) \/ DoRuns(g) PROVE UnpingedInv'
  BY <1>7 DEF DoSkips, DoRuns, TakePing, UnpingedInv, TypeOK
<1>8. ASSUME NEW g \in Updaters, Update(g) \/ TimeOut(g) \/ SetClosed(g) PROVE UnpingedInv'
  BY <1>0, <1>8 DEF Update, TimeOut, SetClosed, UnpingedInv, TypeOK, recordVars
<1>9. QED
  BY <1>1, <1>2, <1>3, <1>4, <1>5, <1>6, <1>7, <1>8 DEF Next, KiteStep, KontrolStep

(* The key is there, and was written at most x ago. *)
Enough(x) == url # None /\ ttl + x >= KeyTTL

(* An updater that would skip the next ping has written the key since. *)
SinceInv ==
    \A g \in Updaters :
        ~Idle(g) /\ pc[g] # "update" /\ since[of[g]] <= UpdateInterval =>
            Enough(since[of[g]])

(* A registration is as old as the wait of its updater for a heartbeat. *)
AskInv == \A g \in Updaters : of[g] \in asked => Enough(Timeout - timer[g])

(* The updater of the registration with heartbeats has waited since the    *)
(* last of them, unless the kite has registered since.                     *)
Beating(g) == ~Idle(g) /\ of[g] = beats /\ streak > 0

BeatInv ==
    \A g \in Updaters : Beating(g) =>
        /\ pc[g] = "select" /\ of[g] \notin ping =>
              \/ timer[g] + silent >= Timeout /\ Enough(UpdateInterval + silent)
              \/ Enough(silent)
        /\ pc[g] = "ending" /\ silent > 0 => Enough(silent)

(* The key is recent, or one that will be written before time passes. *)
Refreshing(g) ==
    /\ ~Idle(g) /\ silent = 0 /\ Enough(Longest + Gap)
    /\ \/ pc[g] = "update"
       \/ pc[g] = "select" /\ of[g] \in ping /\ timer[g] + Gap >= Timeout

ListInv ==
    streak = 2 => \/ caller \in closed
                  \/ Enough(Longest + silent)
                  \/ \E g \in Updaters : Refreshing(g)

EnoughInv == SinceInv /\ AskInv /\ BeatInv /\ ListInv

Wrote == url' \in URLs /\ ttl' = KeyTTL

LEMMA NoFailure == ASSUME TypeOK, [Next]_vars, failures' = 0 PROVE failures = 0
<1> USE DEF TypeOK
<1>1. ASSUME NEW v, Write(v) \/ WriteFails(v) PROVE failures = 0
  BY <1>1 DEF Write, WriteFails
<1>2. CASE failures' = failures
  BY <1>2
<1>3. CASE KiteStep \/ Tick \/ UNCHANGED vars
  BY <1>2, <1>3 DEF KiteStep, Connect, Disconnect, Stop, Heartbeat, HandleHeartbeat, Tick,
                    vars, storeVars
<1>4. CASE KontrolStep
  BY <1>1, <1>2, <1>4 DEF KontrolStep, HandleRegister, HandleRegisterFails, CallbackReturns,
        CallbackRestarts, DoSkips, DoRuns, TakePing, Update, TimeOut, SetClosed, ExpireKey,
        Restart, storeVars
<1>5. QED
  BY <1>3, <1>4 DEF Next

(* Without a failure, the steps that write the key write it. *)
LEMMA Writes ==
    ASSUME TypeOK, RecordInv, failures' = 0,
           \/ \E u \in URLs : HandleRegister(u) \/ HandleRegisterFails(u)
           \/ CallbackRestarts
           \/ \E g \in Updaters : Update(g)
    PROVE  /\ Wrote
           /\ CallbackRestarts => url' = value[caller]
           /\ \A g \in Updaters : Update(g) => url' = value[of[g]]
<1>1. ASSUME NEW v, WriteFails(v) PROVE FALSE
  BY <1>1 DEF WriteFails, TypeOK
<1>2. ASSUME NEW u \in URLs, HandleRegister(u) \/ HandleRegisterFails(u) PROVE Wrote
  BY <1>1, <1>2 DEF HandleRegister, HandleRegisterFails, Write, Wrote
<1>3. CallbackRestarts => url' = value[caller] /\ Wrote
  <2> SUFFICES ASSUME CallbackRestarts PROVE url' = value[caller] /\ Wrote
    OBVIOUS
  <2>1. Write(value[caller])
    BY <1>1 DEF CallbackRestarts
  <2>2. value[caller] \in URLs
    BY DEF CallbackRestarts, TypeOK, RecordInv, ValueInv, Forgotten
  <2>3. QED
    BY <2>1, <2>2 DEF Write, Wrote
<1>4. ASSUME NEW g \in Updaters, Update(g) PROVE url' = value[of[g]] /\ Wrote
  <2>1. Write(value[of[g]])
    BY <1>1, <1>4 DEF Update
  <2>2. value[of[g]] \in URLs
    BY <1>4 DEF Update, Idle, TypeOK, RecordInv, ValueInv, Forgotten
  <2>3. QED
    BY <2>1, <2>2 DEF Write, Wrote
<1>5. QED
  BY <1>2, <1>3, <1>4

LEMMA WroteKeeps == ASSUME TypeOK', Wrote PROVE EnoughInv'
<1>1. \A x \in Nat : url' # None /\ ttl' + x >= KeyTTL
  BY NamesAssumption, TimesAssumption DEF Wrote
<1>2. \A r \in Records : since'[r] \in Nat
  BY TimesAssumption DEF TypeOK
<1>3. \A g \in Updaters : Timeout - timer'[g] \in Nat
  BY TimesAssumption DEF TypeOK
<1>4. silent' \in Nat /\ Longest + silent' \in Nat
  <2>1. silent' \in 0..KeyTTL + 1
    BY DEF TypeOK
  <2>2. silent' \in Nat
    BY <2>1, TimesAssumption
  <2>3. \A m, n \in Nat : m + n \in Nat
    OBVIOUS
  <2>4. Longest \in Nat
    BY LongestFacts
  <2>5. QED
    BY <2>2, <2>3, <2>4, Zenon
<1>5. SinceInv'
  BY <1>1, <1>2 DEF SinceInv, Enough, Idle, TypeOK
<1>6. AskInv'
  BY <1>1, <1>3 DEF AskInv, Enough
<1>7. BeatInv'
  BY <1>1, <1>4 DEF BeatInv, Enough
<1>8. ListInv'
  BY <1>1, <1>4 DEF ListInv, Enough
<1>9. QED
  BY <1>5, <1>6, <1>7, <1>8 DEF EnoughInv

(* The key does not expire while it is recent enough. *)
LEMMA ExpireKeeps ==
    ASSUME TypeOK, Intervals, CountInv, EnoughInv, ExpireKey PROVE EnoughInv'
<1>1. \A x \in Nat : x < KeyTTL => ~Enough(x)
  BY TimesAssumption DEF ExpireKey, Enough
<1>2. UNCHANGED <<kiteVars, recordVars, updaterVars, clocks>>
  BY DEF ExpireKey
<1>3. UNCHANGED <<asked, beats, ping, since, of, pc, timer, silent, streak, caller, closed>>
  BY <1>2 DEF kiteVars, recordVars, updaterVars, clocks
<1>4. SinceInv'
  <2>1. \A g \in Updaters : ~Idle(g) => since[of[g]] \in Nat
    BY TimesAssumption DEF TypeOK, Idle
  <2>2. \A x \in Nat : x <= UpdateInterval => x < KeyTTL
    BY TimesAssumption DEF Intervals
  <2>3. QED
    BY <1>1, <1>3, <2>1, <2>2 DEF SinceInv, EnoughInv, Idle
<1>5. AskInv'
  <2>1. \A g \in Updaters : Timeout - timer[g] \in Nat /\ Timeout - timer[g] < KeyTTL
    BY TimesAssumption DEF TypeOK, Intervals
  <2>2. QED
    BY <1>1, <1>3, <2>1 DEF AskInv, EnoughInv
<1>6. streak > 0 => /\ silent \in Nat /\ silent < KeyTTL
                    /\ UpdateInterval + silent \in Nat /\ UpdateInterval + silent < KeyTTL
  BY TimesAssumption DEF TypeOK, Intervals, CountInv
<1>7. BeatInv'
  BY <1>1, <1>3, <1>6 DEF BeatInv, EnoughInv, Beating, Idle
<1>8. streak > 0 => Longest + silent \in Nat /\ Longest + silent < KeyTTL
  <2>1. Longest + Gap < KeyTTL
    BY LongestFacts
  <2>2. QED
    BY <2>1, LongestFacts, TimesAssumption DEF TypeOK, CountInv
<1>9. Longest + Gap \in Nat /\ Longest + Gap < KeyTTL
  BY LongestFacts, TimesAssumption
<1>10. ListInv'
  BY <1>1, <1>3, <1>8, <1>9 DEF ListInv, EnoughInv, Refreshing
<1>11. QED
  BY <1>4, <1>5, <1>7, <1>10 DEF EnoughInv

LEMMA TickKeeps ==
    ASSUME TypeOK, Intervals, CountInv, EnoughInv, Tick PROVE EnoughInv'
<1>1. ASSUME NEW x \in Int, NEW y \in Int, Enough(x), y >= x + 1
      PROVE  url' # None /\ ttl' + y >= KeyTTL
  BY <1>1, TimesAssumption DEF Enough, Tick, TypeOK, Less
<1>2. UNCHANGED <<asked, beats, ping, of, pc, caller, closed>> /\ caller = NoRecord
  BY DEF Tick, kiteVars
<1>3. \A g \in Updaters : ~Idle(g) => pc[g] = "select" /\ of[g] \notin ping /\ timer[g] > 0
  BY DEF Tick, Waits
<1>4. \A g \in Updaters : ~Idle(g) => timer'[g] = timer[g] - 1 /\ timer[g] \in 0..Timeout
  BY <1>3, TimesAssumption DEF Tick, TypeOK, Less
<1>5. ASSUME streak' > 0
      PROVE  /\ silent' = silent + 1 /\ streak' = streak /\ silent \in Nat
  BY <1>5, TimesAssumption DEF Tick, TypeOK, Intervals, Least
<1>6. SinceInv'
  <2>1. ASSUME NEW g \in Updaters, ~Idle(g), since'[of[g]] <= UpdateInterval
        PROVE  since'[of[g]] = since[of[g]] + 1 /\ since[of[g]] \in 0..UpdateInterval
    BY <2>1, TimesAssumption DEF Tick, TypeOK, Least, Idle
  <2>2. QED
    BY <1>1, <1>2, <1>3, <2>1, TimesAssumption DEF SinceInv, EnoughInv, Idle, Enough
<1>7. AskInv'
  <2>1. ASSUME NEW g \in Updaters, of[g] \in asked PROVE ~Idle(g)
    BY <2>1, NamesAssumption DEF Idle, TypeOK
  <2>2. ASSUME NEW g \in Updaters, of[g] \in asked
        PROVE  url' # None /\ ttl' + (Timeout - timer'[g]) >= KeyTTL
    <3>1. /\ Timeout - timer[g] \in Int /\ Timeout - timer'[g] \in Int
          /\ Timeout - timer'[g] >= Timeout - timer[g] + 1
      BY <1>4, <2>1, <2>2, TimesAssumption
    <3>2. Enough(Timeout - timer[g])
      BY <2>2 DEF AskInv, EnoughInv
    <3>3. QED
      BY <1>1, <3>1, <3>2
  <2>3. QED
    BY <1>2, <2>2 DEF AskInv, Enough
<1>8. BeatInv'
  <2> SUFFICES ASSUME NEW g \in Updaters, ~Idle(g), of[g] = beats, streak' > 0
               PROVE  \/ /\ timer'[g] + silent' >= Timeout
                         /\ url' # None /\ ttl' + (UpdateInterval + silent') >= KeyTTL
                      \/ url' # None /\ ttl' + silent' >= KeyTTL
    BY <1>2, <1>3 DEF BeatInv, Beating, Idle, Enough
  <2>1. \/ timer[g] + silent >= Timeout /\ Enough(UpdateInterval + silent)
        \/ Enough(silent)
    BY <1>3, <1>5 DEF BeatInv, Beating, EnoughInv
  <2>2. CASE Enough(silent)
    BY <1>1, <1>5, <2>2
  <2>3. CASE timer[g] + silent >= Timeout /\ Enough(UpdateInterval + silent)
    <3>1. timer'[g] + silent' >= Timeout
      BY <1>4, <1>5, <2>3, TimesAssumption
    <3>2. /\ UpdateInterval + silent \in Int /\ UpdateInterval + silent' \in Int
          /\ UpdateInterval + silent' >= UpdateInterval + silent + 1
      BY <1>5, TimesAssumption
    <3>3. QED
      BY <1>1, <2>3, <3>1, <3>2
  <2>4. QED
    BY <2>1, <2>2, <2>3
<1>9. ListInv'
  <2> SUFFICES ASSUME streak' = 2
               PROVE  url' # None /\ ttl' + (Longest + silent') >= KeyTTL
    BY DEF ListInv, Enough
  <2>1. streak = 2 /\ silent' = silent + 1 /\ silent \in Nat
    BY <1>5
  <2>2. Enough(Longest + silent)
    BY <1>2, <1>3, <2>1, NamesAssumption DEF ListInv, EnoughInv, Refreshing, TypeOK
  <2>3. /\ Longest + silent \in Int /\ Longest + silent' \in Int
        /\ Longest + silent' >= Longest + silent + 1
    BY <2>1, LongestFacts
  <2>4. QED
    BY <1>1, <2>2, <2>3
<1>10. QED
  BY <1>6, <1>7, <1>8, <1>9 DEF EnoughInv

(* Steps that leave the key alone and no time passes in. *)
LEMMA SinceCalm ==
    ASSUME TypeOK, SinceInv, UNCHANGED <<since, url, ttl>>,
           \A g \in Updaters : ~Idle(g)' /\ pc'[g] # "update" =>
                                  of'[g] = of[g] /\ pc[g] # "update"
    PROVE  SinceInv'
  BY DEF SinceInv, Enough, Idle

LEMMA AskCalm ==
    ASSUME TypeOK, AskInv, UNCHANGED <<url, ttl>>, asked' \subseteq asked,
           \A g \in Updaters : of'[g] \in asked => of'[g] = of[g] /\ timer'[g] = timer[g]
    PROVE  AskInv'
  BY DEF AskInv, Enough

(* Two updaters are at work for two registrations. *)
LEMMA TakenPing ==
    ASSUME UpdaterInv, NEW g \in Updaters, NEW h \in Updaters, ~Idle(g), h # g
    PROVE  of[h] \in ping \ {of[g]} <=> of[h] \in ping
  BY DEF UpdaterInv, OneUpdater

LEMMA SkipsKeeps ==
    ASSUME TypeOK, UpdaterInv, UnpingedInv, EnoughInv, SilentInv, Intervals,
           NEW g \in Updaters, DoSkips(g)
    PROVE  EnoughInv'
<1>1. /\ ~Idle(g) /\ pc[g] = "select" /\ of[g] \in ping /\ ping' = ping \ {of[g]}
      /\ since[of[g]] <= UpdateInterval /\ timer' = [timer EXCEPT ![g] = Timeout]
      /\ UNCHANGED <<since, pc, of, asked, beats, closed, caller, url, ttl, silent, streak>>
  BY DEF DoSkips, TakePing, Selecting, kiteVars, storeVars, clocks
<1>2. \A h \in Updaters : h # g => timer'[h] = timer[h]
  BY <1>1 DEF TypeOK
<1>3. timer'[g] = Timeout
  BY <1>1 DEF TypeOK
<1>4. silent = 0
  BY <1>1 DEF SilentInv, FreshInv
<1>5. Enough(UpdateInterval)
  <2>1. Enough(since[of[g]])
    BY <1>1 DEF EnoughInv, SinceInv
  <2>2. since[of[g]] \in Nat /\ ttl \in Nat
    BY <1>1, TimesAssumption DEF TypeOK, Idle
  <2>3. QED
    BY <1>1, <2>1, <2>2, TimesAssumption DEF Enough
<1>6. SinceInv'
  BY <1>1, SinceCalm DEF EnoughInv, Idle
<1>7. AskInv'
  BY <1>1, <1>2, AskCalm DEF EnoughInv, UnpingedInv
<1>8. BeatInv'
  <2> SUFFICES ASSUME NEW h \in Updaters, Beating(h)
               PROVE  /\ pc[h] = "select" /\ of[h] \notin ping' =>
                            \/ timer'[h] + silent >= Timeout /\ Enough(UpdateInterval + silent)
                            \/ Enough(silent)
                      /\ pc[h] = "ending" /\ silent > 0 => Enough(silent)
    BY <1>1 DEF BeatInv, Beating, Idle, Enough
  <2>1. CASE h = g
    BY <1>1, <1>3, <1>4, <1>5, <2>1, TimesAssumption DEF Enough
  <2>2. CASE h # g
    BY <1>1, <1>2, <2>2, TakenPing DEF EnoughInv, BeatInv
  <2>3. QED
    BY <2>1, <2>2
<1>9. Enough(Longest + silent)
  BY <1>4, <1>5, LongestFacts, TimesAssumption DEF Enough, TypeOK
<1>10. ListInv'
  BY <1>1, <1>9 DEF ListInv, Enough
<1>11. QED
  BY <1>6, <1>7, <1>8, <1>10 DEF EnoughInv

LEMMA RunsKeeps ==
    ASSUME TypeOK, UpdaterInv, EnoughInv, Intervals, NEW g \in Updaters, DoRuns(g)
    PROVE  EnoughInv'
<1>1. /\ ~Idle(g) /\ pc[g] = "select" /\ of[g] \in ping /\ ping' = ping \ {of[g]}
      /\ since' = [since EXCEPT ![of[g]] = 0] /\ pc' = [pc EXCEPT ![g] = "update"]
      /\ UNCHANGED <<timer, of, asked, beats, closed, caller, url, ttl, silent, streak>>
  BY DEF DoRuns, TakePing, Selecting, kiteVars, storeVars, clocks
<1>2. pc'[g] = "update" /\ \A h \in Updaters : h # g => pc'[h] = pc[h]
  BY <1>1 DEF TypeOK
<1>3. ASSUME NEW h \in Updaters, h # g, ~Idle(h) PROVE since'[of[h]] = since[of[h]]
  BY <1>1, <1>3 DEF UpdaterInv, OneUpdater, TypeOK, Idle
<1>4. SinceInv'
  BY <1>1, <1>2, <1>3 DEF SinceInv, EnoughInv, Idle, Enough
<1>5. AskInv'
  BY <1>1, AskCalm DEF EnoughInv
<1>6. BeatInv'
  <2> SUFFICES ASSUME NEW h \in Updaters, Beating(h), h # g
               PROVE  /\ pc[h] = "select" /\ of[h] \notin ping' =>
                            \/ timer[h] + silent >= Timeout /\ Enough(UpdateInterval + silent)
                            \/ Enough(silent)
                      /\ pc[h] = "ending" /\ silent > 0 => Enough(silent)
    BY <1>1, <1>2 DEF BeatInv, Beating, Idle, Enough
  <2>1. QED
    BY <1>1, TakenPing DEF EnoughInv, BeatInv
<1>7. ASSUME NEW h \in Updaters, Refreshing(h) PROVE Refreshing(h)'
  <2>1. CASE h = g
    BY <1>1, <1>2, <1>7, <2>1 DEF Refreshing, Idle, Enough
  <2>2. CASE h # g
    BY <1>1, <1>2, <1>7, <2>2, TakenPing DEF Refreshing, Idle, Enough
  <2>3. QED
    BY <2>1, <2>2
<1>8. ListInv'
  BY <1>1, <1>7 DEF ListInv, EnoughInv, Enough
<1>9. QED
  BY <1>4, <1>5, <1>6, <1>8 DEF EnoughInv

LEMMA TimeOutKeeps ==
    ASSUME TypeOK, EnoughInv, CountInv, SilentInv, Intervals, NEW g \in Updaters, TimeOut(g)
    PROVE  EnoughInv'
<1>1. /\ ~Idle(g) /\ pc[g] = "select" /\ timer[g] = 0 /\ pc' = [pc EXCEPT ![g] = "ending"]
      /\ UNCHANGED <<since, timer, of, asked, ping, beats, closed, caller, url, ttl, silent, streak>>
  BY DEF TimeOut, Selecting, kiteVars, recordVars, storeVars, clocks
<1>2. pc'[g] = "ending" /\ \A h \in Updaters : h # g => pc'[h] = pc[h]
  BY <1>1 DEF TypeOK
<1>3. SinceInv'
  BY <1>1, <1>2, SinceCalm DEF EnoughInv, Idle
<1>4. AskInv'
  BY <1>1, AskCalm DEF EnoughInv
<1>5. ASSUME Beating(g), silent > 0 PROVE Enough(silent)
  <2>1. of[g] \notin ping
    BY <1>1, <1>5 DEF SilentInv, FreshInv
  <2>2. ~(timer[g] + silent >= Timeout)
    BY <1>1, <1>5, TimesAssumption DEF Beating, CountInv, Intervals, TypeOK
  <2>3. QED
    BY <1>1, <1>5, <2>1, <2>2 DEF EnoughInv, BeatInv
<1>6. BeatInv'
  <2> SUFFICES ASSUME NEW h \in Updaters, Beating(h)
               PROVE  /\ pc'[h] = "select" /\ of[h] \notin ping =>
                            \/ timer[h] + silent >= Timeout /\ Enough(UpdateInterval + silent)
                            \/ Enough(silent)
                      /\ pc'[h] = "ending" /\ silent > 0 => Enough(silent)
    BY <1>1 DEF BeatInv, Beating, Idle, Enough
  <2>1. CASE h = g
    BY <1>2, <1>5, <2>1
  <2>2. CASE h # g
    BY <1>2, <2>2 DEF EnoughInv, BeatInv
  <2>3. QED
    BY <2>1, <2>2
<1>7. ASSUME NEW h \in Updaters, Refreshing(h) PROVE Refreshing(h)'
  <2>1. h # g
    BY <1>1, <1>7, TimesAssumption DEF Refreshing, Intervals
  <2>2. QED
    BY <1>1, <1>2, <1>7, <2>1 DEF Refreshing, Idle, Enough
<1>8. ListInv'
  BY <1>1, <1>7 DEF ListInv, EnoughInv, Enough
<1>9. QED
  BY <1>3, <1>4, <1>6, <1>8 DEF EnoughInv

LEMMA ClosedKeeps ==
    ASSUME TypeOK, EnoughInv, NEW g \in Updaters, SetClosed(g) PROVE EnoughInv'
<1>1. /\ ~Idle(g) /\ pc[g] = "ending" /\ of' = [of EXCEPT ![g] = NoRecord]
      /\ pc' = [pc EXCEPT ![g] = "select"] /\ closed' = closed \cup {of[g]}
      /\ UNCHANGED <<since, timer, asked, ping, beats, caller, url, ttl, silent, streak>>
  BY DEF SetClosed, kiteVars, recordVars, storeVars, clocks
<1>2. /\ of'[g] = NoRecord
      /\ \A h \in Updaters : h # g => pc'[h] = pc[h] /\ of'[h] = of[h]
  BY <1>1 DEF TypeOK
<1>3. SinceInv'
  BY <1>1, <1>2, SinceCalm DEF EnoughInv, Idle
<1>4. AskInv'
  <2>1. NoRecord \notin asked
    BY NamesAssumption DEF TypeOK
  <2>2. QED
    BY <1>1, <1>2, <2>1, AskCalm DEF EnoughInv
<1>5. BeatInv'
  BY <1>1, <1>2 DEF BeatInv, EnoughInv, Beating, Idle, Enough
<1>6. ASSUME NEW h \in Updaters, Refreshing(h) PROVE Refreshing(h)'
  BY <1>1, <1>2, <1>6 DEF Refreshing, Idle, Enough
<1>7. ListInv'
  BY <1>1, <1>6 DEF ListInv, EnoughInv, Enough
<1>8. QED
  BY <1>3, <1>4, <1>5, <1>7 DEF EnoughInv

(* Nothing that matters to the key changes. *)
SameKey ==
    UNCHANGED <<since, timer, of, pc, asked, ping, beats, closed, caller, url, ttl,
                silent, streak>>

LEMMA SameKeyKeeps == ASSUME EnoughInv, SameKey PROVE EnoughInv'
  BY DEF EnoughInv, SameKey, SinceInv, AskInv, BeatInv, ListInv, Beating, Refreshing, Enough, Idle

(* The session is lost, or the callback of a running updater returns. *)
LEMMA SessionKeeps ==
    ASSUME TypeOK, EnoughInv, Disconnect \/ Stop \/ Restart \/ CallbackReturns PROVE EnoughInv'
<1>1. UNCHANGED <<since, timer, ping, closed, url, ttl, silent>> /\ asked' \subseteq asked
  BY DEF Disconnect, Stop, Restart, CallbackReturns, LoseSession, updaterVars, storeVars, clocks
<1>2. CASE Restart
  <2>1. /\ \A g \in Updaters : of'[g] = NoRecord
        /\ streak' = 0 /\ beats' = NoRecord /\ asked' = {}
    BY <1>2 DEF Restart, LoseSession
  <2>2. QED
    BY <2>1 DEF EnoughInv, SinceInv, AskInv, BeatInv, ListInv, Beating, Idle
<1>3. CASE Disconnect \/ Stop \/ CallbackReturns
  <2>1. UNCHANGED <<of, pc, streak>>
    BY <1>3 DEF Disconnect, Stop, CallbackReturns, updaterVars, clocks
  <2>2. SinceInv' /\ AskInv'
    BY <1>1, <2>1, SinceCalm, AskCalm DEF EnoughInv, Idle
  <2>3. beats' \in {beats, NoRecord}
    BY <1>3 DEF Disconnect, Stop, CallbackReturns, LoseSession, kiteVars
  <2>4. BeatInv'
    BY <1>1, <2>1, <2>3 DEF EnoughInv, BeatInv, Beating, Enough, Idle
  <2>5. caller \in closed => caller' = caller
    BY <1>3 DEF Disconnect, Stop, CallbackReturns
  <2>6. \A g \in Updaters : Refreshing(g) => Refreshing(g)'
    BY <1>1, <2>1 DEF Refreshing, Enough, Idle
  <2>7. ListInv'
    BY <1>1, <2>1, <2>5, <2>6 DEF EnoughInv, ListInv, Enough
  <2>8. QED
    BY <2>2, <2>4, <2>7 DEF EnoughInv
<1>4. QED
  BY <1>2, <1>3

(* What a heartbeat does. *)
Beats(r) ==
    /\ caller = NoRecord /\ caller' = r /\ beats' = r /\ ping' = ping \cup {r}
    /\ silent' = 0
    /\ streak' = IF silent = 0 /\ streak > 0 THEN streak ELSE Least(streak + 1, 2)
    /\ r = beats \/ r \in asked
    /\ asked' = asked \ {r}
    /\ UNCHANGED <<since, timer, of, pc, closed, value, url, ttl>>

LEMMA HeartbeatBeats ==
    ASSUME TypeOK, RecordInv, NEW r \in Records, HandleHeartbeat(r) \/ (Heartbeat /\ r = beats)
    PROVE  Beats(r)
<1>1. CASE HandleHeartbeat(r)
  BY <1>1 DEF HandleHeartbeat, CallbackPings, Beats, updaterVars, storeVars
<1>2. CASE Heartbeat /\ r = beats
  <2>1. asked \ {r} = asked
    BY <1>2 DEF RecordInv, OrderInv
  <2>2. QED
    BY <1>2, <2>1 DEF Heartbeat, CallbackPings, Beats, kiteVars, updaterVars, storeVars
<1>3. QED
  BY <1>1, <1>2

(* The second of two heartbeats finds the key recent, or has it written. *)
LEMMA SecondBeat ==
    ASSUME TypeOK, UpdaterInv, RecordInv, CountInv, SilentInv, EnoughInv, Intervals,
           NEW r \in Records, Beats(r), streak > 0, silent > 0, r \notin closed
    PROVE  Enough(Longest) \/ \E g \in Updaters : Refreshing(g)'
<1>1. PICK g \in Updaters : of[g] = r
  BY DEF RecordInv, KeptInv, Used, Beats
<1>2. ~Idle(g) /\ pc[g] # "update" /\ r \notin ping
  BY <1>1, NamesAssumption DEF Idle, SilentInv, FreshInv
<1>3. /\ silent \in Nat /\ silent <= Gap /\ ttl \in Nat /\ timer[g] \in 0..Timeout
      /\ Gap \in Nat /\ Timeout \in Nat /\ UpdateInterval \in Nat /\ KeyTTL \in Nat
  BY TimesAssumption DEF TypeOK, CountInv
<1>4. Longest \in Nat /\ Longest >= Timeout /\ Longest >= UpdateInterval
  BY LongestFacts
<1>5. Gap < Timeout
  BY DEF Intervals
<1>6. CASE r \in asked
  <2>1. Enough(Timeout - timer[g])
    BY <1>1, <1>6 DEF EnoughInv, AskInv
  <2>2. QED
    BY <1>3, <1>4, <2>1 DEF Enough
<1>7. CASE r = beats /\ Enough(silent)
  BY <1>3, <1>4, <1>5, <1>7 DEF Enough
<1>8. CASE r = beats /\ timer[g] + silent >= Timeout /\ Enough(UpdateInterval + silent)
           /\ pc[g] = "select"
  <2>1. Enough(Longest + Gap) /\ timer[g] + Gap >= Timeout
    BY <1>3, <1>4, <1>8 DEF Enough
  <2>2. /\ of'[g] = r /\ r \in ping' /\ pc'[g] = "select" /\ timer'[g] = timer[g]
        /\ silent' = 0 /\ url' = url /\ ttl' = ttl
    BY <1>1, <1>8 DEF Beats
  <2>3. Refreshing(g)'
    BY <1>1, <1>2, <2>1, <2>2 DEF Refreshing, Enough, Idle
  <2>4. QED
    BY <2>3
<1>9. QED
  <2>1. pc[g] \in {"select", "update", "ending"}
    BY DEF TypeOK
  <2>2. r = beats => Beating(g)
    BY <1>1, <1>2 DEF Beating
  <2>3. r = beats => Enough(silent) \/ (/\ timer[g] + silent >= Timeout
                                        /\ Enough(UpdateInterval + silent)
                                        /\ pc[g] = "select")
    BY <1>1, <1>2, <2>1, <2>2 DEF EnoughInv, BeatInv
  <2>4. r = beats \/ r \in asked
    BY DEF Beats
  <2>5. QED
    BY <1>6, <1>7, <1>8, <2>3, <2>4

LEMMA BeatsKeeps ==
    ASSUME TypeOK, UpdaterInv, RecordInv, CountInv, SilentInv, EnoughInv, Intervals,
           NEW r \in Records, Beats(r)
    PROVE  EnoughInv'
<1>1. /\ UNCHANGED <<since, timer, of, pc, closed, url, ttl>> /\ asked' \subseteq asked
      /\ beats' = r /\ ping' = ping \cup {r} /\ silent' = 0 /\ caller' = r
      /\ caller = NoRecord
  BY DEF Beats
<1>2. SinceInv' /\ AskInv'
  BY <1>1, SinceCalm, AskCalm DEF EnoughInv, Idle
<1>3. BeatInv'
  BY <1>1 DEF BeatInv, Beating, Idle
<1>4. NoRecord \notin closed
  BY NamesAssumption DEF TypeOK
<1>5. ListInv'
  <2> SUFFICES ASSUME streak' = 2, r \notin closed
               PROVE  Enough(Longest) \/ \E g \in Updaters : Refreshing(g)'
    <3>1. Longest \in Nat /\ Longest + 0 = Longest
      BY LongestFacts
    <3>2. QED
      BY <1>1, <3>1 DEF ListInv, Enough
  <2>1. CASE streak = 2 /\ silent = 0
    <3>1. Enough(Longest + silent) \/ \E g \in Updaters : Refreshing(g)
      BY <1>1, <1>4, <2>1 DEF EnoughInv, ListInv
    <3>2. \A g \in Updaters : Refreshing(g) => Refreshing(g)'
      BY <1>1, <2>1 DEF Refreshing, Enough, Idle
    <3>3. Longest \in Nat /\ Longest + 0 = Longest
      BY LongestFacts
    <3>4. QED
      BY <2>1, <3>1, <3>2, <3>3
  <2>2. CASE streak > 0 /\ silent > 0
    BY <2>2, SecondBeat
  <2>3. (streak = 2 /\ silent = 0) \/ (streak > 0 /\ silent > 0)
    <3>1. streak \in 0..2 /\ silent \in Nat
      BY TimesAssumption DEF TypeOK
    <3>2. streak' = IF silent = 0 /\ streak > 0 THEN streak ELSE Least(streak + 1, 2)
      BY DEF Beats
    <3>3. QED
      BY <3>1, <3>2 DEF Least
  <2>4. QED
    BY <2>1, <2>2, <2>3
<1>6. QED
  BY <1>2, <1>3, <1>5 DEF EnoughInv

-----------------------------------------------------------------------------
ListedInv == failures = 0 => EnoughInv
DnodeInv == UpdaterInv /\ SilentInv /\ RecordInv /\ CountInv /\ UnpingedInv

LEMMA DnodeStep == ASSUME TypeOK, DnodeInv, [Next]_vars PROVE DnodeInv'
  BY UpdaterStep, SilentStep, RecordStep, CountStep, UnpingedStep DEF DnodeInv

LEMMA ListedStep ==
    ASSUME TypeOK, TypeOK', DnodeInv, ListedInv, Intervals, [Next]_vars PROVE ListedInv'
<1> SUFFICES ASSUME failures' = 0 PROVE EnoughInv'
  BY DEF ListedInv
<1>0. EnoughInv
  BY NoFailure DEF ListedInv
<1> USE DEF DnodeInv
<1>1. CASE \/ \E u \in URLs : HandleRegister(u) \/ HandleRegisterFails(u)
           \/ CallbackRestarts
           \/ \E g \in Updaters : Update(g)
  BY <1>1, Writes, WroteKeeps
<1>2. CASE ExpireKey \/ Tick
  BY <1>0, <1>2, ExpireKeeps, TickKeeps
<1>3. ASSUME NEW g \in Updaters, DoSkips(g) \/ DoRuns(g) \/ TimeOut(g) \/ SetClosed(g)
      PROVE  EnoughInv'
  BY <1>0, <1>3, SkipsKeeps, RunsKeeps, TimeOutKeeps, ClosedKeeps
<1>4. CASE Disconnect \/ Stop \/ Restart \/ CallbackReturns
  BY <1>0, <1>4, SessionKeeps
<1>5. CASE Connect \/ UNCHANGED vars
  <2>1. SameKey
    BY <1>5 DEF Connect, vars, kiteVars, recordVars, updaterVars, storeVars, clocks, SameKey
  <2>2. QED
    BY <1>0, <2>1, SameKeyKeeps
<1>6. CASE Heartbeat \/ \E r \in Records : HandleHeartbeat(r)
  <2>1. Heartbeat => beats \in Records
    BY DEF Heartbeat, TypeOK
  <2>2. QED
    BY <1>0, <1>6, <2>1, HeartbeatBeats, BeatsKeeps
<1>7. QED
  BY <1>1, <1>2, <1>3, <1>4, <1>5, <1>6 DEF Next, KiteStep, KontrolStep

LEMMA DnodeInit == Init => DnodeInv /\ ListedInv
<1> SUFFICES ASSUME Init PROVE DnodeInv /\ ListedInv
  OBVIOUS
<1>1. UpdaterInv /\ SilentInv
  BY DEF Init, UpdaterInv, OneUpdater, ClosedInv, Idle, SilentInv, FreshInv, AgeInv
<1>2. RecordInv
  BY NamesAssumption DEF Init, RecordInv, OrderInv, KeptInv, ValueInv, Used, Forgotten
<1>3. CountInv /\ UnpingedInv
  BY DEF Init, CountInv, UnpingedInv
<1>4. EnoughInv
  BY DEF Init, EnoughInv, SinceInv, AskInv, BeatInv, ListInv, Beating, Idle
<1>5. QED
  BY <1>1, <1>2, <1>3, <1>4 DEF DnodeInv, ListedInv

(* With heartbeats less than a Timeout apart, and a TTL that outlasts      *)
(* UpdateInterval and Timeout by as much, the key of a kite that has sent  *)
(* two of them in a row is there, whatever registrations it has left       *)
(* behind, wherever an updater ends and however often kontrol restarts.    *)
THEOREM ActiveAlwaysListed == ASSUME Intervals PROVE Spec => []ActiveIsListed
<1>1. TypeOK /\ DnodeInv /\ ListedInv => ActiveIsListed
  <2> SUFFICES ASSUME TypeOK, ListedInv, streak = 2, caller = NoRecord, failures = 0
               PROVE  url # None
    BY DEF ActiveIsListed, Regular
  <2>1. caller \notin closed
    BY NamesAssumption DEF TypeOK
  <2>2. QED
    BY <2>1 DEF ListedInv, EnoughInv, ListInv, Refreshing, Enough
<1>2. TypeOK /\ DnodeInv /\ ListedInv /\ [Next]_vars => (TypeOK /\ DnodeInv /\ ListedInv)'
  BY TypeStep, DnodeStep, ListedStep
<1>3. QED
  BY <1>1, <1>2, TypeInit, DnodeInit, PTL DEF Spec

-----------------------------------------------------------------------------
(***************************************************************************)
(* The storage settles on the URL of the registration with heartbeats.     *)
(***************************************************************************)

(* Once time has passed, only this registration is written. *)
WriterInv ==
    settled > 0 /\ beats # NoRecord =>
        /\ caller \in {beats, NoRecord}
        /\ \A g \in Updaters :
              ~Idle(g) /\ (pc[g] = "update" \/ of[g] \in ping) => of[g] = beats

LEMMA WriterStep == ASSUME TypeOK, RecordInv, WriterInv, [Next]_vars PROVE WriterInv'
<1>1. CASE \/ \E u \in URLs : HandleRegister(u) \/ HandleRegisterFails(u)
           \/ \E r \in Records : HandleHeartbeat(r)
  BY <1>1 DEF HandleRegister, HandleRegisterFails, HandleHeartbeat, WriterInv
<1>2. CASE Disconnect \/ Stop \/ Restart
  BY <1>2 DEF Disconnect, Stop, Restart, LoseSession, WriterInv
<1>3. CASE Connect \/ ExpireKey \/ UNCHANGED vars
  BY <1>3 DEF Connect, ExpireKey, vars, kiteVars, recordVars, updaterVars, clocks, WriterInv, Idle
<1>4. CASE Heartbeat
  BY <1>4 DEF Heartbeat, CallbackPings, WriterInv, kiteVars, updaterVars, Idle
<1>5. CASE CallbackReturns
  BY <1>5 DEF CallbackReturns, WriterInv, kiteVars, updaterVars, clocks, Idle
<1>6. CASE CallbackRestarts
  <2>1. PICK g \in Updaters : /\ of' = [of EXCEPT ![g] = caller]
                              /\ pc' = [pc EXCEPT ![g] = "select"]
    BY <1>6 DEF CallbackRestarts, StartUpdater
  <2>2. caller' = NoRecord /\ caller # NoRecord /\ UNCHANGED <<beats, ping, settled>>
    BY <1>6, NamesAssumption DEF CallbackRestarts, kiteVars, clocks, TypeOK
  <2>3. QED
    BY <2>1, <2>2 DEF WriterInv, TypeOK, Idle
<1>7. ASSUME NEW g \in Updaters, DoSkips(g) \/ DoRuns(g) PROVE WriterInv'
  <2>1. /\ UNCHANGED <<beats, caller, settled, of>> /\ ping' = ping \ {of[g]}
        /\ of[g] \in ping /\ ~Idle(g)
    BY <1>7 DEF DoSkips, DoRuns, TakePing, Selecting, kiteVars, clocks
  <2>2. pc' = pc \/ pc' = [pc EXCEPT ![g] = "update"]
    BY <1>7 DEF DoSkips, DoRuns
  <2>3. QED
    BY <2>1, <2>2 DEF WriterInv, TypeOK, Idle
<1>8. ASSUME NEW g \in Updaters, Update(g) \/ TimeOut(g) \/ SetClosed(g) PROVE WriterInv'
  BY <1>8 DEF Update, TimeOut, SetClosed, WriterInv, TypeOK, Idle, kiteVars, recordVars, clocks
<1>9. CASE Tick
  <2>1. /\ UNCHANGED <<beats, caller, of, pc, ping>> /\ caller = NoRecord
        /\ \A g \in Updaters : ~Idle(g) => pc[g] = "select" /\ of[g] \notin ping
    BY <1>9 DEF Tick, Waits, kiteVars
  <2>2. QED
    BY <2>1 DEF WriterInv, Idle
<1>10. QED
  BY <1>1, <1>2, <1>3, <1>4, <1>5, <1>6, <1>7, <1>8, <1>9 DEF Next, KiteStep, KontrolStep

(* The updater has waited since the last heartbeat, or the kite has        *)
(* registered since.                                                       *)
TimerInv ==
    \A g \in Updaters : Beating(g) =>
        /\ pc[g] = "select" /\ of[g] \notin ping =>
              timer[g] + silent >= Timeout \/ settled <= silent
        /\ pc[g] = "ending" /\ silent > 0 => settled <= silent

LEMMA TimerStep ==
    ASSUME TypeOK, TypeOK', DnodeInv, TimerInv, Intervals, [Next]_vars PROVE TimerInv'
<1>0. silent' \in Nat /\ \A g \in Updaters : timer'[g] \in Nat
  BY TimesAssumption DEF TypeOK
<1>1. ASSUME settled' = 0 PROVE TimerInv'
  BY <1>0, <1>1 DEF TimerInv
<1>2. CASE \/ \E u \in URLs : HandleRegister(u) \/ HandleRegisterFails(u)
           \/ \E r \in Records : HandleHeartbeat(r)
  BY <1>1, <1>2 DEF HandleRegister, HandleRegisterFails, HandleHeartbeat
<1>3. CASE Disconnect \/ Stop \/ Restart
  BY <1>3 DEF Disconnect, Stop, Restart, LoseSession, TimerInv, Beating, Idle
<1>4. CASE Connect \/ ExpireKey \/ CallbackReturns \/ UNCHANGED vars
  <2>1. UNCHANGED <<of, pc, timer, beats, ping, silent, streak, settled>>
    BY <1>4 DEF Connect, ExpireKey, CallbackReturns, vars, kiteVars, recordVars, updaterVars, clocks
  <2>2. QED
    BY <2>1 DEF TimerInv, Beating, Idle
<1>5. CASE Heartbeat
  <2>1. ping' = ping \cup {beats} /\ silent' = 0 /\ beats' = beats
    BY <1>5 DEF Heartbeat, CallbackPings, kiteVars
  <2>2. QED
    BY <2>1 DEF TimerInv, Beating
<1>6. ASSUME NEW g \in Updaters, timer'[g] = Timeout, pc'[g] = "select",
             UNCHANGED <<beats, silent, streak, settled>>,
             \A h \in Updaters : h # g => /\ pc'[h] = pc[h] /\ of'[h] = of[h]
                                          /\ timer'[h] = timer[h],
             \A h \in Updaters : h # g /\ ~Idle(h) => (of[h] \in ping' <=> of[h] \in ping)
      PROVE  TimerInv'
  <2>1. ASSUME NEW h \in Updaters, Beating(h)'
        PROVE  /\ pc'[h] = "select" /\ of'[h] \notin ping' =>
                     timer'[h] + silent' >= Timeout \/ settled' <= silent'
               /\ pc'[h] = "ending" /\ silent' > 0 => settled' <= silent'
    <3>1. CASE h = g
      BY <1>0, <1>6, <3>1, TimesAssumption
    <3>2. CASE h # g
      <4>1. Beating(h)
        BY <1>6, <2>1, <3>2 DEF Beating, Idle
      <4>2. of[h] \in ping' <=> of[h] \in ping
        BY <1>6, <3>2, <4>1 DEF Beating
      <4>3. QED
        BY <1>6, <3>2, <4>1, <4>2 DEF TimerInv
    <3>3. QED
      BY <3>1, <3>2
  <2>2. QED
    BY <2>1 DEF TimerInv
<1>7. CASE CallbackRestarts
  <2>1. PICK g \in Updaters : StartUpdater(g, caller)
    BY <1>7 DEF CallbackRestarts
  <2>2. QED
    BY <1>6, <1>7, <2>1 DEF CallbackRestarts, StartUpdater, kiteVars, clocks, TypeOK
<1>8. ASSUME NEW g \in Updaters, DoSkips(g) PROVE TimerInv'
  <2>1. /\ ~Idle(g) /\ pc[g] = "select" /\ ping' = ping \ {of[g]} /\ UNCHANGED <<of, pc>>
        /\ timer' = [timer EXCEPT ![g] = Timeout] /\ UNCHANGED <<beats, silent, streak, settled>>
    BY <1>8 DEF DoSkips, TakePing, Selecting, kiteVars, clocks
  <2>2. \A h \in Updaters : h # g => (of[h] \in ping' <=> of[h] \in ping)
    BY <2>1, TakenPing DEF DnodeInv
  <2>3. QED
    BY <1>6, <2>1, <2>2 DEF TypeOK
<1>9. ASSUME NEW g \in Updaters, Update(g) PROVE TimerInv'
  BY <1>6, <1>9 DEF Update, kiteVars, recordVars, clocks, TypeOK
<1>10. ASSUME NEW g \in Updaters, DoRuns(g) PROVE TimerInv'
  <2>1. /\ ~Idle(g) /\ ping' = ping \ {of[g]} /\ pc' = [pc EXCEPT ![g] = "update"]
        /\ UNCHANGED <<of, timer, beats, silent, streak, settled>>
    BY <1>10 DEF DoRuns, TakePing, Selecting, kiteVars, clocks
  <2>2. \A h \in Updaters : h # g => (of[h] \in ping' <=> of[h] \in ping)
    BY <2>1, TakenPing DEF DnodeInv
  <2>3. pc'[g] = "update" /\ \A h \in Updaters : h # g => pc'[h] = pc[h]
    BY <2>1 DEF TypeOK
  <2>4. QED
    BY <2>1, <2>2, <2>3 DEF TimerInv, Beating, Idle
<1>11. ASSUME NEW g \in Updaters, TimeOut(g) PROVE TimerInv'
  <2>1. /\ ~Idle(g) /\ pc[g] = "select" /\ timer[g] = 0 /\ pc' = [pc EXCEPT ![g] = "ending"]
        /\ UNCHANGED <<of, timer, ping, beats, silent, streak, settled>>
    BY <1>11 DEF TimeOut, Selecting, kiteVars, recordVars, clocks
  <2>2. pc'[g] = "ending" /\ \A h \in Updaters : h # g => pc'[h] = pc[h]
    BY <2>1 DEF TypeOK
  <2>3. ASSUME Beating(g), silent > 0 PROVE settled <= silent
    <3>1. of[g] \notin ping
      BY <2>1, <2>3 DEF DnodeInv, SilentInv, FreshInv
    <3>2. ~(timer[g] + silent >= Timeout)
      BY <2>1, <2>3, TimesAssumption DEF Beating, DnodeInv, CountInv, Intervals, TypeOK
    <3>3. QED
      BY <2>1, <2>3, <3>1, <3>2 DEF TimerInv
  <2>4. QED
    BY <2>1, <2>2, <2>3 DEF TimerInv, Beating, Idle
<1>12. ASSUME NEW g \in Updaters, SetClosed(g) PROVE TimerInv'
  <2>1. /\ of' = [of EXCEPT ![g] = NoRecord] /\ pc' = [pc EXCEPT ![g] = "select"]
        /\ UNCHANGED <<timer, ping, beats, silent, streak, settled>>
    BY <1>12 DEF SetClosed, kiteVars, recordVars, clocks
  <2>2. QED
    BY <2>1 DEF TimerInv, Beating, Idle, TypeOK
<1>13. CASE Tick
  <2>1. UNCHANGED <<of, pc, beats, ping>>
    BY <1>13 DEF Tick, kiteVars
  <2>2. \A g \in Updaters : ~Idle(g) => pc[g] = "select" /\ of[g] \notin ping /\ timer[g] > 0
    BY <1>13 DEF Tick, Waits
  <2>3. \A g \in Updaters : ~Idle(g) => timer'[g] = timer[g] - 1 /\ timer[g] \in 0..Timeout
    BY <1>13, <2>2, TimesAssumption DEF Tick, TypeOK, Less
  <2>4. ASSUME streak' > 0 PROVE silent' = silent + 1 /\ streak' = streak /\ silent \in Nat
    BY <1>13, <2>4, TimesAssumption DEF Tick, TypeOK, Intervals, Least
  <2>5. settled' <= settled + 1 /\ settled' \in Nat /\ settled \in Nat
    <3>1. settled \in Nat /\ settled' = Least(settled + 1, UpdateBound + 1)
      BY <1>13, BoundNat DEF Tick, TypeOK
    <3>2. QED
      BY <3>1, BoundNat, LeastBound
  <2>6. ASSUME NEW g \in Updaters, Beating(g)'
        PROVE  timer'[g] + silent' >= Timeout \/ settled' <= silent'
    <3>1. ~Idle(g) /\ Beating(g)
      BY <2>1, <2>4, <2>6 DEF Beating, Idle
    <3>2. timer[g] + silent >= Timeout \/ settled <= silent
      BY <2>2, <3>1 DEF TimerInv
    <3>3. silent' = silent + 1 /\ silent \in Nat
      BY <2>4, <2>6 DEF Beating
    <3>4. timer'[g] = timer[g] - 1 /\ timer[g] \in 0..Timeout
      BY <2>3, <3>1
    <3>5. QED
      BY <2>5, <3>2, <3>3, <3>4, TimesAssumption
  <2>7. QED
    BY <2>1, <2>2, <2>6 DEF TimerInv, Beating, Idle
<1>14. QED
  BY <1>2, <1>3, <1>4, <1>5, <1>7, <1>8, <1>9, <1>10, <1>11, <1>12, <1>13
  DEF Next, KiteStep, KontrolStep

(* The storage does not have the URL of the registration with heartbeats. *)
Owed == beats # NoRecord /\ url # value[beats]

(* While it has not, every.Do has not run since the kite settled. *)
DueInv ==
    Owed => \A g \in Updaters : of[g] = beats /\ pc[g] # "update" =>
                settled <= since[beats] \/ since[beats] > UpdateInterval

(* What will write it before time passes, or has the next heartbeat start  *)
(* the updater again.                                                      *)
Repairing(g) ==
    /\ of[g] = beats /\ silent = 0
    /\ \/ pc[g] = "ending" /\ streak = 1
       \/ pc[g] = "update" /\ (streak = 1 \/ settled <= UpdateBound)
       \/ /\ pc[g] = "select" /\ beats \in ping
          /\ streak = 1 \/ (settled <= UpdateBound /\ timer[g] > 0)

OwedInv ==
    Owed /\ streak > 0 =>
        \/ settled <= UpdateInterval + silent
        \/ beats \in closed /\ (streak = 1 \/ caller = beats)
        \/ \E g \in Updaters : Repairing(g)

LEMMA JustSettled ==
    ASSUME TypeOK', Owed' => settled' = 0 PROVE DueInv' /\ OwedInv'
<1>1. silent' \in 0..KeyTTL + 1
  BY DEF TypeOK
<1>2. 0 <= UpdateInterval + silent'
  <2>1. \A n \in 0..KeyTTL + 1 : 0 <= UpdateInterval + n
    BY TimesAssumption
  <2>2. QED
    BY <1>1, <2>1, Zenon
<1>3. ASSUME Owed' PROVE 0 <= since'[beats']
  BY <1>3, TimesAssumption DEF Owed, TypeOK
<1>4. DueInv'
  BY <1>3 DEF DueInv
<1>5. OwedInv'
  BY <1>2 DEF OwedInv
<1>6. QED
  BY <1>4, <1>5

(* Whatever is written after the kite has settled is its URL. *)
LEMMA WritesSettle ==
    ASSUME TypeOK, RecordInv, WriterInv, failures' = 0,
           \/ \E u \in URLs : HandleRegister(u) \/ HandleRegisterFails(u)
           \/ CallbackRestarts
           \/ \E g \in Updaters : Update(g)
    PROVE  Owed' => settled' = 0
<1>1. CASE \E u \in URLs : HandleRegister(u) \/ HandleRegisterFails(u)
  BY <1>1 DEF HandleRegister, HandleRegisterFails
<1>0. settled \in Nat
  BY BoundNat DEF TypeOK
<1>2. CASE CallbackRestarts
  <2>1. url' = value[caller] /\ caller # NoRecord
    BY <1>2, Writes, NamesAssumption DEF CallbackRestarts, TypeOK
  <2>2. UNCHANGED <<beats, value, settled>>
    BY <1>2 DEF CallbackRestarts, kiteVars, clocks
  <2>3. QED
    BY <1>0, <2>1, <2>2 DEF WriterInv, Owed
<1>3. ASSUME NEW g \in Updaters, Update(g) PROVE Owed' => settled' = 0
  <2>1. url' = value[of[g]] /\ ~Idle(g) /\ pc[g] = "update"
    BY <1>3, Writes DEF Update
  <2>2. UNCHANGED <<beats, value, settled>>
    BY <1>3 DEF Update, kiteVars, recordVars, clocks
  <2>3. QED
    BY <1>0, <2>1, <2>2 DEF WriterInv, Owed
<1>4. QED
  BY <1>1, <1>2, <1>3

LEMMA DueCalm ==
    ASSUME DueInv, UNCHANGED <<url, beats, value, since, settled>>,
           \A g \in Updaters : of'[g] = beats /\ pc'[g] # "update" /\ beats # NoRecord =>
                                  of[g] = beats /\ pc[g] # "update"
    PROVE  DueInv'
  BY DEF DueInv, Owed

LEMMA DueKeeps ==
    ASSUME TypeOK, TypeOK', DnodeInv, EnoughInv, WriterInv, DueInv, Intervals, failures' = 0,
           [Next]_vars
    PROVE  DueInv'
<1>1. CASE \/ \E u \in URLs : HandleRegister(u) \/ HandleRegisterFails(u)
           \/ CallbackRestarts
           \/ \E g \in Updaters : Update(g)
  BY <1>1, WritesSettle, JustSettled DEF DnodeInv
<1>2. CASE \E r \in Records : HandleHeartbeat(r)
  BY <1>2, JustSettled DEF HandleHeartbeat
<1>3. CASE Disconnect \/ Stop \/ Restart
  BY <1>3 DEF Disconnect, Stop, Restart, LoseSession, DueInv, Owed
<1>4. CASE Connect \/ CallbackReturns \/ Heartbeat \/ UNCHANGED vars
  <2>1. UNCHANGED <<url, beats, value, since, settled, of, pc>>
    BY <1>4 DEF Connect, CallbackReturns, Heartbeat, vars, kiteVars, recordVars, updaterVars,
                storeVars, clocks
  <2>2. QED
    BY <2>1, DueCalm
<1>5. ASSUME NEW g \in Updaters, DoSkips(g) \/ TimeOut(g) \/ SetClosed(g) PROVE DueInv'
  <2>1. UNCHANGED <<url, beats, value, since, settled>>
    BY <1>5 DEF DoSkips, TakePing, TimeOut, SetClosed, kiteVars, recordVars, storeVars, clocks
  <2>2. \/ UNCHANGED <<of, pc>>
        \/ of' = of /\ pc[g] = "select" /\ pc' = [pc EXCEPT ![g] = "ending"]
        \/ of' = [of EXCEPT ![g] = NoRecord] /\ pc' = [pc EXCEPT ![g] = "select"]
    BY <1>5 DEF DoSkips, TakePing, TimeOut, SetClosed, Selecting
  <2>3. QED
    BY <2>1, <2>2, DueCalm DEF TypeOK
<1>6. ASSUME NEW g \in Updaters, DoRuns(g) PROVE DueInv'
  <2>1. /\ ~Idle(g) /\ since' = [since EXCEPT ![of[g]] = 0]
        /\ pc' = [pc EXCEPT ![g] = "update"] /\ UNCHANGED <<of, url, beats, value, settled>>
    BY <1>6 DEF DoRuns, TakePing, Selecting, kiteVars, storeVars, clocks
  <2>2. CASE of[g] = beats
    <3>1. ASSUME NEW h \in Updaters, of'[h] = beats PROVE pc'[h] = "update"
      BY <2>1, <2>2, <3>1 DEF DnodeInv, UpdaterInv, OneUpdater, TypeOK
    <3>2. QED
      BY <2>1, <3>1 DEF DueInv
  <2>3. CASE of[g] # beats
    <3>1. beats # NoRecord => since'[beats] = since[beats]
      BY <2>1, <2>3 DEF TypeOK
    <3>2. \A h \in Updaters : pc'[h] # "update" => pc[h] # "update"
      BY <2>1 DEF TypeOK
    <3>3. QED
      BY <2>1, <3>1, <3>2 DEF DueInv, Owed
  <2>4. QED
    BY <2>2, <2>3
<1>7. CASE ExpireKey
  <2>1. UNCHANGED <<of, pc, since, beats, settled, value>> /\ url # None /\ ttl = 0
    BY <1>7 DEF ExpireKey, kiteVars, recordVars, updaterVars, clocks
  <2>2. ASSUME NEW g \in Updaters, of[g] = beats, beats # NoRecord, pc[g] # "update",
               ~(since[beats] > UpdateInterval)
        PROVE  FALSE
    <3>1. since[beats] \in Nat /\ since[beats] <= UpdateInterval /\ ~Idle(g)
      BY <2>2, TimesAssumption DEF TypeOK, Idle
    <3>2. Enough(since[beats])
      BY <2>2, <3>1 DEF EnoughInv, SinceInv
    <3>3. QED
      BY <2>1, <3>1, <3>2, TimesAssumption DEF Enough, Intervals
  <2>3. QED
    BY <2>1, <2>2 DEF DueInv, Owed
<1>8. CASE Tick
  <2>1. UNCHANGED <<of, pc, beats, value, url>>
    BY <1>8 DEF Tick, kiteVars
  <2>2. settled' <= settled + 1 /\ settled' \in Nat /\ settled \in Nat
    <3>1. settled \in Nat /\ settled' = Least(settled + 1, UpdateBound + 1)
      BY <1>8, BoundNat DEF Tick, TypeOK
    <3>2. QED
      BY <3>1, BoundNat, LeastBound
  <2>3. ASSUME beats # NoRecord
        PROVE  /\ since[beats] \in Nat
               /\ since'[beats] = since[beats] + 1 \/ since'[beats] = UpdateInterval + 1
    BY <1>8, <2>3, TimesAssumption DEF Tick, TypeOK, Least
  <2>4. ASSUME Owed', NEW g \in Updaters, of[g] = beats, pc[g] # "update"
        PROVE  settled' <= since'[beats] \/ since'[beats] > UpdateInterval
    <3>1. beats # NoRecord /\ (settled <= since[beats] \/ since[beats] > UpdateInterval)
      BY <2>1, <2>4 DEF DueInv, Owed
    <3>2. CASE since'[beats] = UpdateInterval + 1
      BY <3>2, TimesAssumption
    <3>3. CASE since'[beats] = since[beats] + 1
      BY <2>2, <2>3, <3>1, <3>3, TimesAssumption
    <3>4. QED
      BY <2>3, <3>1, <3>2, <3>3
  <2>5. QED
    BY <2>1, <2>4 DEF DueInv
<1>9. QED
  BY <1>1, <1>2, <1>3, <1>4, <1>5, <1>6, <1>7, <1>8 DEF Next, KiteStep, KontrolStep

(* A heartbeat, of a kite whose URL is owed. *)
LEMMA HeartbeatOwed ==
    ASSUME TypeOK, DnodeInv, TimerInv, OwedInv, Intervals, Gap <= UpdateInterval,
           Heartbeat, Owed'
    PROVE  OwedInv'
<1>1. /\ UNCHANGED <<url, value, beats, settled, closed, of, pc, timer>> /\ beats \in Records
      /\ caller' = beats /\ ping' = ping \cup {beats} /\ silent' = 0
      /\ streak' = IF silent = 0 /\ streak > 0 THEN streak ELSE Least(streak + 1, 2)
  BY DEF Heartbeat, CallbackPings, kiteVars, updaterVars, storeVars, TypeOK
<1>2. Owed
  BY <1>1 DEF Owed
<1>3. /\ streak \in 0..2 /\ silent \in Nat /\ settled \in Nat /\ Gap \in Nat
      /\ UpdateInterval \in Nat /\ Timeout \in Nat /\ \A g \in Updaters : timer[g] \in Nat
  BY TimesAssumption, BoundNat DEF TypeOK
<1>4. beats \in closed \/ \E g \in Updaters : of[g] = beats
  BY <1>1 DEF DnodeInv, RecordInv, KeptInv, Used
<1>5. CASE beats \in closed
  BY <1>1, <1>5 DEF OwedInv
<1>6. CASE settled <= UpdateInterval
  <2>1. settled <= UpdateInterval + 0
    BY <1>3, <1>6
  <2>2. QED
    BY <1>1, <2>1 DEF OwedInv
<1>7. ASSUME NEW g \in Updaters, of[g] = beats, beats \notin closed, settled > UpdateInterval
      PROVE  OwedInv'
  <2>0. ~Idle(g) /\ pc[g] \in {"select", "update", "ending"}
    BY <1>1, <1>7, NamesAssumption DEF Idle, TypeOK
  <2>1. CASE streak = 0
    <3>1. streak' = 1
      BY <1>1, <2>1 DEF Least
    <3>2. Repairing(g)'
      BY <1>1, <1>7, <2>0, <3>1 DEF Repairing
    <3>3. QED
      BY <3>2 DEF OwedInv
  <2>2. CASE streak > 0 /\ silent = 0
    <3>1. streak' = streak
      BY <1>1, <2>2
    <3>2. PICK h \in Updaters : Repairing(h)
      BY <1>2, <1>3, <1>7, <2>2 DEF OwedInv
    <3>3. Repairing(h)'
      BY <1>1, <3>1, <3>2 DEF Repairing
    <3>4. QED
      BY <3>3 DEF OwedInv
  <2>3. CASE streak > 0 /\ silent > 0
    <3>1. silent <= Gap /\ Gap < Timeout
      BY <2>3 DEF DnodeInv, CountInv, Intervals
    <3>2. settled <= UpdateInterval + silent
      BY <1>2, <1>3, <1>7, <2>3 DEF OwedInv, Repairing
    <3>3. settled <= UpdateBound
      BY <1>3, <3>1, <3>2 DEF UpdateBound
    <3>4. pc[g] # "update" /\ beats \notin ping
      BY <1>7, <2>0, <2>3 DEF DnodeInv, SilentInv, FreshInv
    <3>5. Beating(g) /\ ~(settled <= silent)
      BY <1>3, <1>7, <2>0, <2>3, <3>1 DEF Beating
    <3>6. pc[g] = "select" /\ timer[g] + silent >= Timeout
      BY <1>7, <2>0, <2>3, <3>4, <3>5 DEF TimerInv
    <3>7. timer[g] > 0
      BY <1>3, <3>1, <3>6
    <3>8. Repairing(g)'
      BY <1>1, <1>7, <3>3, <3>6, <3>7 DEF Repairing
    <3>9. QED
      BY <3>8 DEF OwedInv
  <2>4. QED
    BY <1>3, <2>1, <2>2, <2>3
<1>8. QED
  BY <1>3, <1>4, <1>5, <1>6, <1>7

(* The key expires only while it is repaired, too. *)
LEMMA ExpireOwed ==
    ASSUME TypeOK, DnodeInv, EnoughInv, WriterInv, OwedInv, Intervals, ExpireKey, Owed'
    PROVE  OwedInv'
<1>1. UNCHANGED <<value, beats, settled, closed, of, pc, timer, ping, silent, streak, caller>>
  BY DEF ExpireKey, kiteVars, recordVars, updaterVars, clocks
<1>2. \A x \in Nat : x < KeyTTL => ~Enough(x)
  BY TimesAssumption DEF ExpireKey, Enough
<1>3. beats \in Records /\ settled \in Nat /\ streak \in 0..2 /\ silent \in Nat
  BY <1>1, TimesAssumption, BoundNat DEF Owed, TypeOK
<1>4. CASE settled = 0
  <2>1. settled <= UpdateInterval + silent
    BY <1>3, <1>4, TimesAssumption
  <2>2. QED
    BY <1>1, <2>1 DEF OwedInv
<1>5. CASE streak = 2 /\ settled > 0
  <2>1. silent <= Gap /\ Longest \in Nat /\ Longest + Gap < KeyTTL
    BY <1>5, LongestFacts DEF DnodeInv, CountInv
  <2>2. Longest + silent \in Nat /\ Longest + silent < KeyTTL /\ Longest + Gap \in Nat
    BY <1>3, <2>1, TimesAssumption
  <2>3. caller \in closed
    BY <1>2, <1>5, <2>1, <2>2 DEF EnoughInv, ListInv, Refreshing
  <2>4. caller = beats
    BY <1>3, <1>5, <2>3, NamesAssumption DEF WriterInv, TypeOK
  <2>5. QED
    BY <1>1, <2>3, <2>4 DEF OwedInv
<1>6. CASE streak = 1
  <2>1. CASE beats \in closed
    BY <1>1, <1>6, <2>1 DEF OwedInv
  <2>2. ASSUME NEW g \in Updaters, of[g] = beats PROVE OwedInv'
    <3>1. Beating(g) /\ pc[g] \in {"select", "update", "ending"}
      BY <1>3, <1>6, <2>2, NamesAssumption DEF Beating, Idle, TypeOK
    <3>2. silent <= Gap
      BY <1>6 DEF DnodeInv, CountInv
    <3>3. /\ silent < KeyTTL /\ UpdateInterval + silent \in Nat
          /\ UpdateInterval + silent < KeyTTL
      BY <1>3, <3>2, TimesAssumption DEF Intervals
    <3>4. ~Enough(silent) /\ ~Enough(UpdateInterval + silent)
      BY <1>2, <1>3, <3>3
    <3>5. /\ ~(pc[g] = "select" /\ of[g] \notin ping)
          /\ ~(pc[g] = "ending" /\ silent > 0)
      BY <3>1, <3>4 DEF EnoughInv, BeatInv
    <3>6. silent = 0
      BY <1>3, <3>1, <3>5 DEF DnodeInv, SilentInv, FreshInv, Beating
    <3>7. Repairing(g)'
      BY <1>1, <1>6, <2>2, <3>1, <3>5, <3>6 DEF Repairing
    <3>8. QED
      BY <3>7 DEF OwedInv
  <2>3. QED
    BY <1>3, <2>1, <2>2 DEF DnodeInv, RecordInv, KeptInv, Used
<1>7. CASE streak = 0
  BY <1>1, <1>7 DEF OwedInv
<1>8. QED
  BY <1>3, <1>4, <1>5, <1>6, <1>7

LEMMA UpdaterOwed ==
    ASSUME TypeOK, DnodeInv, DueInv, OwedInv, NEW g \in Updaters,
           DoSkips(g) \/ DoRuns(g) \/ TimeOut(g) \/ SetClosed(g), Owed', streak' > 0
    PROVE  OwedInv'
<1>1. UNCHANGED <<url, value, beats, settled, silent, streak, caller>> /\ closed \subseteq closed'
  BY DEF DoSkips, DoRuns, TakePing, TimeOut, SetClosed, kiteVars, recordVars, storeVars, clocks
<1>2. /\ beats \in Records /\ beats # NoRecord /\ silent \in Nat /\ settled \in Nat
      /\ Owed /\ streak > 0 /\ ~Idle(g)
  BY <1>1, NamesAssumption, TimesAssumption, BoundNat
  DEF Owed, TypeOK, DoSkips, DoRuns, TakePing, Selecting, TimeOut, SetClosed
<1>3. CASE settled <= UpdateInterval + silent
  BY <1>1, <1>3 DEF OwedInv
<1>4. CASE beats \in closed /\ (streak = 1 \/ caller = beats)
  BY <1>1, <1>4 DEF OwedInv
<1>5. ASSUME NEW h \in Updaters, Repairing(h), h # g PROVE OwedInv'
  <2>1. of[h] = beats /\ of[g] # beats
    BY <1>2, <1>5 DEF Repairing, DnodeInv, UpdaterInv, OneUpdater
  <2>2. of'[h] = of[h] /\ pc'[h] = pc[h] /\ timer'[h] = timer[h]
    BY <1>5 DEF DoSkips, DoRuns, TakePing, TimeOut, SetClosed, TypeOK
  <2>3. beats \in ping => beats \in ping'
    BY <2>1 DEF DoSkips, DoRuns, TakePing, TimeOut, SetClosed, recordVars
  <2>4. Repairing(h)'
    BY <1>1, <1>5, <2>2, <2>3 DEF Repairing
  <2>5. QED
    BY <2>4 DEF OwedInv
<1>6. CASE Repairing(g)
  <2>0. of[g] = beats /\ silent = 0
    BY <1>6 DEF Repairing
  <2>1. CASE DoSkips(g)
    <3>1. pc[g] = "select" /\ since[beats] <= UpdateInterval
      BY <2>0, <2>1 DEF DoSkips, TakePing, Selecting
    <3>2. since[beats] \in Nat
      BY <1>2, TimesAssumption DEF TypeOK
    <3>3. settled <= UpdateInterval + silent
      BY <1>2, <2>0, <3>1, <3>2, TimesAssumption DEF DueInv
    <3>4. QED
      BY <1>3, <3>3
  <2>2. CASE DoRuns(g)
    <3>1. pc[g] = "select" /\ pc'[g] = "update" /\ of' = of
      BY <2>2 DEF DoRuns, TakePing, Selecting, TypeOK
    <3>2. streak = 1 \/ settled <= UpdateBound
      BY <1>6, <3>1 DEF Repairing
    <3>3. Repairing(g)'
      BY <1>1, <2>0, <3>1, <3>2 DEF Repairing
    <3>4. QED
      BY <3>3 DEF OwedInv
  <2>3. CASE TimeOut(g)
    <3>1. pc[g] = "select" /\ pc'[g] = "ending" /\ timer[g] = 0 /\ of' = of
      BY <2>3 DEF TimeOut, Selecting, TypeOK
    <3>2. streak = 1
      BY <1>6, <3>1 DEF Repairing
    <3>3. Repairing(g)'
      BY <1>1, <2>0, <3>1, <3>2 DEF Repairing
    <3>4. QED
      BY <3>3 DEF OwedInv
  <2>4. CASE SetClosed(g)
    <3>1. pc[g] = "ending" /\ beats \in closed'
      BY <2>0, <2>4 DEF SetClosed
    <3>2. streak = 1
      BY <1>6, <3>1 DEF Repairing
    <3>3. QED
      BY <1>1, <3>1, <3>2 DEF OwedInv
  <2>5. QED
    BY <2>1, <2>2, <2>3, <2>4
<1>7. QED
  BY <1>2, <1>3, <1>4, <1>5, <1>6 DEF OwedInv

LEMMA TickOwed ==
    ASSUME TypeOK, OwedInv, Intervals, Tick, Owed', streak' > 0 PROVE OwedInv'
<1>1. UNCHANGED <<url, value, beats, closed, caller>> /\ caller = NoRecord
  BY DEF Tick, kiteVars
<1>2. Owed
  BY <1>1 DEF Owed
<1>3. silent' = silent + 1 /\ streak' = streak /\ silent \in Nat
  BY TimesAssumption DEF Tick, TypeOK, Intervals, Least
<1>4. settled' <= settled + 1 /\ settled' \in Nat /\ settled \in Nat
  <2>1. settled \in Nat /\ settled' = Least(settled + 1, UpdateBound + 1)
    BY BoundNat DEF Tick, TypeOK
  <2>2. QED
    BY <2>1, BoundNat, LeastBound
<1>5. CASE settled <= UpdateInterval + silent
  <2>1. settled' <= UpdateInterval + silent'
    BY <1>3, <1>4, <1>5, TimesAssumption
  <2>2. QED
    BY <2>1 DEF OwedInv
<1>6. CASE beats \in closed /\ (streak = 1 \/ caller = beats)
  BY <1>1, <1>2, <1>3, <1>6 DEF OwedInv, Owed
<1>7. ASSUME NEW g \in Updaters, Repairing(g) PROVE FALSE
  BY <1>2, <1>7 DEF Tick, Waits, Idle, Repairing, Owed, TypeOK
<1>8. QED
  BY <1>2, <1>3, <1>5, <1>6, <1>7 DEF OwedInv

LEMMA OwedKeeps ==
    ASSUME TypeOK, TypeOK', DnodeInv, EnoughInv, WriterInv, TimerInv, DueInv, OwedInv,
           Intervals, Gap <= UpdateInterval, failures' = 0, [Next]_vars
    PROVE  OwedInv'
<1> SUFFICES ASSUME Owed', streak' > 0 PROVE OwedInv'
  BY DEF OwedInv
<1>1. CASE \/ \E u \in URLs : HandleRegister(u) \/ HandleRegisterFails(u)
           \/ CallbackRestarts
           \/ \E g \in Updaters : Update(g)
  BY <1>1, WritesSettle, JustSettled DEF DnodeInv
<1>2. CASE \E r \in Records : HandleHeartbeat(r)
  BY <1>2, JustSettled DEF HandleHeartbeat
<1>3. CASE Disconnect \/ Stop \/ Restart
  BY <1>3 DEF Disconnect, Stop, Restart, LoseSession, Owed
<1>4. CASE Connect \/ CallbackReturns \/ UNCHANGED vars
  <2>1. UNCHANGED <<url, value, beats, settled, closed, of, pc, timer, ping, silent, streak>>
    BY <1>4 DEF Connect, CallbackReturns, vars, kiteVars, recordVars, updaterVars, storeVars, clocks
  <2>2. caller \in closed => caller' = caller
    BY <1>4 DEF Connect, CallbackReturns, vars, recordVars
  <2>3. \A g \in Updaters : Repairing(g) => Repairing(g)'
    BY <2>1 DEF Repairing
  <2>4. QED
    BY <2>1, <2>2, <2>3 DEF OwedInv, Owed
<1>5. CASE Heartbeat \/ ExpireKey \/ Tick
  BY <1>5, HeartbeatOwed, ExpireOwed, TickOwed
<1>6. ASSUME NEW g \in Updaters, DoSkips(g) \/ DoRuns(g) \/ TimeOut(g) \/ SetClosed(g)
      PROVE  OwedInv'
  BY <1>6, UpdaterOwed
<1>7. QED
  BY <1>1, <1>2, <1>3, <1>4, <1>5, <1>6 DEF Next, KiteStep, KontrolStep

SettleInv == WriterInv /\ TimerInv /\ (failures = 0 => DueInv /\ OwedInv)

LEMMA SettleStep ==
    ASSUME TypeOK, TypeOK', DnodeInv, ListedInv, SettleInv, Intervals, Gap <= UpdateInterval,
           [Next]_vars
    PROVE  SettleInv'
<1>1. WriterInv' /\ TimerInv'
  BY WriterStep, TimerStep DEF SettleInv, DnodeInv
<1>2. ASSUME failures' = 0 PROVE DueInv' /\ OwedInv'
  BY <1>2, NoFailure, DueKeeps, OwedKeeps DEF SettleInv, ListedInv
<1>3. QED
  BY <1>1, <1>2 DEF SettleInv

(* When heartbeats are also no further apart than UpdateInterval: however  *)
(* the updaters of older registrations still write, UpdateInterval + Gap   *)
(* after the kite last registered or changed its heartbeats the storage    *)
(* has the URL of the registration that the heartbeats are for.            *)
THEOREM URLAlwaysSettles ==
    ASSUME Intervals, Gap <= UpdateInterval PROVE Spec => []URLSettles
<1>1. TypeOK /\ DnodeInv /\ SettleInv => URLSettles
  <2> SUFFICES ASSUME TypeOK, DnodeInv, SettleInv, streak = 2, caller = NoRecord, failures = 0,
                      beats # NoRecord, settled > UpdateBound, Owed
               PROVE  FALSE
    BY DEF URLSettles, Regular, Owed
  <2>1. silent <= Gap /\ silent \in Nat /\ settled \in Nat
    BY TimesAssumption, BoundNat DEF DnodeInv, CountInv, TypeOK
  <2>2. ~(settled <= UpdateInterval + silent) /\ ~(settled <= UpdateBound)
    BY <2>1, TimesAssumption DEF UpdateBound
  <2>3. QED
    BY <2>2 DEF SettleInv, OwedInv, Repairing
<1>2. Init => SettleInv
  BY NamesAssumption DEF Init, SettleInv, WriterInv, TimerInv, DueInv, OwedInv, Owed, Beating
<1>3. /\ TypeOK /\ DnodeInv /\ ListedInv /\ SettleInv /\ [Next]_vars
      => (TypeOK /\ DnodeInv /\ ListedInv /\ SettleInv)'
  BY TypeStep, DnodeStep, ListedStep, SettleStep
<1>4. QED
  BY <1>1, <1>2, <1>3, TypeInit, DnodeInit, PTL DEF Spec
=============================================================================
