-------------------------- MODULE KontrolHTTPProofs --------------------------
(***************************************************************************)
(* Safety of KontrolHTTP for every timeout, interval and TTL, every number *)
(* of records, failures and restarts.                                      *)
(***************************************************************************)
EXTENDS KontrolHTTP, TLAPS

(* MaxSilence is a bound of the model; the proofs only need this of it. *)
LEMMA MaxSilenceNat == MaxSilence \in Nat /\ MaxSilence > Timeout + KeyTTL
  BY TimesAssumption DEF MaxSilence

LEMMA TypeInit == Init => TypeOK
  BY TimesAssumption, MaxSilenceNat DEF Init, TypeOK

LEMMA LessBound == ASSUME NEW m \in Nat, NEW n \in 0..m PROVE Less(n) \in 0..m
  BY DEF Less

LEMMA TypeKite == TypeOK /\ KiteStep => TypeOK'
  BY DEF TypeOK, KiteStep, RegisterHTTPForever, Stop, kiteVars, recordVars,
         storeVars

LEMMA TypeRequest ==
    ASSUME NEW u \in URLs, TypeOK,
           \/ Upsert(u) \/ UpsertFails(u) \/ ReuseRecord(u) \/ NewRecord(u)
           \/ Pong \/ RegisterAgain
    PROVE  TypeOK'
<1> USE TimesAssumption, NamesAssumption, MaxSilenceNat
    DEF TypeOK, kiteVars, recordVars, storeVars
<1>1. CASE Upsert(u)
  BY <1>1 DEF Upsert
<1>2. CASE UpsertFails(u)
  BY <1>2 DEF UpsertFails, WriteFails
<1>3. CASE ReuseRecord(u)
  BY <1>3 DEF ReuseRecord, ResetTimer, Reply
<1>4. CASE NewRecord(u)
  BY <1>4 DEF NewRecord, ResetTimer, Reply
<1>5. CASE Pong
  BY <1>5 DEF Pong, ResetTimer
<1>6. CASE RegisterAgain
  BY <1>6 DEF RegisterAgain, Beating
<1>7. QED
  BY <1>1, <1>2, <1>3, <1>4, <1>5, <1>6

LEMMA TypeRecord ==
    ASSUME NEW h \in Records, TypeOK,
           TimerFires(h) \/ Expire(h) \/ Update(h) \/ UpdateFails(h)
    PROVE  TypeOK'
<1> USE TimesAssumption DEF TypeOK, kiteVars, recordVars, storeVars
<1>1. CASE TimerFires(h)
  BY <1>1 DEF TimerFires
<1>2. CASE Expire(h)
  BY <1>2 DEF Expire
<1>3. CASE Update(h)
  BY <1>3 DEF Update
<1>4. CASE UpdateFails(h)
  BY <1>4 DEF UpdateFails, WriteFails
<1>5. QED
  BY <1>1, <1>2, <1>3, <1>4

LEMMA TypeRest == TypeOK /\ (ExpireKey \/ Restart \/ Tick) => TypeOK'
<1> SUFFICES ASSUME TypeOK, ExpireKey \/ Restart \/ Tick PROVE TypeOK'
  OBVIOUS
<1> USE TimesAssumption DEF TypeOK, kiteVars, recordVars, storeVars
<1>1. CASE ExpireKey
  BY <1>1 DEF ExpireKey
<1>2. CASE Restart
  BY <1>2 DEF Restart
<1>3. CASE Tick
  <2>1. silent' \in 0..MaxSilence
    BY <1>3, MaxSilenceNat DEF Tick
  <2>2. timer' \in [Records -> 0..Timeout]
    BY <1>3, LessBound DEF Tick
  <2>3. tick' \in [Records -> 0..UpdateInterval]
    BY <1>3, LessBound DEF Tick
  <2>4. ttl' \in 0..KeyTTL
    BY <1>3, LessBound DEF Tick
  <2>5. QED
    BY <1>3, <2>1, <2>2, <2>3, <2>4 DEF Tick
<1>4. QED
  BY <1>1, <1>2, <1>3

LEMMA TypeStep == TypeOK /\ [Next]_vars => TypeOK'
<1> SUFFICES ASSUME TypeOK, [Next]_vars PROVE TypeOK'
  OBVIOUS
<1>1. CASE KiteStep
  BY <1>1, TypeKite
<1>2. CASE KontrolStep
  <2>1. CASE URLs = {}
    <3>1. ~Pong /\ ~RegisterAgain
      BY <2>1 DEF Pong, RegisterAgain, Beating, TypeOK
    <3>2. QED
      BY <1>2, <2>1, <3>1, TypeRecord, TypeRest DEF KontrolStep
  <2>2. CASE URLs # {}
    <3>1. PICK u \in URLs : TRUE
      BY <2>2
    <3>2. QED
      BY <1>2, <3>1, TypeRequest, TypeRecord, TypeRest DEF KontrolStep
  <2>3. QED
    BY <2>1, <2>2
<1>3. CASE Tick
  BY <1>3, TypeRest
<1>4. CASE UNCHANGED vars
  BY <1>4 DEF TypeOK, vars, kiteVars, recordVars, storeVars
<1>5. QED
  BY <1>1, <1>2, <1>3, <1>4 DEF Next

(* Every reachable state is well typed. *)
THEOREM TypeCorrect == Spec => []TypeOK
  BY TypeInit, TypeStep, PTL DEF Spec

-----------------------------------------------------------------------------
(***************************************************************************)
(* The record of the map and its updater.                                  *)
(***************************************************************************)
LEMMA UpdateStep ==
    UpdateNeverBlocks /\ [Next]_vars => UpdateNeverBlocks'
<1> SUFFICES ASSUME UpdateNeverBlocks, [Next]_vars PROVE UpdateNeverBlocks'
  OBVIOUS
<1> USE DEF UpdateNeverBlocks, recordVars
<1>1. CASE KiteStep
  BY <1>1 DEF KiteStep, RegisterHTTPForever, Stop
<1>2. ASSUME NEW u \in URLs, \/ Upsert(u) \/ UpsertFails(u)
                             \/ ReuseRecord(u) \/ NewRecord(u)
      PROVE  UpdateNeverBlocks'
  BY <1>2 DEF Upsert, UpsertFails, ReuseRecord, NewRecord
<1>3. CASE Pong \/ RegisterAgain
  BY <1>3 DEF Pong, RegisterAgain
<1>4. ASSUME NEW h \in Records, \/ TimerFires(h) \/ Expire(h)
                                \/ Update(h) \/ UpdateFails(h)
      PROVE  UpdateNeverBlocks'
  BY <1>4 DEF TimerFires, Expire, Update, UpdateFails
<1>5. CASE ExpireKey \/ Restart \/ Tick
  BY <1>5 DEF ExpireKey, Restart, Tick
<1>6. CASE UNCHANGED vars
  BY <1>6 DEF vars
<1>7. QED
  BY <1>1, <1>2, <1>3, <1>4, <1>5, <1>6 DEF Next, KontrolStep

(* A registration never blocks on updateC while it holds heartbeatsMu,     *)
(* whatever the order of its requests and of the timers' functions.        *)
THEOREM NeverBlocks == Spec => []UpdateNeverBlocks
<1>1. Init => UpdateNeverBlocks
  BY DEF Init, UpdateNeverBlocks
<1>2. QED
  BY <1>1, UpdateStep, PTL DEF Spec

LEMMA EndStep ==
    UpdatersEnd /\ [Next]_vars => UpdatersEnd'
<1> SUFFICES ASSUME UpdatersEnd, [Next]_vars PROVE UpdatersEnd'
  OBVIOUS
<1> USE DEF UpdatersEnd, recordVars
<1>1. CASE KiteStep
  BY <1>1 DEF KiteStep, RegisterHTTPForever, Stop
<1>2. ASSUME NEW u \in URLs, \/ Upsert(u) \/ UpsertFails(u)
                             \/ ReuseRecord(u) \/ NewRecord(u)
      PROVE  UpdatersEnd'
  BY <1>2 DEF Upsert, UpsertFails, ReuseRecord, NewRecord, ResetTimer
<1>3. CASE Pong \/ RegisterAgain
  BY <1>3 DEF Pong, RegisterAgain, ResetTimer
<1>4. ASSUME NEW h \in Records, \/ TimerFires(h) \/ Expire(h)
                                \/ Update(h) \/ UpdateFails(h)
      PROVE  UpdatersEnd'
  BY <1>4 DEF TimerFires, Expire, Update, UpdateFails
<1>5. CASE ExpireKey \/ Restart \/ Tick
  BY <1>5 DEF ExpireKey, Restart, Tick
<1>6. CASE UNCHANGED vars
  BY <1>6 DEF vars
<1>7. QED
  BY <1>1, <1>2, <1>3, <1>4, <1>5, <1>6 DEF Next, KontrolStep

(* No updater goroutine is left without a timer that will end it, also     *)
(* where a request overtakes a timer's function and the map forgets a      *)
(* record whose timer runs (kontrol/http.go:196-214).                      *)
THEOREM UpdatersAlwaysEnd == Spec => []UpdatersEnd
<1>1. Init => UpdatersEnd
  BY DEF Init, UpdatersEnd
<1>2. QED
  BY <1>1, EndStep, PTL DEF Spec

-----------------------------------------------------------------------------
(***************************************************************************)
(* The time a silent kite stays listed.  A running timer bounds the        *)
(* silence so far, an updater has a timer that runs or has fired, and so   *)
(* the last update of the key was at most Timeout after the last request.  *)
(***************************************************************************)
SilentInv ==
    /\ \A h \in armed : silent + timer[h] <= Timeout
    /\ firing # {} => silent <= Timeout
    /\ updater \subseteq armed \cup firing
    /\ url # None => silent + ttl <= Timeout + KeyTTL

LEMMA SilentRequest ==
    ASSUME TypeOK, SilentInv, NEW u \in URLs,
           \/ Upsert(u) \/ UpsertFails(u) \/ ReuseRecord(u) \/ NewRecord(u)
           \/ Pong \/ RegisterAgain
    PROVE  SilentInv'
<1> USE TimesAssumption DEF SilentInv, recordVars, storeVars
<1>1. CASE Upsert(u)
  BY <1>1 DEF Upsert, TypeOK
<1>2. CASE UpsertFails(u)
  BY <1>2 DEF UpsertFails, WriteFails, TypeOK
<1>3. CASE ReuseRecord(u)
  BY <1>3 DEF ReuseRecord, ResetTimer, TypeOK
<1>4. CASE NewRecord(u)
  BY <1>4 DEF NewRecord, ResetTimer, TypeOK
<1>5. CASE Pong
  BY <1>5 DEF Pong, ResetTimer, TypeOK
<1>6. CASE RegisterAgain
  BY <1>6 DEF RegisterAgain
<1>7. QED
  BY <1>1, <1>2, <1>3, <1>4, <1>5, <1>6

LEMMA SilentRecord ==
    ASSUME TypeOK, SilentInv, NEW h \in Records,
           TimerFires(h) \/ Expire(h) \/ Update(h) \/ UpdateFails(h)
    PROVE  SilentInv'
<1> USE TimesAssumption DEF SilentInv, recordVars, storeVars
<1>1. CASE TimerFires(h)
  BY <1>1 DEF TimerFires, TypeOK
<1>2. CASE Expire(h)
  BY <1>2 DEF Expire
<1>3. CASE Update(h)
  <2>1. silent <= Timeout
    BY <1>3 DEF Update, Due, TypeOK
  <2>2. QED
    BY <1>3, <2>1 DEF Update, TypeOK
<1>4. CASE UpdateFails(h)
  <2>1. silent <= Timeout
    BY <1>4 DEF UpdateFails, Due, TypeOK
  <2>2. QED
    BY <1>4, <2>1 DEF UpdateFails, WriteFails, TypeOK
<1>5. QED
  BY <1>1, <1>2, <1>3, <1>4

LEMMA SumKept ==
    ASSUME NEW a \in Nat, NEW b \in Nat, NEW c \in Nat, NEW d \in Nat,
           NEW m \in Nat, a <= c + 1, b = d - 1, c + d <= m
    PROVE  a + b <= m
  OBVIOUS

LEMMA SilentTick ==
    ASSUME Insert, TypeOK, SilentInv, Tick PROVE SilentInv'
<1> USE TimesAssumption
<1>1. silent' <= silent + 1 /\ silent' \in Nat
  BY DEF Tick, TypeOK
<1>2. \A h \in armed' : silent' + timer'[h] <= Timeout
  <2> SUFFICES ASSUME NEW h \in armed PROVE silent' + timer'[h] <= Timeout
    BY DEF Tick
  <2>1. h \in Records /\ timer[h] > 0 /\ timer[h] \in Nat
    BY DEF Tick, TypeOK
  <2>2. timer'[h] = timer[h] - 1
    BY <2>1 DEF Tick, Less
  <2>3. silent + timer[h] <= Timeout
    BY DEF SilentInv
  <2>4. QED
    BY <1>1, <2>1, <2>2, <2>3 DEF TypeOK
<1>3. ASSUME NEW m \in Nat, ttl > 0, silent + ttl <= m
      PROVE  silent' + ttl' <= m
  <2>1. ttl' = ttl - 1
    BY <1>3 DEF Tick, Less
  <2>2. silent \in Nat /\ ttl \in Nat
    BY DEF TypeOK
  <2>3. ttl' \in Nat
    BY <1>3, <2>1, <2>2
  <2>4. QED
    BY <1>1, <1>3, <2>1, <2>2, <2>3, SumKept
<1>4. url' # None => ttl > 0 /\ silent + ttl <= Timeout + KeyTTL
  BY DEF Tick, SilentInv, TypeOK
<1>5. Timeout + KeyTTL \in Nat
  OBVIOUS
<1>6. url' # None => silent' + ttl' <= Timeout + KeyTTL
  BY <1>3, <1>4, <1>5
<1>7. QED
  BY <1>2, <1>6 DEF SilentInv, Tick

LEMMA SilentStep ==
    ASSUME Insert, TypeOK, SilentInv, [Next]_vars PROVE SilentInv'
<1>1. CASE KiteStep
  BY <1>1 DEF KiteStep, RegisterHTTPForever, Stop, SilentInv, recordVars,
              storeVars
<1>2. CASE Pong \/ RegisterAgain
  <2>1. beats \in URLs
    BY <1>2 DEF Pong, RegisterAgain, Beating, TypeOK
  <2>2. QED
    BY <1>2, <2>1, SilentRequest
<1>3. CASE ExpireKey \/ Restart
  BY <1>3 DEF ExpireKey, Restart, SilentInv, recordVars, storeVars
<1>4. CASE UNCHANGED vars
  BY <1>4 DEF vars, SilentInv, recordVars, storeVars
<1>5. QED
  BY <1>1, <1>2, <1>3, <1>4, SilentRequest, SilentRecord, SilentTick
  DEF Next, KontrolStep

(* With Etcd, a kite that stays silent for longer than the timeout and the *)
(* key's TTL is unlisted, late timers or not.                              *)
THEOREM SilentUnlisted == ASSUME Insert PROVE Spec => []SilentIsUnlisted
<1>1. Init => TypeOK /\ SilentInv
  BY TypeInit, TimesAssumption DEF Init, SilentInv
<1>2. TypeOK /\ SilentInv /\ [Next]_vars => (TypeOK /\ SilentInv)'
  BY TypeStep, SilentStep
<1>3. TypeOK /\ SilentInv => SilentIsUnlisted
  BY TimesAssumption DEF TypeOK, SilentInv, SilentIsUnlisted
<1>4. QED
  BY <1>1, <1>2, <1>3, PTL DEF Spec

-----------------------------------------------------------------------------
(***************************************************************************)
(* The key of a known kite.  A registration passes the storage with a      *)
(* fresh key; from then on the key has always more time left than the      *)
(* updater has to its next tick, by at least KeyTTL - UpdateInterval.      *)
(***************************************************************************)
StoredInv ==
    /\ \A u \in URLs : reg[u] = "upserted" => url # None /\ ttl = KeyTTL
    /\ \A h \in updater : value[h] # None

Fresh ==
    /\ url # None /\ ttl > 0
    /\ current \in ticking => tick[current] + KeyTTL <= ttl + UpdateInterval

ListedInv ==
    /\ current # NoRecord => current \in ticking \cup firing
    /\ current # NoRecord /\ failures = 0 => Fresh

LEMMA StoredStep ==
    ASSUME Insert, TypeOK, StoredInv, [Next]_vars PROVE StoredInv'
<1> USE TimesAssumption, NamesAssumption
    DEF StoredInv, kiteVars, recordVars, storeVars
<1>1. CASE KiteStep
  BY <1>1 DEF KiteStep, RegisterHTTPForever, Stop, TypeOK
<1>2. ASSUME NEW u \in URLs, Upsert(u) \/ UpsertFails(u)
      PROVE  StoredInv'
  BY <1>2 DEF Upsert, UpsertFails, WriteFails, TypeOK
<1>3. ASSUME NEW u \in URLs, ReuseRecord(u)
      PROVE  StoredInv'
  BY <1>3 DEF ReuseRecord, Reply, TypeOK
<1>4. ASSUME NEW u \in URLs, NewRecord(u)
      PROVE  StoredInv'
  BY <1>4 DEF NewRecord, Reply, TypeOK
<1>5. CASE Pong \/ RegisterAgain
  BY <1>5 DEF Pong, RegisterAgain, TypeOK
<1>6. ASSUME NEW h \in Records, TimerFires(h) \/ Expire(h)
      PROVE  StoredInv'
  BY <1>6 DEF TimerFires, Expire
<1>7. ASSUME NEW h \in Records, Update(h) \/ UpdateFails(h)
      PROVE  StoredInv'
  BY <1>7 DEF Update, UpdateFails, WriteFails, Due
<1>8. CASE ExpireKey
  BY <1>8 DEF ExpireKey
<1>9. CASE Restart
  BY <1>9 DEF Restart, TypeOK
<1>10. CASE Tick
  BY <1>10 DEF Tick
<1>11. CASE UNCHANGED vars
  BY <1>11 DEF vars
<1>12. QED
  BY <1>1, <1>2, <1>3, <1>4, <1>5, <1>6, <1>7, <1>8, <1>9, <1>10, <1>11
  DEF Next, KontrolStep

(* An action that writes neither the storage nor the tickers and does not  *)
(* take the kite to a new record.                                          *)
LEMMA ListedIdle ==
    ASSUME ListedInv, UNCHANGED <<url, ttl, tick, failures>>,
           UNCHANGED <<current, ticking, firing>> \/ current' = NoRecord
    PROVE  ListedInv'
  BY DEF ListedInv, Fresh

LEMMA ListedNew ==
    ASSUME TypeOK, StoredInv, ListedInv, NEW u \in URLs, NewRecord(u)
    PROVE  ListedInv'
<1>1. PICK h \in Records :
        /\ current' = h /\ ticking' = ticking \cup {h}
        /\ tick' = [tick EXCEPT ![h] = UpdateInterval]
  BY DEF NewRecord
<1>2. url' # None /\ ttl' = KeyTTL
  BY DEF NewRecord, StoredInv, storeVars
<1>3. tick'[current'] = UpdateInterval
  BY <1>1 DEF TypeOK
<1>4. QED
  BY <1>1, <1>2, <1>3, TimesAssumption DEF ListedInv, Fresh

LEMMA ListedUpdate ==
    ASSUME Insert, TypeOK, StoredInv, ListedInv, NEW h \in Records, Update(h)
    PROVE  ListedInv'
<1>1. url' # None /\ ttl' = KeyTTL
  BY DEF Update, Due, StoredInv
<1>2. \A r \in Records : tick'[r] \in Nat /\ tick'[r] <= UpdateInterval
  BY TimesAssumption DEF Update, TypeOK
<1>3. UNCHANGED <<current, ticking, firing>>
  BY DEF Update
<1>4. Fresh' \/ current' \notin Records
  BY <1>1, <1>2, TimesAssumption DEF Fresh
<1>5. QED
  BY <1>3, <1>4 DEF ListedInv, TypeOK

LEMMA ListedTick ==
    ASSUME UpdateInterval < KeyTTL, TypeOK, UpdateNeverBlocks, ListedInv, Tick
    PROVE  ListedInv'
<1>1. UNCHANGED <<current, ticking, firing, url, failures>> /\ firing = {}
  BY DEF Tick
<1>2. ASSUME current # NoRecord, failures = 0 PROVE Fresh'
  <2>1. current \in Records \cap updater \cap ticking
    BY <1>1, <1>2 DEF UpdateNeverBlocks, ListedInv, TypeOK
  <2>2. tick[current] \in Nat /\ tick[current] # 0
    BY <2>1 DEF Tick, Due, TypeOK
  <2>3. tick'[current] = tick[current] - 1
    BY <2>1, <2>2 DEF Tick, Less
  <2>4. /\ url # None /\ ttl > 0 /\ ttl \in Nat
        /\ tick[current] + KeyTTL <= ttl + UpdateInterval
    BY <1>2, <2>1 DEF ListedInv, Fresh, TypeOK
  <2>5. ttl' = ttl - 1
    BY <2>4 DEF Tick, Less
  <2>6. QED
    BY <1>1, <2>2, <2>3, <2>4, <2>5, TimesAssumption DEF Fresh
<1>3. QED
  BY <1>1, <1>2 DEF ListedInv

LEMMA ListedStep ==
    ASSUME Insert, UpdateInterval < KeyTTL, TypeOK, UpdateNeverBlocks,
           StoredInv, ListedInv, [Next]_vars
    PROVE  ListedInv'
<1> USE DEF kiteVars, recordVars, storeVars
<1>1. CASE KiteStep
  BY <1>1, ListedIdle DEF KiteStep, RegisterHTTPForever, Stop
<1>2. ASSUME NEW u \in URLs, Upsert(u)
      PROVE  ListedInv'
  <2>1. url' # None /\ ttl' = KeyTTL
    BY <1>2, NamesAssumption DEF Upsert
  <2>2. current \in Records => tick[current] \in 0..UpdateInterval
    BY DEF TypeOK
  <2>3. UNCHANGED <<current, ticking, firing, tick>>
    BY <1>2 DEF Upsert
  <2>4. current \in Records \/ current = NoRecord
    BY DEF TypeOK
  <2>5. QED
    BY <2>1, <2>2, <2>3, <2>4, TimesAssumption DEF ListedInv, Fresh
<1>3. ASSUME NEW u \in URLs, UpsertFails(u)
      PROVE  ListedInv'
  BY <1>3, TimesAssumption DEF UpsertFails, WriteFails, ListedInv, TypeOK
<1>4. ASSUME NEW u \in URLs, ReuseRecord(u)
      PROVE  ListedInv'
  BY <1>4, ListedIdle DEF ReuseRecord
<1>5. CASE Pong \/ RegisterAgain
  BY <1>5, ListedIdle DEF Pong, RegisterAgain
<1>6. ASSUME NEW h \in Records, TimerFires(h)
      PROVE  ListedInv'
  BY <1>6 DEF TimerFires, ListedInv, Fresh
<1>7. ASSUME NEW h \in Records, Expire(h)
      PROVE  ListedInv'
  BY <1>7, ListedIdle DEF Expire
<1>8. ASSUME NEW h \in Records, UpdateFails(h)
      PROVE  ListedInv'
  BY <1>8, TimesAssumption DEF UpdateFails, WriteFails, ListedInv, TypeOK
<1>9. CASE ExpireKey
  BY <1>9 DEF ExpireKey, ListedInv, Fresh
<1>10. CASE Restart
  BY <1>10, ListedIdle DEF Restart
<1>11. CASE UNCHANGED vars
  BY <1>11, ListedIdle DEF vars
<1>12. QED
  BY <1>1, <1>2, <1>3, <1>4, <1>5, <1>6, <1>7, <1>8, <1>9, <1>10, <1>11,
     ListedNew, ListedUpdate, ListedTick
  DEF Next, KontrolStep

(* With Etcd and an update interval below the key's TTL, and as long as    *)
(* the storage does not fail, a kite that kontrol knows can be found, also *)
(* where a request overtakes a timer's function.                           *)
THEOREM KnownListed ==
    ASSUME Insert, UpdateInterval < KeyTTL PROVE Spec => []KnownIsListed
<1> DEFINE Inv == TypeOK /\ UpdateNeverBlocks /\ StoredInv /\ ListedInv
<1>1. Init => Inv
  BY TypeInit DEF Init, UpdateNeverBlocks, StoredInv, ListedInv
<1>2. Inv /\ [Next]_vars => Inv'
  BY TypeStep, UpdateStep, StoredStep, ListedStep
<1>3. Inv => KnownIsListed
  BY DEF ListedInv, Fresh, KnownIsListed
<1>4. QED
  BY <1>1, <1>2, <1>3, PTL DEF Spec
=============================================================================
