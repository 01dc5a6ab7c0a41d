------------------------- MODULE RegistrationProofs -------------------------
(***************************************************************************)
(* Safety of the two loops of kontrolclient.go that keep a kite reachable: *)
(* RegisterForever, for every set of URLs and every number of sessions and *)
(* failures, and RegisterToProxy with the tunnel proxy, for every number   *)
(* of public clients and connections.                                      *)
(***************************************************************************)
EXTENDS RegisterForever, TunnelProxy, FiniteSetTheorems, TLAPS

(* The loop has a URL in hand whenever it is not at its receive. *)
HandInv == loop # "receive" => u \in URLs

TypeInv == TypeOK /\ HandInv

LEMMA RetriesNat == MaxRetries \in Nat
  BY BoundsAssumption DEF MaxRetries

LEMMA TypeInit == Init => TypeInv
<1> SUFFICES ASSUME Init PROVE TypeInv
  OBVIOUS
<1>1. 0 \in 0..MaxSessions /\ 0 \in 0..MaxFailures /\ 0 \in 0..MaxRetries
  BY BoundsAssumption, RetriesNat
<1>2. retries \in [URLs -> 0..MaxRetries]
  BY <1>1 DEF Init
<1>3. QED
  BY <1>1, <1>2 DEF Init, TypeInv, TypeOK, HandInv

LEMMA TypeConnection ==
    ASSUME TypeInv, Dial \/ Break \/ Serve \/ \E s \in Sessions : OnConnect(s)
    PROVE  TypeInv'
<1> USE BoundsAssumption DEF TypeInv, TypeOK, HandInv, Sessions, loopVars,
                             connVars
<1>1. CASE Dial
  BY <1>1 DEF Dial
<1>2. CASE Break
  BY <1>2 DEF Break
<1>3. CASE Serve
  BY <1>3 DEF Serve
<1>4. CASE \E s \in Sessions : OnConnect(s)
  BY <1>4 DEF OnConnect, TrySend
<1>5. QED
  BY <1>1, <1>2, <1>3, <1>4

LEMMA TypeURL ==
    ASSUME TypeInv, NEW v \in URLs, Offer(v) \/ Retry(v)
    PROVE  TypeInv'
<1> USE BoundsAssumption, RetriesNat DEF TypeInv, TypeOK, HandInv, loopVars,
                                         connVars
<1>1. CASE Offer(v)
  BY <1>1 DEF Offer
<1>2. CASE Retry(v)
  BY <1>2 DEF Retry, TrySend
<1>3. QED
  BY <1>1, <1>2

LEMMA TypeLoop == ASSUME TypeInv, LoopStep PROVE TypeInv'
<1> USE BoundsAssumption, RetriesNat DEF TypeInv, TypeOK, HandInv, connVars
<1>1. CASE Receive
  BY <1>1 DEF Receive
<1>2. CASE Tell
  BY <1>2 DEF Tell
<1>3. CASE Succeed
  BY <1>3 DEF Succeed
<1>4. CASE Note
  BY <1>4 DEF Note
<1>5. CASE FailLost
  BY <1>5 DEF FailLost, ScheduleRetry
<1>6. CASE FailAnswered
  BY <1>6 DEF FailAnswered, ScheduleRetry
<1>7. QED
  BY <1>1, <1>2, <1>3, <1>4, <1>5, <1>6 DEF LoopStep

LEMMA TypeStep == TypeInv /\ [Next]_vars => TypeInv'
<1> SUFFICES ASSUME TypeInv, [Next]_vars PROVE TypeInv'
  OBVIOUS
<1>1. CASE UNCHANGED vars
  BY <1>1 DEF TypeInv, TypeOK, HandInv, vars, loopVars, connVars
<1>2. QED
  BY <1>1, TypeConnection, TypeURL, TypeLoop DEF Next

(* Every reachable state is well typed, the number of running retry timers *)
(* included.                                                               *)
THEOREM TypeCorrect == Spec => []TypeOK
<1>1. TypeInv => TypeOK
  BY DEF TypeInv
<1>2. QED
  BY <1>1, TypeInit, TypeStep, PTL DEF Spec

-----------------------------------------------------------------------------
(***************************************************************************)
(* Somebody always has a URL until the first registration succeeds.        *)
(***************************************************************************)
LEMMA ForgottenConnection ==
    ASSUME TypeInv, NeverForgotten,
           Dial \/ Break \/ Serve \/ \E s \in Sessions : OnConnect(s)
    PROVE  NeverForgotten'
<1> USE DEF NeverForgotten
<1>1. CASE Dial
  BY <1>1 DEF Dial, loopVars
<1>2. CASE Break
  BY <1>2 DEF Break, loopVars
<1>3. CASE Serve
  BY <1>3 DEF Serve
<1>4. CASE \E s \in Sessions : OnConnect(s)
  BY <1>4 DEF OnConnect, TrySend, loopVars
<1>5. QED
  BY <1>1, <1>2, <1>3, <1>4

LEMMA ForgottenURL ==
    ASSUME TypeInv, NeverForgotten, NEW v \in URLs, Offer(v) \/ Retry(v)
    PROVE  NeverForgotten'
<1>1. v # None
  BY BoundsAssumption
<1>2. registerChan' # None
  BY <1>1 DEF Offer, Retry, TrySend
<1>3. QED
  BY <1>2 DEF NeverForgotten

LEMMA ForgottenLoop ==
    ASSUME TypeInv, NeverForgotten, LoopStep PROVE NeverForgotten'
<1> USE DEF NeverForgotten
<1>1. CASE Receive
  BY <1>1 DEF Receive
<1>2. CASE Tell
  BY <1>2 DEF Tell
<1>3. CASE Succeed
  BY <1>3 DEF Succeed
<1>4. CASE Note
  BY <1>4 DEF Note
<1>5. ASSUME ScheduleRetry, loop = "tell" PROVE NeverForgotten'
  <2>1. u \in URLs
    BY <1>5 DEF TypeInv, HandInv
  <2>2. retries'[u] > 0
    BY <1>5, <2>1, RetriesNat DEF ScheduleRetry, TypeInv, TypeOK
  <2>3. QED
    BY <2>1, <2>2
<1>6. QED
  BY <1>1, <1>2, <1>3, <1>4, <1>5 DEF LoopStep, FailLost, FailAnswered

LEMMA ForgottenStep ==
    TypeInv /\ NeverForgotten /\ [Next]_vars => NeverForgotten'
<1> SUFFICES ASSUME TypeInv, NeverForgotten, [Next]_vars
             PROVE  NeverForgotten'
  OBVIOUS
<1>1. CASE UNCHANGED vars
  BY <1>1 DEF NeverForgotten, vars, loopVars
<1>2. QED
  BY <1>1, ForgottenConnection, ForgottenURL, ForgottenLoop DEF Next

(* However the non-blocking sends of retry timers and connect handlers     *)
(* race, a kite that is not registered yet goes on trying.                 *)
THEOREM KeepsTrying == Spec => []NeverForgotten
<1>1. Init => NeverForgotten
  BY DEF Init, NeverForgotten
<1>2. QED
  BY <1>1, TypeInit, TypeStep, ForgottenStep, PTL DEF Spec

-----------------------------------------------------------------------------
(***************************************************************************)
(* The retry timers.  A URL is in the channel, in the loop's hands and in  *)
(* its timers no more often than it was put there: once by the owner and   *)
(* once by every connect handler but the first, which runs before anything *)
(* has been registered.                                                    *)
(***************************************************************************)
Ran == session - Cardinality(handlers)

HandlerInv ==
    /\ Cardinality(handlers) <= session
    /\ \A s \in handlers : s <= session
    /\ readyConnected => Ran >= 1
    /\ loop \in {"tell", "note"} \/ lastRegisteredURL # None => readyConnected

InChannel(v) == IF registerChan = v THEN 1 ELSE 0
InHand(v) == IF loop # "receive" /\ u = v THEN 1 ELSE 0
Copies(v) == retries[v] + InChannel(v) + InHand(v)

CopiesInv ==
    /\ \A v \in offers : Copies(v) = 0 /\ lastRegisteredURL # v
    /\ \A v \in URLs : Copies(v) <= IF Ran = 0 THEN 1 ELSE Ran

LEMMA HandlersCount ==
    ASSUME TypeInv, HandlerInv
    PROVE  /\ Cardinality(handlers) \in Nat /\ session \in Nat /\ Ran \in Nat
           /\ Cardinality(handlers \cup {session + 1}) = Cardinality(handlers) + 1
           /\ \A s \in handlers : Cardinality(handlers \ {s}) = Cardinality(handlers) - 1
<1>1. IsFiniteSet(Sessions) /\ handlers \subseteq Sessions /\ session \in Nat
  <2>1. 1 \in Int /\ MaxSessions \in Int
    BY BoundsAssumption
  <2>2. IsFiniteSet(1..MaxSessions)
    BY <2>1, FS_Interval
  <2>3. QED
    BY <2>2, BoundsAssumption DEF Sessions, TypeInv, TypeOK
<1>2. IsFiniteSet(handlers)
  BY <1>1, FS_Subset
<1>3. Cardinality(handlers) \in Nat
  BY <1>2, FS_CardinalityType
<1>4. session + 1 \notin handlers
  BY <1>1 DEF HandlerInv
<1>5. Cardinality(handlers \cup {session + 1}) = Cardinality(handlers) + 1
  BY <1>2, <1>4, FS_AddElement
<1>6. \A s \in handlers : Cardinality(handlers \ {s}) = Cardinality(handlers) - 1
  BY <1>2, FS_RemoveElement
<1>7. QED
  BY <1>1, <1>3, <1>5, <1>6 DEF HandlerInv, Ran

LEMMA HandlersStep ==
    ASSUME TypeInv, HandlerInv, [Next]_vars
    PROVE  HandlerInv' /\ (Ran' = Ran \/ Ran' = Ran + 1)
<1> USE DEF loopVars, connVars
<1>0. /\ Cardinality(handlers) \in Nat /\ session \in Nat /\ Ran \in Nat
      /\ Cardinality(handlers \cup {session + 1}) = Cardinality(handlers) + 1
      /\ \A s \in handlers : Cardinality(handlers \ {s}) = Cardinality(handlers) - 1
  BY HandlersCount
<1>1. CASE Dial
  <2>1. /\ session' = session + 1 /\ handlers' = handlers \cup {session + 1}
        /\ UNCHANGED <<loop, lastRegisteredURL, readyConnected>>
    BY <1>1 DEF Dial
  <2>2. \A s \in handlers' : s <= session'
    BY <1>0, <2>1 DEF HandlerInv, TypeInv, TypeOK, Sessions
  <2>3. QED
    BY <1>0, <2>1, <2>2 DEF HandlerInv, Ran
<1>2. ASSUME NEW s \in Sessions, OnConnect(s) PROVE HandlerInv' /\ Ran' = Ran + 1
  <2>1. /\ s \in handlers /\ handlers' = handlers \ {s} /\ session' = session
        /\ readyConnected' = TRUE
    BY <1>2 DEF OnConnect
  <2>2. QED
    BY <1>0, <2>1 DEF HandlerInv, Ran
<1>3. ASSUME UNCHANGED <<session, handlers, readyConnected>>,
             loop' \in {"tell", "note"} => loop \in {"tell", "note"} \/ readyConnected,
             lastRegisteredURL' # None => lastRegisteredURL # None \/ loop = "note"
      PROVE  HandlerInv' /\ Ran' = Ran
  BY <1>3 DEF HandlerInv, Ran
<1>4. CASE Break \/ Serve \/ UNCHANGED vars \/ \E v \in URLs : Offer(v) \/ Retry(v)
  BY <1>3, <1>4 DEF Break, Serve, Offer, Retry, vars
<1>5. CASE LoopStep
  BY <1>3, <1>5 DEF LoopStep, Receive, Tell, Succeed, Note, FailLost, FailAnswered, ScheduleRetry
<1>6. QED
  BY <1>1, <1>2, <1>4, <1>5 DEF Next

LEMMA CopiesFall ==
    ASSUME TypeInv, TypeInv', HandlerInv, CopiesInv, Ran \in Nat,
           Ran' = Ran \/ Ran' = Ran + 1, offers' \subseteq offers,
           \A v \in URLs : Copies(v)' <= Copies(v),
           \A v \in offers' : lastRegisteredURL' # v
    PROVE  CopiesInv'
<1>1. \A v \in URLs : Copies(v) \in Nat /\ Copies(v)' \in Nat
  BY RetriesNat DEF TypeInv, TypeOK, Copies, InChannel, InHand
<1>2. offers \subseteq URLs
  BY DEF TypeInv, TypeOK
<1>3. QED
  BY <1>1, <1>2 DEF CopiesInv

LEMMA CopiesStep ==
    ASSUME TypeInv, TypeInv', HandlerInv, CopiesInv, [Next]_vars PROVE CopiesInv'
<1> USE DEF loopVars, connVars
<1>1. /\ Ran \in Nat /\ HandlerInv' /\ (Ran' = Ran \/ Ran' = Ran + 1)
      /\ \A v \in URLs : retries[v] \in Nat /\ Copies(v) \in Nat
      /\ retries \in [URLs -> 0..MaxRetries] /\ None \notin URLs
  BY BoundsAssumption, HandlersCount, HandlersStep, RetriesNat
     DEF TypeInv, TypeOK, Copies, InChannel, InHand
<1>2. ASSUME UNCHANGED <<offers, registerChan, u, retries, lastRegisteredURL>>,
             loop' = "receive" <=> loop = "receive"
      PROVE  CopiesInv'
  <2>1. \A v \in URLs : Copies(v)' = Copies(v)
    BY <1>2 DEF Copies, InChannel, InHand
  <2>2. QED
    BY <1>1, <1>2, <2>1, CopiesFall DEF CopiesInv
<1>3. CASE Dial \/ Break \/ Serve \/ Tell \/ Succeed \/ UNCHANGED vars
  BY <1>2, <1>3 DEF Dial, Break, Serve, Tell, Succeed, vars
<1>4. CASE Receive
  <2>1. \A v \in URLs : Copies(v)' <= Copies(v)
    BY <1>1, <1>4 DEF Receive, Copies, InChannel, InHand
  <2>2. QED
    BY <1>1, <1>4, <2>1, CopiesFall DEF Receive, CopiesInv
<1>5. CASE Note
  <2>1. \A v \in URLs : Copies(v)' <= Copies(v)
    BY <1>1, <1>5 DEF Note, Copies, InChannel, InHand
  <2>2. u \in URLs /\ Copies(u) # 0
    BY <1>1, <1>5 DEF Note, Copies, InChannel, InHand, TypeInv, HandInv
  <2>3. QED
    BY <1>1, <1>5, <2>1, <2>2, CopiesFall DEF Note, CopiesInv
<1>6. CASE FailLost \/ FailAnswered
  <2>1. /\ loop # "receive" /\ u \in URLs /\ loop' = "receive"
        /\ retries' = [retries EXCEPT ![u] = @ + 1]
        /\ UNCHANGED <<offers, registerChan, u, lastRegisteredURL>>
    BY <1>6 DEF FailLost, FailAnswered, ScheduleRetry, TypeInv, HandInv
  <2>2. \A v \in URLs : Copies(v)' <= Copies(v)
    BY <1>1, <2>1 DEF Copies, InChannel, InHand
  <2>3. QED
    BY <1>1, <2>1, <2>2, CopiesFall DEF CopiesInv
<1>7. ASSUME NEW w \in URLs, Retry(w) PROVE CopiesInv'
  <2>1. \A v \in URLs : Copies(v)' <= Copies(v)
    BY <1>1, <1>7 DEF Retry, TrySend, Copies, InChannel, InHand
  <2>2. QED
    BY <1>1, <1>7, <2>1, CopiesFall DEF Retry, CopiesInv
<1>8. ASSUME NEW w \in URLs, Offer(w) PROVE CopiesInv'
  <2>1. /\ w \in offers /\ Copies(w) = 0 /\ offers' = offers \ {w} /\ Ran' = Ran
        /\ lastRegisteredURL' = lastRegisteredURL
    BY <1>8 DEF Offer, CopiesInv, Ran
  <2>2. Copies(w)' = Copies(w) + 1 /\ \A v \in URLs \ {w} : Copies(v)' = Copies(v)
    BY <1>1, <1>8 DEF Offer, Copies, InChannel, InHand
  <2>3. offers \subseteq URLs
    BY DEF TypeInv, TypeOK
  <2>4. QED
    BY <1>1, <2>1, <2>2, <2>3 DEF CopiesInv
<1>9. ASSUME NEW s \in Sessions, OnConnect(s) PROVE CopiesInv'
  <2>1. /\ Ran' = Ran + 1 /\ offers' = offers /\ lastRegisteredURL' = lastRegisteredURL
        /\ registerChan' = IF registerChan = None THEN lastRegisteredURL ELSE registerChan
        /\ UNCHANGED <<loop, u, retries>>
    <3>1. s \in handlers /\ handlers' = handlers \ {s} /\ session' = session
      BY <1>9 DEF OnConnect
    <3>2. Ran' = Ran + 1
      BY <3>1, HandlersCount DEF Ran
    <3>3. QED
      BY <1>9, <3>2 DEF OnConnect, TrySend
  <2>2. CASE lastRegisteredURL = None
    <3>1. registerChan' = registerChan
      BY <2>1, <2>2
    <3>2. QED
      BY <1>2, <2>1, <3>1
  <2>3. CASE lastRegisteredURL # None
    <3>1. Ran >= 1
      BY <2>3 DEF HandlerInv
    <3>2. \A v \in URLs : /\ Copies(v)' <= Copies(v) + 1
                          /\ v # lastRegisteredURL => Copies(v)' = Copies(v)
      BY <1>1, <2>1, <2>3 DEF Copies, InChannel, InHand
    <3>3. offers \subseteq URLs /\ \A v \in offers : v # lastRegisteredURL
      BY DEF TypeInv, TypeOK, CopiesInv
    <3>4. \A v \in URLs : Copies(v)' \in Nat
      BY RetriesNat DEF TypeInv, TypeOK, Copies, InChannel, InHand
    <3>5. QED
      BY <1>1, <2>1, <3>1, <3>2, <3>3, <3>4 DEF CopiesInv
  <2>4. QED
    BY <2>2, <2>3
<1>10. QED
  BY <1>3, <1>4, <1>5, <1>6, <1>7, <1>8, <1>9 DEF Next, LoopStep

(* A registration that fails finds fewer than MaxSessions timers of its    *)
(* URL running, so the bound MaxRetries keeps no failure from happening.   *)
RetriesFit == loop = "tell" => retries[u] < MaxSessions

(* The non-blocking sends do not pile up timers: at most one for every     *)
(* session (kontrolclient.go:77-86 and 318-336), for any number of URLs,   *)
(* sessions and failures.                                                  *)
THEOREM RetriesStayFew == Spec => []RetriesFit
<1>1. Init => HandlerInv /\ CopiesInv
  <2> SUFFICES ASSUME Init PROVE HandlerInv /\ CopiesInv
    OBVIOUS
  <2>1. Cardinality(handlers) = 0 /\ session = 0 /\ Ran = 0
    BY FS_EmptySet DEF Init, Ran
  <2>2. ASSUME NEW v \in URLs PROVE Copies(v) = 0 /\ lastRegisteredURL # v
    <3>1. retries[v] = 0 /\ registerChan # v /\ lastRegisteredURL # v /\ loop = "receive"
      BY BoundsAssumption DEF Init
    <3>2. QED
      BY <3>1 DEF Copies, InChannel, InHand
  <2>3. QED
    BY <2>1, <2>2 DEF Init, HandlerInv, CopiesInv
<1>2. TypeInv /\ HandlerInv /\ CopiesInv => RetriesFit
  <2> SUFFICES ASSUME TypeInv, HandlerInv, CopiesInv, loop = "tell"
               PROVE  retries[u] < MaxSessions
    BY DEF RetriesFit
  <2>1. u \in URLs /\ retries[u] \in Nat /\ session \in 0..MaxSessions
    BY RetriesNat DEF TypeInv, TypeOK, HandInv
  <2>2. Ran >= 1 /\ Copies(u) <= Ran /\ Ran <= session
    BY <2>1, HandlersCount DEF HandlerInv, CopiesInv, Ran
  <2>3. Copies(u) >= retries[u] + 1
    BY <2>1 DEF Copies, InChannel, InHand
  <2>4. QED
    BY <2>1, <2>2, <2>3, HandlersCount, BoundsAssumption DEF Copies, InChannel, InHand
<1>3. TypeInv /\ TypeInv' /\ HandlerInv /\ CopiesInv /\ [Next]_vars => HandlerInv' /\ CopiesInv'
  BY HandlersStep, CopiesStep
<1>4. QED
  BY <1>1, <1>2, <1>3, TypeInit, TypeStep, PTL DEF Spec

-----------------------------------------------------------------------------
(***************************************************************************)
(* The registrations a reconnect owes.                                     *)
(***************************************************************************)

(* Kontrol answers over the session a request went over. *)
ServedInv ==
    /\ registered <= session /\ via <= session
    /\ loop = "tell" /\ answered => registered >= via

LEMMA ServedStep ==
    ASSUME TypeInv, ServedInv, [Next]_vars PROVE ServedInv' /\ registered' >= registered
<1> USE DEF loopVars, connVars, ServedInv, Alive, TypeInv, TypeOK
<1>1. CASE Dial \/ Break \/ Serve \/ UNCHANGED vars
  BY <1>1 DEF Dial, Break, Serve, vars
<1>2. CASE LoopStep
  BY <1>2 DEF LoopStep, Receive, Tell, Succeed, Note, FailLost, FailAnswered, ScheduleRetry
<1>3. CASE \E s \in Sessions : OnConnect(s)
  BY <1>3 DEF OnConnect
<1>4. CASE \E v \in URLs : Offer(v) \/ Retry(v)
  BY <1>4 DEF Offer, Retry
<1>5. QED
  BY <1>1, <1>2, <1>3, <1>4 DEF Next

(* Something that ends in a request over session s or a later one. *)
Trying(s) ==
    \/ registerChan # None
    \/ loop = "ready"
    \/ loop = "tell" /\ via >= s
    \/ \E v \in URLs : retries[v] > 0

(* What the connect handler of session s leaves behind: the kite is        *)
(* registered over s, or s is superseded, or it is still being tried.      *)
Owed(s) ==
    /\ s <= session
    /\ \/ registered >= s
       \/ session > s
       \/ lastRegisteredURL # None /\ (s \in handlers \/ Trying(s))

LEMMA OwedStep ==
    ASSUME TypeInv, ServedInv, [Next]_vars, NEW s \in Sessions, Owed(s)
    PROVE  Owed(s)'
<1> USE DEF loopVars, connVars
<1>1. /\ session \in Nat /\ registered \in Nat /\ via \in Nat /\ s \in Nat
      /\ session' \in Nat /\ registered' \in Nat
      /\ registered' >= registered /\ session' >= session
  <2>1. session' >= session
    BY DEF Next, vars, LoopStep, Dial, Break, OnConnect, Offer, Retry, Serve, Receive,
           Tell, Succeed, Note, FailLost, FailAnswered, TypeInv, TypeOK
  <2>2. QED
    BY <2>1, ServedStep, TypeStep DEF TypeInv, TypeOK, Sessions
<1>2. CASE registered >= s \/ session > s
  BY <1>1, <1>2 DEF Owed
<1>3. ASSUME lastRegisteredURL # None, s \in handlers \/ Trying(s), s = session
      PROVE  Owed(s)'
  <2>1. ASSUME lastRegisteredURL' # None, s \in handlers' \/ Trying(s)' PROVE Owed(s)'
    BY <1>1, <1>3, <2>1 DEF Owed
  <2>2. CASE Dial
    BY <1>1, <1>3, <2>2 DEF Dial, Owed
  <2>3. CASE Break \/ UNCHANGED vars
    BY <1>3, <2>1, <2>3 DEF Break, vars, Trying
  <2>4. ASSUME NEW t \in Sessions, OnConnect(t) PROVE Owed(s)'
    <3>1. registerChan' # None /\ lastRegisteredURL' = lastRegisteredURL
      BY <1>3, <2>4 DEF OnConnect, TrySend
    <3>2. QED
      BY <1>3, <2>1, <3>1 DEF Trying
  <2>5. ASSUME NEW v \in URLs, Offer(v) \/ Retry(v) PROVE Owed(s)'
    <3>1. registerChan' # None /\ lastRegisteredURL' = lastRegisteredURL
      BY <2>5, BoundsAssumption DEF Offer, Retry, TrySend
    <3>2. QED
      BY <1>3, <2>1, <3>1 DEF Trying
  <2>6. CASE Receive
    BY <1>3, <2>1, <2>6 DEF Receive, Trying
  <2>7. CASE Tell
    BY <1>1, <1>3, <2>1, <2>7 DEF Tell, Trying
  <2>8. CASE Serve
    BY <1>1, <1>3, <2>1, <2>8 DEF Serve, Trying
  <2>9. CASE Succeed
    <3>1. CASE via >= s
      BY <1>1, <1>2, <2>9, <3>1 DEF Succeed, ServedInv
    <3>2. CASE ~(via >= s)
      BY <1>3, <2>1, <2>9, <3>2 DEF Succeed, Trying
    <3>3. QED
      BY <3>1, <3>2
  <2>10. CASE Note
    BY <1>3, <2>1, <2>10, BoundsAssumption DEF Note, Trying, TypeInv, HandInv
  <2>11. CASE FailLost \/ FailAnswered
    <3>1. /\ u \in URLs /\ retries' = [retries EXCEPT ![u] = @ + 1]
          /\ lastRegisteredURL' = lastRegisteredURL
      BY <2>11 DEF FailLost, FailAnswered, ScheduleRetry, TypeInv, HandInv
    <3>2. retries'[u] > 0
      BY <3>1, RetriesNat DEF TypeInv, TypeOK
    <3>3. QED
      BY <1>3, <2>1, <3>1, <3>2 DEF Trying
  <2>12. QED
    BY <2>2, <2>3, <2>4, <2>5, <2>6, <2>7, <2>8, <2>9, <2>10, <2>11 DEF Next, LoopStep
<1>4. QED
  BY <1>1, <1>2, <1>3 DEF Owed

(* No step forgets the registration that a reconnect owes: neither a       *)
(* non-blocking send into a full channel (kontrolclient.go:77-86 and       *)
(* 328-331) nor a failed or lost request leaves the kite unregistered with *)
(* nothing trying.  With the fairness of the goroutines and the timers     *)
(* this is what makes Reregisters true.                                    *)
THEOREM ReconnectNeverForgotten ==
    Spec => [][\A s \in Sessions : Owed(s) => Owed(s)']_vars
<1>1. Init => ServedInv
  BY DEF Init, ServedInv
<1>2. TypeInv /\ ServedInv /\ [Next]_vars => ServedInv'
  BY ServedStep
<1>3. TypeInv /\ ServedInv /\ [Next]_vars
      => [\A s \in Sessions : Owed(s) => Owed(s)']_vars
  BY OwedStep
<1>4. QED
  BY <1>1, <1>2, <1>3, TypeInit, TypeStep, PTL DEF Spec

-----------------------------------------------------------------------------
(***************************************************************************)
(* The tunnel proxy.                                                       *)
(***************************************************************************)
LEMMA ProxyTypeInit == ASSUME ProxyInit PROVE ProxyTypeOK
<1>1. 0 \in 0..MaxConns
  BY ProxyAssumption
<1>2. tunnel \in [Clients -> [kite : 0..MaxConns, id : Nat]]
  BY <1>1 DEF ProxyInit
<1>3. QED
  BY <1>1, <1>2 DEF ProxyInit, ProxyTypeOK

(* A tunnel's PrivateKite and number are its own; numbers grow. *)
Made(s) == tunnel[s].kite # 0

NumberInv ==
    /\ \A s \in Clients : Made(s) => tunnel[s].id <= seq[tunnel[s].kite]
    /\ \A s, t \in Clients : Made(s) /\ tunnel[s] = tunnel[t] => s = t

(* What is known, started or joined of a tunnel comes after its handleProxy. *)
MadeInv ==
    \A s \in Clients :
        /\ proxy[s] = "none" => ~Made(s) /\ s \notin started /\ s \notin tunnels /\ dial[s] = "none"
        /\ proxy[s] # "none" => Made(s)

(* A dial joins a tunnel with the number it has got, which has started. *)
JoinInv ==
    /\ \A s \in Clients : dial[s] = "joined" =>
          /\ joined[s] \in Clients /\ joined[s] \in started
          /\ tunnel[joined[s]].id = tunnel[s].id
    /\ \A s, t \in Clients :
          dial[s] = "joined" /\ dial[t] = "joined" /\ joined[s] = joined[t] => s = t

ProxyInv == ProxyTypeOK /\ NumberInv /\ MadeInv /\ JoinInv

LEMMA ProxyTypes ==
    ASSUME ProxyTypeOK, JoinInv, [ProxyNext]_proxyVars
    PROVE  ProxyTypeOK'
<1> USE ProxyAssumption DEF ProxyTypeOK, Conns, kiteVars, tunnelVars,
            dialVars
<1>1. CASE KiteStep
  <2>1. CASE KiteDials
    <3>1. current + 1 \in 1..MaxConns
      BY <2>1 DEF KiteDials
    <3>2. QED
      BY <2>1, <3>1 DEF KiteDials
  <2>2. CASE RegisterAnswered \/ KiteSeesDisconnect
    BY <2>2 DEF RegisterAnswered, KiteSeesDisconnect
  <2>3. CASE RegisterFails
    <3>1. link' \in [1..MaxConns -> {"none", "up", "broken", "gone"}]
      BY <2>3 DEF RegisterFails
    <3>2. QED
      BY <2>3, <3>1 DEF RegisterFails
  <2>4. QED
    BY <1>1, <2>1, <2>2, <2>3 DEF KiteStep
<1>2. CASE Close
  BY <1>2 DEF Close, CloseTunnel
<1>3. ASSUME NEW n \in Conns, LinkBreaks(n) \/ LinkStep(n) PROVE ProxyTypeOK'
  <2>1. CASE LinkBreaks(n)
    BY <2>1 DEF LinkBreaks
  <2>2. CASE NewRequest(n) \/ HandleRegister(n)
    BY <1>3, <2>2 DEF NewRequest, HandleRegister
  <2>3. CASE OnDisconnect(n)
    BY <1>3, <2>3 DEF OnDisconnect
  <2>4. QED
    BY <1>3, <2>1, <2>2, <2>3 DEF LinkStep
<1>4. ASSUME NEW s \in Clients, HandleProxy(s) PROVE ProxyTypeOK'
  <2>1. entry \in 1..MaxConns /\ NextNumber(entry) \in Nat
    BY <1>4 DEF HandleProxy, NextNumber
  <2>2. [kite |-> entry, id |-> NextNumber(entry)] \in [kite : 0..MaxConns, id : Nat]
    BY <2>1
  <2>3. /\ tunnel' \in [Clients -> [kite : 0..MaxConns, id : Nat]]
        /\ seq' \in [1..MaxConns -> Nat]
    BY <1>4, <2>1, <2>2 DEF HandleProxy
  <2>4. QED
    BY <1>4, <2>3 DEF HandleProxy
<1>5. ASSUME NEW s \in Clients, ProxyStep(s) \/ RemoveTunnel(s) PROVE ProxyTypeOK'
  <2>1. CASE TunnelAnswered(s)
    BY <2>1 DEF TunnelAnswered
  <2>2. CASE TunnelRefused(s)
    BY <2>2 DEF TunnelRefused, CloseTunnel
  <2>3. CASE StartTimeout(s)
    BY <2>3 DEF StartTimeout, CloseTunnel
  <2>4. CASE CloseNotify(s)
    BY <2>4 DEF CloseNotify
  <2>5. CASE RemoveTunnel(s)
    BY <2>5 DEF RemoveTunnel
  <2>6. QED
    BY <1>5, <2>1, <2>2, <2>3, <2>4, <2>5 DEF ProxyStep
<1>6. ASSUME NEW s \in Clients, DialStep(s) \/ PublicCloses(s) \/ RemoteCopyEnds(s)
      PROVE  ProxyTypeOK'
  <2>1. CASE StreamsEnd(s) \/ PublicCloses(s)
    <3>1. StreamsEnd(s) => joined[s] \in Clients
      BY DEF StreamsEnd, JoinInv
    <3>2. CASE StreamsEnd(s)
      BY <3>1, <3>2 DEF StreamsEnd, CloseTunnel
    <3>3. CASE PublicCloses(s)
      BY <3>3 DEF PublicCloses
    <3>4. QED
      BY <2>1, <3>2, <3>3
  <2>2. CASE KiteDialsTunnel(s) \/ KiteDialFails(s) \/ KiteNotFound(s) \/ TunnelPanics(s)
    <3>1. CASE KiteDialsTunnel(s)
      BY <3>1 DEF KiteDialsTunnel
    <3>2. CASE KiteDialFails(s)
      BY <3>2 DEF KiteDialFails
    <3>3. CASE KiteNotFound(s)
      BY <3>3 DEF KiteNotFound
    <3>4. CASE TunnelPanics(s)
      BY <3>4 DEF TunnelPanics
    <3>5. QED
      BY <2>2, <3>1, <3>2, <3>3, <3>4
  <2>3. CASE HandleTunnel(s)
    BY <2>3 DEF HandleTunnel, Found
  <2>4. QED
    BY <1>6, <2>1, <2>2, <2>3 DEF DialStep, LocalCopyEnds, RemoteCopyEnds
<1>7. CASE UNCHANGED proxyVars
  BY <1>7 DEF proxyVars
<1>8. QED
  BY <1>1, <1>2, <1>3, <1>4, <1>5, <1>6, <1>7 DEF ProxyNext

(* Steps that make no tunnel and join none. *)
LEMMA NothingJoined ==
    ASSUME ProxyInv, UNCHANGED <<seq, tunnel, started, joined>>, tunnels' \subseteq tunnels,
           \A s \in Clients : dial'[s] = "joined" => dial[s] = "joined",
           \A s \in Clients : proxy'[s] = "none" <=> proxy[s] = "none",
           \A s \in Clients : dial[s] = "none" => dial'[s] = "none"
    PROVE  NumberInv' /\ MadeInv' /\ JoinInv'
<1>1. NumberInv'
  BY DEF ProxyInv, NumberInv, Made
<1>2. MadeInv'
  BY DEF ProxyInv, MadeInv, Made
<1>3. JoinInv'
  BY DEF ProxyInv, JoinInv
<1>4. QED
  BY <1>1, <1>2, <1>3

LEMMA TunnelMade ==
    ASSUME ProxyInv, NEW s \in Clients, HandleProxy(s)
    PROVE  NumberInv' /\ MadeInv' /\ JoinInv'
<1> DEFINE n == seq[entry] + 1
<1>1. /\ proxy[s] = "none" /\ entry # 0 /\ proxy' = [proxy EXCEPT ![s] = "tell"]
      /\ seq' = [seq EXCEPT ![entry] = n] /\ tunnel' = [tunnel EXCEPT ![s] = [kite |-> entry, id |-> n]]
      /\ tunnels' = tunnels \cup {s} /\ UNCHANGED <<started, joined>>
      /\ dial' = [dial EXCEPT ![s] = IF link[entry] = "up" THEN "asked" ELSE "none"]
  BY DEF HandleProxy, NextNumber
<1>2. /\ entry \in 1..MaxConns /\ seq \in [1..MaxConns -> Nat] /\ n \in Nat
      /\ tunnel \in [Clients -> [kite : 0..MaxConns, id : Nat]]
  BY <1>1, ProxyAssumption DEF ProxyInv, ProxyTypeOK, Conns
<1>3. /\ tunnel'[s] = [kite |-> entry, id |-> n]
      /\ \A t \in Clients : t # s => tunnel'[t] = tunnel[t]
  BY <1>1, <1>2
<1>4. /\ seq'[entry] = n /\ n > seq[entry]
      /\ \A k \in 1..MaxConns : seq[k] <= seq'[k] /\ seq[k] \in Nat /\ seq'[k] \in Nat
  BY <1>1, <1>2
<1>5. ASSUME NEW t \in Clients, Made(t)
      PROVE  /\ tunnel[t].kite \in 1..MaxConns /\ tunnel[t].id \in Nat
             /\ tunnel[t].id <= seq[tunnel[t].kite]
  BY <1>2, <1>5 DEF ProxyInv, NumberInv, Made
<1>6. ASSUME NEW t \in Clients, Made(t) PROVE tunnel[t] # [kite |-> entry, id |-> n]
  BY <1>2, <1>4, <1>5, <1>6
<1>7. ~Made(s) /\ s \notin started /\ dial[s] = "none"
  BY <1>1 DEF ProxyInv, MadeInv
<1> HIDE DEF n
<1>8. ASSUME NEW t \in Clients, Made(t)' PROVE tunnel'[t].id <= seq'[tunnel'[t].kite]
  <2>1. CASE t = s
    <3>1. tunnel'[t].id = n /\ tunnel'[t].kite = entry
      BY <1>3, <2>1
    <3>2. QED
      BY <1>2, <1>4, <3>1
  <2>2. CASE t # s
    <3>1. tunnel'[t] = tunnel[t] /\ Made(t)
      BY <1>3, <1>8, <2>2 DEF Made
    <3>2. QED
      BY <1>4, <1>5, <3>1
  <2>3. QED
    BY <2>1, <2>2
<1>9. ASSUME NEW q \in Clients, NEW t \in Clients, Made(q)', tunnel'[q] = tunnel'[t] PROVE q = t
  <2>1. CASE q = s /\ t # s
    BY <1>3, <1>6, <1>9, <2>1 DEF Made
  <2>2. CASE q # s /\ t = s
    BY <1>3, <1>6, <1>9, <2>2 DEF Made
  <2>3. CASE q # s /\ t # s
    BY <1>3, <1>9, <2>3 DEF ProxyInv, NumberInv, Made
  <2>4. QED
    BY <2>1, <2>2, <2>3
<1>10. NumberInv'
  BY <1>8, <1>9 DEF NumberInv
<1>11. /\ proxy'[s] = "tell" /\ dial'[s] # "joined"
       /\ \A t \in Clients : t # s => proxy'[t] = proxy[t] /\ dial'[t] = dial[t]
  BY <1>1 DEF ProxyInv, ProxyTypeOK
<1>12. MadeInv'
  <2>1. Made(s)'
    BY <1>1, <1>3 DEF Made
  <2>2. QED
    BY <1>1, <1>3, <1>11, <2>1 DEF ProxyInv, MadeInv, Made
<1>13. JoinInv'
  <2>1. ASSUME NEW t \in Clients, dial'[t] = "joined"
        PROVE  /\ t # s /\ dial[t] = "joined" /\ joined[t] \in Clients /\ joined[t] \in started
               /\ joined[t] # s /\ tunnel[joined[t]].id = tunnel[t].id
    BY <1>7, <1>11, <2>1 DEF ProxyInv, JoinInv
  <2>2. QED
    BY <1>1, <1>3, <2>1 DEF ProxyInv, JoinInv
<1>14. QED
  BY <1>10, <1>12, <1>13

LEMMA TunnelJoined ==
    ASSUME ProxyInv, NEW s \in Clients, HandleTunnel(s)
    PROVE  NumberInv' /\ MadeInv' /\ JoinInv'
<1>1. PICK t \in tunnels :
         /\ tunnel[t].id = tunnel[s].id /\ t \notin started
         /\ dial' = [dial EXCEPT ![s] = "joined"] /\ joined' = [joined EXCEPT ![s] = t]
         /\ started' = started \cup {t}
  BY DEF HandleTunnel, Found, CanRun
<1>2. dial[s] = "dialed" /\ UNCHANGED <<seq, tunnel, tunnels, proxy>>
  BY DEF HandleTunnel
<1>3. t \in Clients
  BY DEF ProxyInv, ProxyTypeOK
<1>4. /\ dial'[s] = "joined" /\ joined'[s] = t
      /\ \A q \in Clients : q # s => dial'[q] = dial[q] /\ joined'[q] = joined[q]
  BY <1>1 DEF ProxyInv, ProxyTypeOK
<1>5. NumberInv'
  BY <1>2 DEF ProxyInv, NumberInv, Made
<1>6. MadeInv'
  <2>1. proxy[t] # "none" /\ proxy[s] # "none"
    BY <1>2, <1>3 DEF ProxyInv, MadeInv
  <2>2. QED
    BY <1>1, <1>2, <1>4, <2>1 DEF ProxyInv, MadeInv, Made
<1>7. \A q \in Clients : q # s /\ dial[q] = "joined" => joined[q] # t
  BY <1>1 DEF ProxyInv, JoinInv
<1>8. JoinInv'
  BY <1>1, <1>2, <1>3, <1>4, <1>7 DEF ProxyInv, JoinInv
<1>9. QED
  BY <1>5, <1>6, <1>8

LEMMA ProxyInvStep ==
    ASSUME ProxyInv, [ProxyNext]_proxyVars PROVE ProxyInv'
<1>0. ProxyTypeOK'
  BY ProxyTypes DEF ProxyInv
<1> DEFINE Goal == NumberInv' /\ MadeInv' /\ JoinInv'
<1>1. CASE \/ KiteStep \/ Close \/ UNCHANGED proxyVars
           \/ \E n \in Conns : LinkBreaks(n) \/ LinkStep(n)
           \/ \E s \in Clients : RemoveTunnel(s) \/ PublicCloses(s)
  <2>1. UNCHANGED <<seq, tunnel, started, joined, dial, proxy>> /\ tunnels' \subseteq tunnels
    BY <1>1 DEF KiteStep, KiteDials, RegisterAnswered, RegisterFails,
        KiteSeesDisconnect, Close, LinkBreaks, LinkStep,
        NewRequest, HandleRegister, OnDisconnect, RemoveTunnel, PublicCloses,
        proxyVars, tunnelVars, dialVars
  <2>2. QED
    BY <1>0, <2>1, NothingJoined DEF ProxyInv
<1>2. ASSUME NEW s \in Clients, ProxyStep(s) PROVE Goal
  <2>1. /\ UNCHANGED <<seq, tunnel, tunnels, started, joined, dial>> /\ proxy[s] # "none"
        /\ proxy' = [proxy EXCEPT ![s] = "wait"] \/ proxy' = [proxy EXCEPT ![s] = "done"]
    BY <1>2 DEF ProxyStep, TunnelAnswered, TunnelRefused, StartTimeout,
        CloseNotify, tunnelVars, dialVars
  <2>2. \A t \in Clients : proxy'[t] = "none" <=> proxy[t] = "none"
    BY <2>1 DEF ProxyInv, ProxyTypeOK
  <2>3. QED
    BY <2>1, <2>2, NothingJoined
<1>3. ASSUME NEW s \in Clients, DialStep(s) \/ RemoteCopyEnds(s), ~HandleTunnel(s)
      PROVE  Goal
  <2>1. UNCHANGED <<seq, tunnel, tunnels, started, joined, proxy>>
    BY <1>3 DEF DialStep, RemoteCopyEnds, LocalCopyEnds, StreamsEnd,
        KiteDialsTunnel, KiteDialFails, KiteNotFound, TunnelPanics,
        tunnelVars, dialVars
  <2>2. dial[s] # "none" /\ \E d \in {"dialed", "none", "ended"} :
                                dial' = [dial EXCEPT ![s] = d] \/ dial' = dial
    BY <1>3 DEF DialStep, RemoteCopyEnds, LocalCopyEnds, StreamsEnd,
        KiteDialsTunnel, KiteDialFails, KiteNotFound, TunnelPanics,
        dialVars
  <2>3. \A t \in Clients : /\ dial'[t] = "joined" => dial[t] = "joined"
                           /\ dial[t] = "none" => dial'[t] = "none"
    BY <2>2 DEF ProxyInv, ProxyTypeOK
  <2>4. QED
    BY <2>1, <2>3, NothingJoined
<1>4. QED
  BY <1>0, <1>1, <1>2, <1>3, TunnelMade, TunnelJoined DEF ProxyNext, DialStep, ProxyInv

LEMMA ProxyInvariance == ProxySpec => []ProxyInv
<1>1. ProxyInit => ProxyInv
  <2> SUFFICES ASSUME ProxyInit PROVE ProxyInv
    OBVIOUS
  <2>1. NumberInv /\ MadeInv /\ JoinInv
    BY DEF ProxyInit, NumberInv, MadeInv, JoinInv, Made
  <2>2. QED
    BY <2>1, ProxyTypeInit DEF ProxyInv
<1>2. ProxyInv /\ [ProxyNext]_proxyVars => ProxyInv'
  BY ProxyInvStep
<1>3. QED
  BY <1>1, <1>2, PTL DEF ProxySpec

(* The state of the proxy is well typed: only tunnels that a session has   *)
(* made are started, joined and closed.                                    *)
THEOREM ProxyTypeCorrect == ProxySpec => []ProxyTypeOK
<1>1. ProxyInv => ProxyTypeOK
  BY DEF ProxyInv
<1>2. QED
  BY <1>1, ProxyInvariance, PTL

(* However late dials are and connections are lost, no tunnel is joined by *)
(* two dials, and among the tunnels of one PrivateKite, that is between    *)
(* two registrations, a dial joins the one it was made for.  A dial that   *)
(* is late beyond a new registration is not covered: numbers start over,   *)
(* and it may join a tunnel of the new PrivateKite (proxy.go:159, 254).    *)
THEOREM TunnelAlwaysRight ==
    ProxySpec => []RightTunnel
<1>1. ProxyInv => RightTunnel
  <2> SUFFICES ASSUME ProxyInv, NEW s \in Clients, dial[s] = "joined"
               PROVE  /\ tunnel[joined[s]].kite = tunnel[s].kite => joined[s] = s
                      /\ \A t \in Clients \ {s} : dial[t] = "joined" => joined[t] # joined[s]
    BY DEF RightTunnel
  <2>1. joined[s] \in Clients /\ tunnel[joined[s]].id = tunnel[s].id /\ Made(s)
    BY DEF ProxyInv, JoinInv, MadeInv
  <2>2. ASSUME tunnel[joined[s]].kite = tunnel[s].kite PROVE joined[s] = s
    <3>1. tunnel[joined[s]] = tunnel[s]
      BY <2>1, <2>2 DEF ProxyInv, ProxyTypeOK
    <3>2. QED
      BY <2>1, <3>1 DEF ProxyInv, NumberInv
  <2>3. QED
    BY <2>2 DEF ProxyInv, JoinInv
<1>2. QED
  BY <1>1, ProxyInvariance, PTL

(* What ends a tunnel: a tunnel that is running has streams whose end will *)
(* close it; handleProxy has only returned from a closed tunnel; the       *)
(* public connection of a closed tunnel is closed, so that the copy from a *)
(* dial that joins it late ends too; and a tunnel that is not closed is in *)
(* the map, for Close to find.                                             *)
NothingLeaks ==
    \A s \in Clients :
        /\ s \in started /\ s \notin closed =>
              \E t \in Clients : dial[t] = "joined" /\ joined[t] = s
        /\ proxy[s] = "done" => s \in closed
        /\ s \in closed => s \notin open /\ proxy[s] # "none"
        /\ proxy[s] # "none" => s \in tunnels \cup closed

(* Closing tunnels that were made, while the dials stay as they are.       *)
LEMMA ClosingLeaksNothing ==
    ASSUME NothingLeaks, NEW S \in SUBSET Clients, CloseTunnel(S),
           \A s \in S : proxy[s] # "none",
           \A s \in Clients : /\ proxy'[s] = "done" => proxy[s] = "done" \/ s \in S
                              /\ proxy'[s] = "none" <=> proxy[s] = "none",
           UNCHANGED <<started, tunnels, dial, joined>>
    PROVE  NothingLeaks'
  BY DEF NothingLeaks, CloseTunnel

LEMMA LeaksStep == ProxyInv /\ NothingLeaks /\ [ProxyNext]_proxyVars => NothingLeaks'
<1> SUFFICES ASSUME ProxyInv, NothingLeaks, [ProxyNext]_proxyVars PROVE NothingLeaks'
  OBVIOUS
<1> USE DEF kiteVars, tunnelVars, dialVars
<1>1. ASSUME UNCHANGED <<started, tunnels, closed, open, proxy, dialVars>> PROVE NothingLeaks'
  BY <1>1 DEF NothingLeaks
<1>2. CASE KiteStep \/ UNCHANGED proxyVars
  BY <1>1, <1>2
  DEF KiteStep, KiteDials, RegisterAnswered, RegisterFails, KiteSeesDisconnect, proxyVars
<1>3. ASSUME NEW n \in Conns, LinkBreaks(n) \/ LinkStep(n) PROVE NothingLeaks'
  BY <1>1, <1>3 DEF LinkBreaks, LinkStep, NewRequest, HandleRegister, OnDisconnect
<1>4. CASE Close
  <2> DEFINE S == {s \in tunnels : tunnel[s].kite = entry /\ entry # 0}
  <2>1. S \in SUBSET Clients /\ \A s \in S : proxy[s] # "none"
    BY DEF ProxyInv, ProxyTypeOK, MadeInv
  <2>2. CloseTunnel(S) /\ UNCHANGED <<started, tunnels, proxy, dial, joined>>
    BY <1>4 DEF Close
  <2> HIDE DEF S
  <2>3. QED
    BY <2>1, <2>2, ClosingLeaksNothing
<1>5. ASSUME NEW s \in Clients, HandleProxy(s) PROVE NothingLeaks'
  <2>1. /\ proxy[s] = "none" /\ dial[s] = "none" /\ s \notin closed /\ s \notin started
        /\ proxy' = [proxy EXCEPT ![s] = "tell"] /\ UNCHANGED <<started, closed, joined>>
        /\ tunnels' = tunnels \cup {s} /\ open' = open \cup {s}
    BY <1>5 DEF HandleProxy, ProxyInv, MadeInv, NothingLeaks
  <2>2. \A t \in Clients \ {s} : dial'[t] = dial[t] /\ proxy'[t] = proxy[t]
    BY <1>5, <2>1 DEF HandleProxy, ProxyInv, ProxyTypeOK
  <2>3. proxy'[s] = "tell"
    BY <2>1 DEF ProxyInv, ProxyTypeOK
  <2>4. QED
    BY <2>1, <2>2, <2>3 DEF NothingLeaks
<1>6. ASSUME NEW s \in Clients, ProxyStep(s) PROVE NothingLeaks'
  <2>1. CASE TunnelAnswered(s) \/ CloseNotify(s)
    <3>1. /\ proxy[s] # "none" /\ UNCHANGED <<started, tunnels, closed, open, dialVars>>
          /\ \E p \in {"wait", "done"} :
                proxy' = [proxy EXCEPT ![s] = p] /\ (p = "done" => s \in closed)
      BY <2>1 DEF TunnelAnswered, CloseNotify
    <3>2. proxy \in [Clients -> {"none", "tell", "wait", "done"}]
      BY DEF ProxyInv, ProxyTypeOK
    <3>3. PICK p \in {"wait", "done"} :
             proxy' = [proxy EXCEPT ![s] = p] /\ (p = "done" => s \in closed)
      BY <3>1
    <3>4. proxy'[s] = p /\ \A t \in Clients \ {s} : proxy'[t] = proxy[t]
      BY <3>2, <3>3
    <3>5. QED
      BY <3>1, <3>3, <3>4 DEF NothingLeaks
  <2>2. CASE TunnelRefused(s) \/ StartTimeout(s)
    <3>1. /\ proxy[s] # "none" /\ proxy' = [proxy EXCEPT ![s] = "done"]
          /\ CloseTunnel({s}) /\ UNCHANGED <<started, tunnels, dial, joined>>
      BY <2>2 DEF TunnelRefused, StartTimeout
    <3>2. \A t \in Clients : /\ proxy'[t] = "done" => proxy[t] = "done" \/ t \in {s}
                             /\ proxy'[t] = "none" <=> proxy[t] = "none"
      BY <3>1 DEF ProxyInv, ProxyTypeOK
    <3>3. QED
      BY <3>1, <3>2, ClosingLeaksNothing
  <2>3. QED
    BY <1>6, <2>1, <2>2 DEF ProxyStep
<1>7. ASSUME NEW s \in Clients, RemoveTunnel(s) \/ PublicCloses(s) PROVE NothingLeaks'
  BY <1>7 DEF RemoveTunnel, PublicCloses, NothingLeaks
<1>8. ASSUME NEW s \in Clients, StreamsEnd(s) PROVE NothingLeaks'
  <2>1. /\ dial[s] = "joined" /\ joined[s] \in Clients /\ joined[s] \in started
        /\ CloseTunnel({joined[s]}) /\ UNCHANGED <<started, tunnels, proxy, joined>>
    BY <1>8 DEF StreamsEnd, ProxyInv, JoinInv
  <2>2. proxy[joined[s]] # "none"
    BY <2>1 DEF ProxyInv, MadeInv
  <2>3. \A t \in Clients \ {s} : dial'[t] = dial[t]
    BY <1>8 DEF StreamsEnd, ProxyInv, ProxyTypeOK
  <2>4. QED
    BY <2>1, <2>2, <2>3 DEF NothingLeaks, CloseTunnel
<1>9. ASSUME NEW s \in Clients, HandleTunnel(s) PROVE NothingLeaks'
  <2>1. PICK t \in Found(s) : /\ joined' = [joined EXCEPT ![s] = t]
                              /\ started' = started \cup {t}
    BY <1>9 DEF HandleTunnel
  <2>2. /\ dial[s] = "dialed" /\ dial' = [dial EXCEPT ![s] = "joined"] /\ t \in Clients
        /\ UNCHANGED <<tunnels, closed, open, proxy>>
    BY <1>9 DEF HandleTunnel, Found, ProxyInv, ProxyTypeOK
  <2>3. /\ dial'[s] = "joined" /\ joined'[s] = t
        /\ \A r \in Clients \ {s} : dial'[r] = dial[r] /\ joined'[r] = joined[r]
    BY <2>1, <2>2 DEF ProxyInv, ProxyTypeOK
  <2>4. QED
    BY <2>1, <2>2, <2>3 DEF NothingLeaks
<1>10. ASSUME NEW s \in Clients, DialStep(s) \/ RemoteCopyEnds(s) PROVE NothingLeaks'
  <2>1. CASE KiteDialsTunnel(s) \/ KiteDialFails(s) \/ KiteNotFound(s)
    <3>1. /\ dial[s] \in {"asked", "dialed"} /\ \E d \in {"dialed", "none", "ended"} :
                dial' = [dial EXCEPT ![s] = d]
          /\ UNCHANGED <<started, tunnels, closed, open, proxy, joined>>
      BY <2>1 DEF KiteDialsTunnel, KiteDialFails, KiteNotFound
    <3>2. \A t \in Clients : dial[t] = "joined" => dial'[t] = "joined"
      BY <3>1 DEF ProxyInv, ProxyTypeOK
    <3>3. QED
      BY <3>1, <3>2 DEF NothingLeaks
  <2>2. CASE TunnelPanics(s)
    BY <1>1, <2>2 DEF TunnelPanics
  <2>3. QED
    BY <1>8, <1>9, <1>10, <2>1, <2>2 DEF DialStep, LocalCopyEnds, RemoteCopyEnds
<1>11. QED
  BY <1>2, <1>3, <1>4, <1>5, <1>6, <1>7, <1>10 DEF ProxyNext

(* No tunnel is left without something that ends it, for any number of     *)
(* public clients and connections: what the release of a tunnel            *)
(* (TunnelEnds) rests on (tunnelproxy/tunnel.go, proxy.go:171-304).        *)
THEOREM NoTunnelLeaks == ProxySpec => []NothingLeaks
<1>1. ProxyInit => NothingLeaks
  BY DEF ProxyInit, NothingLeaks
<1>2. QED
  BY <1>1, ProxyInvariance, LeaksStep, PTL DEF ProxySpec
=============================================================================
