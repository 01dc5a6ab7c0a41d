------------------------- MODULE TokenRenewerProofs -------------------------
(***************************************************************************)
(* The handlers of a client that reconnects, for any number of dials and   *)
(* requests; then the tokens it renews and the key pairs that sign them,   *)
(* for any set of pairs and kites and any lifetime.                        *)
(***************************************************************************)
EXTENDS TokenRenewer, KeyPairs, Sequences, WellFoundedInduction, TLAPS

(* A dial that is being put to use is within the bound. *)
DialInv == chain = "setSession" => session < MaxDials

(* Handlers run for the dials there have been.                             *)
OrderInv ==
    /\ \A s \in Dials : connect[s] # "none" => s <= session
    /\ ctx <= session
    /\ \A s \in cancelled : s # 0 /\ s <= session
    /\ chain = "read" => session \notin cancelled

(* A connection is served: handlers of some dial are on their way to start *)
(* a loop, or some loop lives.                                             *)
ServedInv ==
    chain = "read" /\ closing = "open" =>
        \E s \in Dials : \/ connect[s] \in {"start", "renew", "wait"}
                         \/ loop[s] \notin {"none", "exited"}

(* Until its connection ends, a request that found the context of its own  *)
(* session shares it with the client, which is how it comes to be          *)
(* cancelled.                                                              *)
RequestInv ==
    \A r \in Requests :
        LET s == context[r].session
        IN  s # 0 /\ s = context[r].ctx =>
                /\ s <= session
                /\ \/ s \in cancelled
                   \/ late
                   \/ s = session /\ ctx = s /\ chain \in {"read", "disconnect"}

Inv == TypeOK /\ DialInv /\ OrderInv /\ ServedInv /\ RequestInv

-----------------------------------------------------------------------------
(* What a signal does to the loops. *)

LoopStates == {"none", "start", "select", "renewing", "notify", "handlers",
               "sleep", "exited"}

LEMMA SignalEffect ==
    ASSUME TypeOK, SendDisconnectSignal
    PROVE  /\ loop' \in [Dials -> LoopStates]
           /\ \A s \in Dials : \/ loop'[s] = loop[s]
                               \/ loop[s] = "select" /\ loop'[s] = "exited"
<1>1. loop \in [Dials -> LoopStates]
  BY DEF TypeOK, LoopStates
<1>2. CASE UNCHANGED loop
  BY <1>1, <1>2
<1>3. ASSUME NEW s \in Selecting, loop' = [loop EXCEPT ![s] = "exited"]
      PROVE  /\ loop' \in [Dials -> LoopStates]
             /\ \A q \in Dials : \/ loop'[q] = loop[q]
                                 \/ loop[q] = "select" /\ loop'[q] = "exited"
  BY <1>1, <1>3 DEF Selecting, LoopStates
<1>4. QED
  BY <1>2, <1>3 DEF SendDisconnectSignal

LEMMA LoopStepEffect ==
    ASSUME TypeOK, NEW s \in Dials, NEW from, NEW to \in LoopStates, LoopStep(s, from, to)
    PROVE  /\ loop' \in [Dials -> LoopStates]
           /\ loop[s] = from /\ loop'[s] = to
           /\ \A q \in Dials \ {s} : loop'[q] = loop[q]
  BY DEF TypeOK, LoopStates, LoopStep

LEMMA TimerEffect ==
    ASSUME TypeOK, TimerFires
    PROVE  /\ loop' \in [Dials -> LoopStates]
           /\ \A s \in Dials : \/ loop'[s] = loop[s]
                               \/ loop[s] = "select" /\ loop'[s] = "renewing"
<1>1. loop \in [Dials -> LoopStates]
  BY DEF TypeOK, LoopStates
<1>2. CASE UNCHANGED loop
  BY <1>1, <1>2
<1>3. ASSUME NEW s \in Selecting, loop' = [loop EXCEPT ![s] = "renewing"]
      PROVE  /\ loop' \in [Dials -> LoopStates]
             /\ \A q \in Dials : \/ loop'[q] = loop[q]
                                 \/ loop[q] = "select" /\ loop'[q] = "renewing"
  BY <1>1, <1>3 DEF Selecting, LoopStates
<1>4. QED
  BY <1>2, <1>3 DEF TimerFires

-----------------------------------------------------------------------------
(* Types. *)

LEMMA TypeInit == Init => TypeOK /\ DialInv
<1> SUFFICES ASSUME Init PROVE TypeOK /\ DialInv
  OBVIOUS
<1>1. 0 \in 0..MaxDials
  BY RenewerAssumption
<1>2. context \in [Requests -> [session : 0..MaxDials, ctx : 0..MaxDials]]
  BY <1>1 DEF Init
<1>3. QED
  BY <1>1, <1>2 DEF Init, TypeOK, DialInv

LEMMA TypeChain ==
    ASSUME TypeOK, DialInv, Chain \/ Break \/ Close \/ CloseSession
    PROVE  TypeOK' /\ DialInv'
<1> USE RenewerAssumption DEF TypeOK, DialInv, ctxVars, renewVars
<1>1. CASE DialSucceeds
  BY <1>1 DEF DialSucceeds
<1>2. CASE DialSkipped
  BY <1>2 DEF DialSkipped
<1>3. CASE SetSession
  <2>1. session + 1 \in Dials /\ session' \in 0..MaxDials
    BY <1>3 DEF SetSession, Dials
  <2>2. connect' \in [Dials -> {"none", "start", "renew", "wait", "done"}]
    BY <1>3, <2>1 DEF SetSession
  <2>3. QED
    BY <1>3, <2>1, <2>2 DEF SetSession
<1>4. CASE ReadLoopEnds
  BY <1>4 DEF ReadLoopEnds
<1>5. CASE CloseContext
  BY <1>5 DEF CloseContext
<1>6. CASE SignalDisconnect
  BY <1>6, SignalEffect DEF SignalDisconnect, LoopStates
<1>7. CASE Break
  BY <1>7 DEF Break
<1>8. CASE Close
  BY <1>8, SignalEffect DEF Close, LoopStates
<1>9. CASE CloseSession
  BY <1>9 DEF CloseSession
<1>10. QED
  BY <1>1, <1>2, <1>3, <1>4, <1>5, <1>6, <1>7, <1>8, <1>9 DEF Chain

LEMMA TypeHandler ==
    ASSUME TypeOK, DialInv, NEW s \in Dials, Handler(s)
    PROVE  TypeOK' /\ DialInv'
<1> USE RenewerAssumption DEF TypeOK, DialInv, connVars, ctxVars, renewVars
<1>1. CASE SetContext(s)
  <2>1. s \in 0..MaxDials /\ <<s, "connect">> \in Dials \X {"connect", "loop"}
    BY DEF Dials
  <2>2. QED
    BY <1>1, <2>1 DEF SetContext
<1>2. CASE StopPreviousLoop(s)
  BY <1>2, SignalEffect DEF StopPreviousLoop, LoopStates
<1>3. CASE StartLoop(s)
  BY <1>3 DEF StartLoop
<1>4. QED
  BY <1>1, <1>2, <1>3 DEF Handler

LEMMA TypeLoop ==
    ASSUME TypeOK, DialInv, NEW s \in Dials, Loop(s) \/ Answer(s) \/ TokenExpireSignal(s)
    PROVE  TypeOK' /\ DialInv'
<1> USE DEF TypeOK, DialInv, connVars, ctxVars
<1>1. CASE LoopStarts(s) \/ RetryLater(s)
  BY <1>1 DEF LoopStarts, RetryLater, LoopStep
<1>2. CASE NotifyLocks(s)
  <2>1. <<s, "loop">> \in Dials \X {"connect", "loop"}
    OBVIOUS
  <2>2. QED
    BY <1>2, <2>1 DEF NotifyLocks, LoopStep
<1>3. CASE NotifyReturns(s)
  BY <1>3 DEF NotifyReturns, LoopStep
<1>4. CASE RenewSucceeds(s) \/ RenewFindsNoKite(s) \/ RenewFails(s)
  BY <1>4 DEF RenewSucceeds, RenewFindsNoKite, RenewFails, LoopStep
<1>5. CASE TokenExpireSignal(s)
  BY <1>5 DEF TokenExpireSignal, LoopStep
<1>6. QED
  BY <1>1, <1>2, <1>3, <1>4, <1>5 DEF Loop, Answer

LEMMA TypeStep == TypeOK /\ DialInv /\ [Next]_vars => TypeOK' /\ DialInv'
<1> SUFFICES ASSUME TypeOK, DialInv, [Next]_vars PROVE TypeOK' /\ DialInv'
  OBVIOUS
<1>1. CASE TimerFires
  BY <1>1, TimerEffect DEF TimerFires, TypeOK, DialInv, LoopStates, connVars, ctxVars
<1>2. CASE TokenExpires
  BY <1>2 DEF TokenExpires, TypeOK, DialInv, connVars, ctxVars
<1>3. ASSUME NEW r \in Requests, Request(r) PROVE TypeOK' /\ DialInv'
  <2>1. [session |-> session, ctx |-> ctx] \in [session : 0..MaxDials, ctx : 0..MaxDials]
    BY DEF TypeOK
  <2>2. context' \in [Requests -> [session : 0..MaxDials, ctx : 0..MaxDials]]
    BY <1>3, <2>1 DEF Request, TypeOK
  <2>3. QED
    BY <1>3, <2>2 DEF Request, TypeOK, DialInv, connVars, renewVars
<1>4. CASE UNCHANGED vars
  BY <1>4 DEF vars, TypeOK, DialInv, connVars, ctxVars, renewVars
<1>5. QED
  BY <1>1, <1>2, <1>3, <1>4, TypeChain, TypeHandler, TypeLoop DEF Next

-----------------------------------------------------------------------------
(* Sessions and contexts. *)

LEMMA OrderStep == Inv /\ [Next]_vars => OrderInv'
<1> SUFFICES ASSUME Inv, [Next]_vars PROVE OrderInv'
  OBVIOUS
<1> USE DEF OrderInv
<1>0. /\ session \in Nat /\ ctx \in Nat /\ Dials \subseteq Nat /\ cancelled \subseteq Nat
      /\ connect \in [Dials -> {"none", "start", "renew", "wait", "done"}]
      /\ OrderInv
  BY RenewerAssumption DEF Inv, TypeOK, Dials
<1>1. CASE DialSucceeds \/ DialSkipped \/ ReadLoopEnds \/ Break
  BY <1>0, <1>1 DEF DialSucceeds, DialSkipped, ReadLoopEnds, Break, ctxVars
<1>2. CASE SetSession
  <2>1. session + 1 \in Dials
    BY <1>2, RenewerAssumption DEF SetSession, Inv, DialInv, TypeOK, Dials
  <2>2. QED
    BY <1>0, <1>2, <2>1 DEF SetSession, ctxVars
<1>3. CASE CloseContext
  BY <1>0, <1>3 DEF CloseContext
<1>4. CASE SignalDisconnect
  BY <1>0, <1>4 DEF SignalDisconnect, ctxVars
<1>5. CASE Close \/ CloseSession \/ TokenExpires \/ TimerFires \/ UNCHANGED vars
  BY <1>0, <1>5 DEF Close, CloseSession, TokenExpires, TimerFires, vars, connVars, ctxVars
<1>6. ASSUME NEW s \in Dials, Handler(s) PROVE OrderInv'
  BY <1>0, <1>6 DEF Handler, SetContext, StopPreviousLoop, StartLoop, connVars, ctxVars
<1>7. ASSUME NEW s \in Dials, Loop(s) \/ Answer(s) \/ TokenExpireSignal(s) PROVE OrderInv'
  BY <1>0, <1>7 DEF Loop, LoopStarts, NotifyLocks, NotifyReturns, RetryLater, Answer,
                    RenewSucceeds, RenewFindsNoKite, RenewFails, TokenExpireSignal,
                    connVars, ctxVars
<1>8. ASSUME NEW r \in Requests, Request(r) PROVE OrderInv'
  BY <1>0, <1>8 DEF Request, connVars
<1>9. QED
  BY <1>1, <1>2, <1>3, <1>4, <1>5, <1>6, <1>7, <1>8 DEF Next, Chain

LEMMA RequestStep == Inv /\ [Next]_vars => RequestInv'
<1> SUFFICES ASSUME Inv, [Next]_vars PROVE RequestInv'
  OBVIOUS
<1> USE DEF RequestInv
<1>0. /\ session \in Nat /\ ctx \in Nat /\ Dials \subseteq Nat
      /\ context \in [Requests -> [session : Nat, ctx : Nat]]
      /\ RequestInv /\ OrderInv
  BY RenewerAssumption DEF Inv, TypeOK, Dials
<1>1. CASE DialSucceeds \/ DialSkipped \/ ReadLoopEnds \/ Break
  BY <1>0, <1>1 DEF DialSucceeds, DialSkipped, ReadLoopEnds, Break, ctxVars
<1>2. CASE SetSession
  BY <1>0, <1>2 DEF SetSession, ctxVars
<1>3. CASE CloseContext
  BY <1>0, <1>3 DEF CloseContext
<1>4. CASE SignalDisconnect
  BY <1>0, <1>4 DEF SignalDisconnect, ctxVars
<1>5. CASE Close \/ CloseSession \/ TokenExpires \/ TimerFires \/ UNCHANGED vars
  BY <1>0, <1>5 DEF Close, CloseSession, TokenExpires, TimerFires, vars, connVars, ctxVars
<1>6. ASSUME NEW s \in Dials, SetContext(s) PROVE RequestInv'
  <2>1. s <= session
    BY <1>0, <1>6 DEF SetContext, OrderInv
  <2>2. UNCHANGED <<session, chain, cancelled, context>> /\ ctx' = s
    BY <1>6 DEF SetContext, connVars
  <2>3. CASE s < session
    <3>1. late'
      BY <1>6, <2>3 DEF SetContext
    <3>2. QED
      BY <1>0, <2>2, <3>1
  <2>4. CASE s = session
    <3>1. late => late'
      BY <1>6 DEF SetContext
    <3>2. QED
      BY <1>0, <2>2, <2>4, <3>1
  <2>5. QED
    BY <1>0, <2>1, <2>3, <2>4
<1>7. ASSUME NEW s \in Dials,
             \/ StopPreviousLoop(s) \/ StartLoop(s)
             \/ Loop(s) \/ Answer(s) \/ TokenExpireSignal(s)
      PROVE  RequestInv'
  BY <1>0, <1>7 DEF StopPreviousLoop, StartLoop, Loop, LoopStarts, NotifyLocks,
                    NotifyReturns, RetryLater, Answer, RenewSucceeds, RenewFindsNoKite,
                    RenewFails, TokenExpireSignal, connVars, ctxVars
<1>8. ASSUME NEW r \in Requests, Request(r) PROVE RequestInv'
  BY <1>0, <1>8 DEF Request, connVars
<1>9. QED
  BY <1>1, <1>2, <1>3, <1>4, <1>5, <1>6, <1>7, <1>8 DEF Next, Chain, Handler

-----------------------------------------------------------------------------
(* The loops. *)

LEMMA ServedStep == Inv /\ [Next]_vars => ServedInv'
<1> SUFFICES ASSUME Inv, [Next]_vars PROVE ServedInv'
  OBVIOUS
<1> USE DEF ServedInv
<1>0. /\ loop \in [Dials -> LoopStates] /\ TypeOK /\ ServedInv
      /\ connect \in [Dials -> {"none", "start", "renew", "wait", "done"}]
  BY DEF Inv, TypeOK, LoopStates
<1>1. CASE DialSucceeds \/ DialSkipped \/ ReadLoopEnds \/ Break
  BY <1>0, <1>1 DEF DialSucceeds, DialSkipped, ReadLoopEnds, Break, renewVars
<1>2. CASE SetSession
  <2>1. session + 1 \in Dials
    BY <1>2, RenewerAssumption DEF SetSession, Inv, DialInv, TypeOK, Dials
  <2>2. connect'[session + 1] = "start"
    BY <1>0, <1>2, <2>1 DEF SetSession
  <2>3. QED
    BY <2>1, <2>2
<1>3. CASE CloseContext \/ SignalDisconnect \/ Close
  BY <1>3 DEF CloseContext, SignalDisconnect, Close
<1>4. CASE CloseSession \/ TokenExpires \/ UNCHANGED vars
  BY <1>0, <1>4 DEF CloseSession, TokenExpires, vars, connVars, renewVars
<1>5. ASSUME NEW s \in Dials, SetContext(s) \/ StopPreviousLoop(s) PROVE ServedInv'
  <2>1. connect'[s] \in {"renew", "wait"}
    BY <1>0, <1>5 DEF SetContext, StopPreviousLoop
  <2>2. QED
    BY <2>1
<1>6. ASSUME NEW s \in Dials, StartLoop(s) PROVE ServedInv'
  <2>1. loop'[s] = "start"
    BY <1>0, <1>6 DEF StartLoop
  <2>2. QED
    BY <2>1
<1>7. ASSUME NEW s \in Dials, Loop(s) \/ Answer(s) \/ TokenExpireSignal(s) PROVE ServedInv'
  <2>1. loop'[s] \notin {"none", "exited"}
    BY <1>0, <1>7 DEF Loop, LoopStarts, NotifyLocks, NotifyReturns, RetryLater, Answer,
                    RenewSucceeds, RenewFindsNoKite, RenewFails, TokenExpireSignal, LoopStep
  <2>2. QED
    BY <2>1
<1>8. CASE TimerFires
  BY <1>0, <1>8, TimerEffect DEF TimerFires, connVars
<1>9. ASSUME NEW r \in Requests, Request(r) PROVE ServedInv'
  BY <1>0, <1>9 DEF Request, connVars, renewVars
<1>10. QED
  BY <1>1, <1>2, <1>3, <1>4, <1>5, <1>6, <1>7, <1>8, <1>9 DEF Next, Chain, Handler

-----------------------------------------------------------------------------
LEMMA Invariance == Spec => []Inv
<1>1. Init => Inv
  <2> SUFFICES ASSUME Init PROVE Inv
    OBVIOUS
  <2>1. ServedInv /\ OrderInv
    BY DEF Init, ServedInv, OrderInv
  <2>2. RequestInv
    BY DEF Init, RequestInv
  <2>3. QED
    BY <2>1, <2>2, TypeInit DEF Inv
<1>2. Inv /\ [Next]_vars => Inv'
  BY TypeStep, OrderStep, ServedStep, RequestStep DEF Inv
<1>3. QED
  BY <1>1, <1>2, PTL DEF Spec

(* The variables of TokenRenewer keep their types: a dial that is put to   *)
(* use has a goroutine and a loop of its own.                              *)
THEOREM TypeCorrect == Spec => []TypeOK
<1>1. Inv => TypeOK
  BY DEF Inv
<1>2. QED
  BY <1>1, Invariance, PTL

(* A connection that no connect handler is working on has a renewLoop: no  *)
(* order in which the handlers of several dials run, and the disconnect    *)
(* signals meet or miss their loops, ends the last one before the next is  *)
(* started.                                                                *)
THEOREM LoopAlwaysServes == Spec => []LoopServes
<1>1. Inv => LoopServes
  BY DEF Inv, ServedInv, LoopServes
<1>2. QED
  BY <1>1, Invariance, PTL

(* For any number of dials and requests, a request that was given the      *)
(* context of its own session (client.go:276-292) keeps it uncancelled     *)
(* while readLoop serves the session, and has it cancelled afterwards      *)
(* unless a connect handler ran late, under a newer session than its own.  *)
(* The two exemptions are real: a request may come before its session's    *)
(* handler, and a late handler replaces a context nobody then cancels.     *)
THEOREM ContextAlwaysFollows == Spec => []ContextFollowsSession
<1>1. Inv => ContextFollowsSession
  <2> SUFFICES ASSUME Inv, NEW r \in Requests,
                      context[r].session # 0, context[r].session = context[r].ctx
               PROVE  LET s == context[r].session
                      IN  /\ s = session /\ chain = "read" => s \notin cancelled
                          /\ s < session \/ chain \notin {"read", "disconnect"}
                                => s \in cancelled \/ late
    BY DEF ContextFollowsSession
  <2>1. context[r].session \in Nat /\ session \in Nat
    BY RenewerAssumption DEF Inv, TypeOK
  <2>2. QED
    BY <2>1 DEF Inv, OrderInv, RequestInv
<1>2. QED
  BY <1>1, Invariance, PTL

-----------------------------------------------------------------------------
(***************************************************************************)
(* The key pairs kontrol signs tokens with, and the tokens it caches.      *)
(***************************************************************************)

LEMMA Smallest ==
    ASSUME NEW S, S \subseteq Nat, S # {} PROVE \E x \in S : \A y \in S : x <= y
<1>1. PICK x \in S : \A y \in S : ~(<<y, x>> \in OpToRel(<, Nat))
  BY NatLessThanWellFounded, WFMin, Zenon
<1>2. \A y \in S : ~(y < x)
  BY <1>1 DEF OpToRel
<1>3. QED
  BY <1>2

LEMMA Largest ==
    ASSUME NEW n \in Nat, NEW S, S \subseteq 1..n, S # {}
    PROVE  \E x \in S : \A y \in S : x >= y
<1> DEFINE T == {n - i : i \in S}
<1>0. \A i \in S : n - i \in Nat
  OBVIOUS
<1>1. T \subseteq Nat /\ T # {}
  BY <1>0
<1>2. PICK t \in T : \A y \in T : t <= y
  BY <1>1, Smallest
<1>3. PICK x \in S : t = n - x
  BY <1>2
<1>4. \A y \in S : n - x <= n - y
  BY <1>2, <1>3
<1>5. QED
  BY <1>4

(* The listing Kontrol.KeyPair finds. *)
LEMMA OwnListing ==
    ASSUME last \in Seq(Listing), KeyPair # NoListing
    PROVE  \/ KeyPair = selfKeyPair /\ selfKeyPair # NoListing
           \/ \E i \in 1..Len(last) : KeyPair = last[i] /\ last[i].pair = Self
<1> DEFINE I == {j \in 1..Len(last) : last[j].pair = Self}
<1>1. CASE selfKeyPair # NoListing
  BY <1>1 DEF KeyPair
<1>2. CASE selfKeyPair = NoListing
  <2>1. I # {}
    BY <1>2 DEF KeyPair, SelectLastInSeq
  <2>2. \E x \in I : \A y \in I : x >= y
    <3>1. I \subseteq 1..Len(last) /\ Len(last) \in Nat
      OBVIOUS
    <3> HIDE DEF I
    <3>2. QED
      BY <2>1, <3>1, Largest
  <2>3. Max(I) \in I
    BY <2>2 DEF Max
  <2>4. KeyPair = last[Max(I)]
    BY <1>2, <2>1, <2>3 DEF KeyPair, SelectLastInSeq
  <2>5. Max(I) \in 1..Len(last) /\ last[Max(I)].pair = Self
    BY <2>3
  <2>6. QED
    BY <2>4, <2>5
<1>3. QED
  BY <1>1, <1>2

LEMMA ConcatElements ==
    ASSUME NEW S, NEW a \in Seq(S), NEW b \in Seq(S)
    PROVE  /\ a \o b \in Seq(S) /\ Len(a \o b) = Len(a) + Len(b)
           /\ \A i \in 1..Len(a \o b) :
                 \/ i \in 1..Len(a) /\ (a \o b)[i] = a[i]
                 \/ i - Len(a) \in 1..Len(b) /\ (a \o b)[i] = b[i - Len(a)]
  OBVIOUS

(* What DeleteKeyPair leaves of the listings. *)
Left(p) == RemoveFirstMatch(last, LAMBDA x : x.pair = p)

LEMMA Removed ==
    ASSUME last \in Seq(Listing), NEW p
    PROVE  /\ Left(p) \in Seq(Listing) /\ Len(Left(p)) <= Len(last)
           /\ \A i \in 1..Len(Left(p)) : \E j \in 1..Len(last) : Left(p)[i] = last[j]
<1> DEFINE l == Left(p)
<1>0. l = RemoveFirstMatch(last, LAMBDA x : x.pair = p)
  BY DEF Left
<1> HIDE DEF l
<1> SUFFICES /\ l \in Seq(Listing) /\ Len(l) <= Len(last)
             /\ \A i \in 1..Len(l) : \E j \in 1..Len(last) : l[i] = last[j]
  BY DEF l
<1> DEFINE I == {j \in 1..Len(last) : last[j].pair = p}
<1>1. CASE I = {}
  <2>1. l = last
    BY <1>0, <1>1 DEF RemoveFirstMatch
  <2>2. \A i \in 1..Len(last) : last[i] = last[i]
    OBVIOUS
  <2>3. \A i \in 1..Len(l) : \E j \in 1..Len(last) : l[i] = last[j]
    BY <2>1, <2>2, Zenon
  <2>4. Len(last) <= Len(last)
    OBVIOUS
  <2>5. QED
    BY <2>1, <2>3, <2>4, Zenon
<1>2. CASE I # {}
  <2>1. I \subseteq Nat
    OBVIOUS
  <2>2. \E x \in I : \A y \in I : x <= y
    <3> HIDE DEF I
    <3>1. QED
      BY <1>2, <2>1, Smallest
  <2>3. Min(I) \in I
    BY <2>2 DEF Min
  <2>4. l = RemoveAt(last, Min(I))
    BY <1>0, <1>2 DEF RemoveFirstMatch, SelectInSeq
  <2>5. PICK m \in 1..Len(last) : l = SubSeq(last, 1, m - 1) \o SubSeq(last, m + 1, Len(last))
    BY <2>3, <2>4 DEF RemoveAt
  <2> DEFINE front == SubSeq(last, 1, m - 1)
             back == SubSeq(last, m + 1, Len(last))
  <2>6. /\ front \in Seq(Listing) /\ Len(front) = m - 1
        /\ \A i \in 1..Len(front) : front[i] = last[i]
    OBVIOUS
  <2>7. /\ back \in Seq(Listing) /\ Len(back) = Len(last) - m
        /\ \A i \in 1..Len(back) : back[i] = last[m + i]
    OBVIOUS
  <2> HIDE DEF front, back
  <2>8. l = front \o back
    BY <2>5 DEF front, back
  <2>9. /\ front \o back \in Seq(Listing)
        /\ Len(front \o back) = Len(front) + Len(back)
        /\ \A i \in 1..Len(front \o back) :
              \/ i \in 1..Len(front) /\ (front \o back)[i] = front[i]
              \/ i - Len(front) \in 1..Len(back) /\ (front \o back)[i] = back[i - Len(front)]
    BY <2>6, <2>7, ConcatElements, Zenon
  <2>10. l \in Seq(Listing) /\ Len(l) = (m - 1) + (Len(last) - m)
    BY <2>6, <2>7, <2>8, <2>9
  <2>11. ASSUME NEW i \in 1..Len(l) PROVE \E j \in 1..Len(last) : l[i] = last[j]
    <3>1. CASE i \in 1..Len(front) /\ l[i] = front[i]
      <4>1. i \in 1..Len(last) /\ l[i] = last[i]
        BY <2>6, <3>1
      <4>2. QED
        BY <4>1
    <3>2. CASE i - Len(front) \in 1..Len(back) /\ l[i] = back[i - Len(front)]
      <4>1. PICK j \in 1..(Len(last) - m) : l[i] = last[m + j]
        BY <2>7, <3>2
      <4>2. m + j \in 1..Len(last)
        OBVIOUS
      <4>3. QED
        BY <4>1, <4>2
    <3>3. QED
      BY <2>8, <2>9, <3>1, <3>2, Zenon
  <2>12. Len(l) <= Len(last)
    BY <2>10
  <2>13. QED
    BY <2>10, <2>11, <2>12
<1>3. QED
  BY <1>1, <1>2

-----------------------------------------------------------------------------
(* Types of the key pairs. *)

Listings == Listing \cup {NoListing}

LEMMA FoundTypes ==
    ASSUME KeysTypeOK
    PROVE  /\ KeyPair \in Listings /\ PickKey \in Listings
           /\ \A p \in Pairs : \A found : GetOrUpdateKey(p, found) \in Listings
<1>1. KeyPair \in Listings
  <2>1. ASSUME NEW i \in 1..Len(last) PROVE last[i] \in Listing
    BY DEF KeysTypeOK
  <2>2. selfKeyPair \in Listings
    BY DEF KeysTypeOK, Listings
  <2>3. CASE KeyPair # NoListing
    BY <2>1, <2>2, <2>3, OwnListing DEF KeysTypeOK, Listings
  <2>4. QED
    BY <2>3 DEF Listings
<1>2. \A p \in Pairs : Known(p) \in Listings
  BY DEF Listings, Known, Listing
<1>3. PickKey \in Listings
  BY <1>2, KeyPairsAssumption DEF Listings, PickKey
<1>4. QED
  BY <1>1, <1>2, <1>3 DEF GetOrUpdateKey

LEMMA TimesTypes ==
    /\ CacheFor \in Nat \ {0} /\ Lifetime \in Nat
    /\ \A n \in 0..CacheFor :
          /\ CacheFor - n \in 0..CacheFor
          /\ Lifetime - n \in 0..Lifetime
          /\ Lifetime - n >= 2 * Leeway
          /\ n # CacheFor => n + 1 \in 0..CacheFor
          /\ n # 0 => n - 1 \in 0..CacheFor
  BY KeyPairsAssumption DEF CacheFor, Lifetime

LEMMA KeysTypeInit == ASSUME KeysInit PROVE KeysTypeOK
<1>1. last \in Seq(Listing) /\ Len(last) <= MaxAdds
  BY KeyPairsAssumption DEF KeysInit
<1>2. restarts \in 0..MaxRestarts
  BY KeyPairsAssumption DEF KeysInit
<1>3. tokens \in [Kites -> [pair : Pairs \cup {None}, left : 0..Lifetime]]
  BY TimesTypes DEF KeysInit, NoToken
<1>4. QED
  BY <1>1, <1>2, <1>3 DEF KeysInit, KeysTypeOK

(* The parts of the type invariant. *)
StoreTypes ==
    /\ storage \in {"mem", "postgres", "cached"}
    /\ last \in Seq(Listing) /\ Len(last) <= MaxAdds
    /\ id \subseteq Pairs /\ public \subseteq Pairs
    /\ rows \in [Pairs -> {"none", "valid", "deleted"}]
    /\ selfKeyPair \in Listings

KiteTypes ==
    /\ record \in [Kites -> Pairs \cup {None}] /\ file \in [Kites -> Pairs \cup {None}]
    /\ kiteKey \in [Kites -> Pairs \cup {None}] /\ configKey \in [Kites -> Pairs \cup {None}]
    /\ kontrolKey \in [Kites -> Pairs \cup {None}]
    /\ restarts \in 0..MaxRestarts

CacheTypes ==
    /\ cached \in [Pairs -> 0..CacheFor \cup {None}]
    /\ orphans \in [Pairs -> SUBSET (0..CacheFor)]

ClientTypes ==
    /\ asks \in [Kites -> Pairs \cup {None}]
    /\ tokens \in [Kites -> [pair : Pairs \cup {None}, left : 0..Lifetime]]

LEMMA KeysTypeParts == KeysTypeOK <=> StoreTypes /\ KiteTypes /\ CacheTypes /\ ClientTypes
  BY DEF KeysTypeOK, StoreTypes, KiteTypes, CacheTypes, ClientTypes, Listings

(* The operator adds and deletes pairs, and cached pairs expire. *)
LEMMA StoreKeepsTypes ==
    ASSUME KeysTypeOK, NEW p \in Pairs,
           \/ AddKeyPair(p) \/ AddKeyPairFails(p) \/ DeleteKeyPair(p)
           \/ CacheExpires(p)
    PROVE  KeysTypeOK'
<1>1. StoreTypes /\ KiteTypes /\ CacheTypes /\ ClientTypes
  BY KeysTypeParts
<1>2. ASSUME NEW b \in BOOLEAN, last' = Append(last, [pair |-> p, known |-> b]),
             Len(last) < MaxAdds
      PROVE  last' \in Seq(Listing) /\ Len(last') <= MaxAdds
  <2>1. [pair |-> p, known |-> b] \in Listing
    BY DEF Listing
  <2>2. last' \in Seq(Listing) /\ Len(last') = Len(last) + 1
    BY <1>1, <1>2, <2>1 DEF StoreTypes
  <2>3. QED
    BY <1>1, <1>2, <2>2, KeyPairsAssumption DEF StoreTypes
<1>3. KiteTypes' /\ CacheTypes' /\ ClientTypes'
  BY <1>1 DEF KiteTypes, CacheTypes, ClientTypes, AddKeyPair, AddKeyPairFails,
              DeleteKeyPair, CacheExpires, kiteVars, cacheVars
<1>4. CASE AddKeyPair(p)
  <2>1. last' \in Seq(Listing) /\ Len(last') <= MaxAdds
    BY <1>2, <1>4 DEF AddKeyPair, Known
  <2>2. StoreTypes'
    BY <1>1, <1>4, <2>1 DEF StoreTypes, AddKeyPair, AddKey
  <2>3. QED
    BY <1>3, <2>2, KeysTypeParts, PTL
<1>5. CASE AddKeyPairFails(p)
  <2>1. last' \in Seq(Listing) /\ Len(last') <= MaxAdds
    BY <1>2, <1>5 DEF AddKeyPairFails
  <2>2. StoreTypes'
    BY <1>1, <1>5, <2>1 DEF StoreTypes, AddKeyPairFails
  <2>3. QED
    BY <1>3, <2>2, KeysTypeParts, PTL
<1>6. CASE DeleteKeyPair(p)
  <2>0. last' = Left(p)
    BY <1>6 DEF Left, DeleteKeyPair
  <2>1. last' \in Seq(Listing) /\ Len(last') <= Len(last)
    BY <1>1, <2>0, Removed DEF StoreTypes
  <2>2. Len(last') <= MaxAdds
    BY <1>1, <2>1, KeyPairsAssumption DEF StoreTypes
  <2>3. StoreTypes'
    BY <1>1, <1>6, <2>1, <2>2 DEF StoreTypes, DeleteKeyPair, DeleteKey
  <2>4. QED
    BY <1>3, <2>3, KeysTypeParts, PTL
<1>7. CASE CacheExpires(p)
  <2>1. StoreTypes'
    BY <1>1, <1>7 DEF StoreTypes, CacheExpires
  <2>2. QED
    BY <1>3, <2>1, KeysTypeParts, PTL
<1>8. QED
  BY <1>4, <1>5, <1>6, <1>7

LEMMA RestartKeepsTypes ==
    ASSUME KeysTypeOK, KontrolRestart PROVE KeysTypeOK'
<1>1. StoreTypes /\ KiteTypes /\ CacheTypes /\ ClientTypes
  BY KeysTypeParts
<1>2. PICK b \in BOOLEAN : last' = <<[pair |-> Self, known |-> b]>>
  BY DEF KontrolRestart
<1>3. [pair |-> Self, known |-> b] \in Listing
  BY KeyPairsAssumption DEF Listing
<1>4. last' \in Seq(Listing) /\ Len(last') = 1
  BY <1>2, <1>3
<1>5. Len(last') <= MaxAdds
  BY <1>4, KeyPairsAssumption
<1>6. StoreTypes'
  BY <1>1, <1>4, <1>5, KeyPairsAssumption DEF StoreTypes, KontrolRestart, Listings
<1>7. KiteTypes'
  BY <1>1, KeyPairsAssumption DEF KiteTypes, KontrolRestart
<1>8. CacheTypes' /\ ClientTypes'
  BY <1>1 DEF CacheTypes, ClientTypes, KontrolRestart
<1>9. QED
  BY <1>6, <1>7, <1>8, KeysTypeParts, PTL

(* A pair that is found is a pair, and remembering it is type correct. *)
LEMMA RememberTypes ==
    ASSUME KeysTypeOK
    PROVE  /\ \A l \in Listings : l # NoListing => l.pair \in Pairs
           /\ \A found : Remember(found) => selfKeyPair' \in Listings
           /\ \A p \in Pairs : \A found :
                 Fill(p, found) => id' \subseteq Pairs /\ public' \subseteq Pairs
<1>1. \A l \in Listings : l # NoListing => l.pair \in Pairs
  BY DEF Listings, Listing
<1>2. \A found : Remember(found) => selfKeyPair' \in Listings
  BY FoundTypes DEF Remember, KeysTypeOK, Listings
<1>3. ASSUME NEW p \in Pairs, NEW found, Fill(p, found)
      PROVE  id' \subseteq Pairs /\ public' \subseteq Pairs
  BY <1>3 DEF Fill, KeysTypeOK
<1>4. QED
  BY <1>1, <1>2, <1>3

LEMMA KiteKeepsTypes ==
    ASSUME KeysTypeOK, NEW k \in Kites,
           \/ HandleMachine(k) \/ Restart(k) \/ VerifyInit(k)
           \/ HandleRegister(k) \/ GetKey(k)
    PROVE  KeysTypeOK'
<1>1. StoreTypes /\ KiteTypes /\ CacheTypes /\ ClientTypes
  BY KeysTypeParts
<1>2. CacheTypes' /\ ClientTypes'
  BY <1>1 DEF CacheTypes, ClientTypes, HandleMachine, Restart, VerifyInit,
              HandleRegister, GetKey, cacheVars
<1>3. CASE HandleMachine(k)
  <2>1. StoreTypes'
    BY <1>1, <1>3, FoundTypes DEF StoreTypes, HandleMachine
  <2>2. file' \in [Kites -> Pairs \cup {None}]
    BY <1>1, <1>3, FoundTypes, RememberTypes DEF KiteTypes, HandleMachine
  <2>3. KiteTypes'
    BY <1>1, <1>3, <2>2 DEF KiteTypes, HandleMachine
  <2>4. QED
    BY <1>2, <2>1, <2>3, KeysTypeParts, PTL
<1>4. CASE Restart(k)
  <2>1. KiteTypes'
    BY <1>1, <1>4, KeyPairsAssumption DEF KiteTypes, Restart
  <2>2. StoreTypes'
    BY <1>1, <1>4 DEF StoreTypes, Restart, storeVars
  <2>3. QED
    BY <1>2, <2>1, <2>2, KeysTypeParts, PTL
<1>5. CASE VerifyInit(k)
  <2>1. KiteTypes'
    BY <1>1, <1>5 DEF KiteTypes, VerifyInit
  <2>2. StoreTypes'
    BY <1>1, <1>5 DEF StoreTypes, VerifyInit, storeVars
  <2>3. QED
    BY <1>2, <2>1, <2>2, KeysTypeParts, PTL
<1>6. CASE HandleRegister(k)
  <2> DEFINE p == kiteKey[k]
             found == GetKeyFromPublic(p)
             kp == GetOrUpdateKey(p, found)
  <2>1. /\ p # None /\ kp # NoListing
        /\ record' \in {record, [record EXCEPT ![k] = kp.pair]}
        /\ \/ UpdateAuth(k, kp.pair)
           \/ UNCHANGED <<kiteKey, configKey, kontrolKey>>
        /\ Remember(found) /\ Fill(p, found)
        /\ UNCHANGED <<storage, last, rows, file, restarts>>
    BY <1>6 DEF HandleRegister
  <2>2. p \in Pairs
    BY <1>1, <2>1 DEF KiteTypes
  <2> HIDE DEF p, found
  <2>3. kp.pair \in Pairs
    BY <2>1, <2>2, FoundTypes, RememberTypes
  <2>4. /\ selfKeyPair' \in Listings
        /\ id' \subseteq Pairs /\ public' \subseteq Pairs
    BY <2>1, <2>2, RememberTypes
  <2> HIDE DEF kp
  <2>5. StoreTypes'
    BY <1>1, <2>1, <2>4 DEF StoreTypes
  <2>6. KiteTypes'
    BY <1>1, <2>1, <2>3 DEF KiteTypes, UpdateAuth
  <2>7. QED
    BY <1>2, <2>5, <2>6, KeysTypeParts, PTL
<1>7. CASE GetKey(k)
  <2> DEFINE p == kiteKey[k]
             found == IsValid(p)
             new == GetOrUpdateKey(p, found)
  <2>1. /\ p # None /\ new # NoListing
        /\ configKey' = [configKey EXCEPT ![k] = new.pair]
        /\ Remember(found)
        /\ UNCHANGED <<storage, last, id, public, rows, record, file, kiteKey, kontrolKey,
                       restarts>>
    BY <1>7 DEF GetKey
  <2>2. p \in Pairs
    BY <1>1, <2>1 DEF KiteTypes
  <2> HIDE DEF p, found
  <2>3. new.pair \in Pairs /\ selfKeyPair' \in Listings
    BY <2>1, <2>2, FoundTypes, RememberTypes
  <2> HIDE DEF new
  <2>4. StoreTypes' /\ KiteTypes'
    BY <1>1, <2>1, <2>3 DEF StoreTypes, KiteTypes
  <2>5. QED
    BY <1>2, <2>4, KeysTypeParts, PTL
<1>8. QED
  BY <1>3, <1>4, <1>5, <1>6, <1>7

LEMMA ClientKeepsTypes ==
    ASSUME KeysTypeOK, NEW k \in Kites,
           FindKeyPair(k) \/ CachedToken(k) \/ GenerateToken(k)
    PROVE  KeysTypeOK'
<1>1. StoreTypes /\ KiteTypes /\ CacheTypes /\ ClientTypes
  BY KeysTypeParts
<1>2. KiteTypes'
  BY <1>1 DEF KiteTypes, FindKeyPair, CachedToken, GenerateToken, AnswerToken,
              kiteVars
<1>3. CASE FindKeyPair(k)
  <2> DEFINE p == record[k]
             found == GetKeyFromID(p)
             kp == GetOrUpdateKey(p, found)
  <2>1. /\ p # None /\ kp # NoListing
        /\ asks' = [asks EXCEPT ![k] = kp.pair]
        /\ Remember(found) /\ Fill(p, found)
        /\ UNCHANGED <<storage, last, rows, cached, orphans, tokens>>
    BY <1>3 DEF FindKeyPair, cacheVars
  <2>2. p \in Pairs
    BY <1>1, <2>1 DEF KiteTypes
  <2> HIDE DEF p, found
  <2>3. kp.pair \in Pairs
    BY <2>1, <2>2, FoundTypes, RememberTypes
  <2>4. /\ selfKeyPair' \in Listings
        /\ id' \subseteq Pairs /\ public' \subseteq Pairs
    BY <2>1, <2>2, RememberTypes
  <2> HIDE DEF kp
  <2>5. StoreTypes' /\ CacheTypes' /\ ClientTypes'
    BY <1>1, <2>1, <2>3, <2>4 DEF StoreTypes, CacheTypes, ClientTypes
  <2>6. QED
    BY <1>2, <2>5, KeysTypeParts, PTL
<1>4. CASE CachedToken(k) \/ GenerateToken(k)
  <2>1. asks[k] \in Pairs
    BY <1>1, <1>4 DEF ClientTypes, CachedToken, GenerateToken
  <2>2. StoreTypes'
    BY <1>1, <1>4 DEF StoreTypes, CachedToken, GenerateToken, AnswerToken,
                      storeVars
  <2>3. PICK left \in 0..Lifetime : AnswerToken(k, asks[k], left)
    <3>1. CASE CachedToken(k)
      BY <1>1, <2>1, <3>1, TimesTypes DEF CacheTypes, CachedToken
    <3>2. CASE GenerateToken(k)
      BY <3>2, TimesTypes DEF GenerateToken
    <3>3. QED
      BY <1>4, <3>1, <3>2
  <2>4. ClientTypes'
    BY <1>1, <2>1, <2>3 DEF ClientTypes, AnswerToken
  <2>5. CacheTypes'
    <3>1. CASE CachedToken(k)
      BY <1>1, <3>1 DEF CacheTypes, CachedToken, cacheVars
    <3>2. CASE GenerateToken(k)
      <4>1. 0 \in 0..CacheFor
        BY TimesTypes
      <4>2. PICK S \in SUBSET {0} : orphans' = [orphans EXCEPT ![asks[k]] = @ \cup S]
        <5>1. CASE cached[asks[k]] = CacheFor
          BY <3>2, <5>1 DEF GenerateToken
        <5>2. CASE cached[asks[k]] # CacheFor
          <6>1. orphans' = [orphans EXCEPT ![asks[k]] = @ \cup {}]
            BY <3>2, <5>2 DEF GenerateToken
          <6>2. QED
            BY <6>1
        <5>3. QED
          BY <5>1, <5>2
      <4>3. orphans' \in [Pairs -> SUBSET (0..CacheFor)]
        BY <1>1, <2>1, <4>1, <4>2 DEF CacheTypes
      <4>4. cached' \in [Pairs -> 0..CacheFor \cup {None}]
        BY <1>1, <2>1, <3>2, <4>1 DEF CacheTypes, GenerateToken
      <4>5. QED
        BY <4>3, <4>4 DEF CacheTypes
    <3>3. QED
      BY <1>4, <3>1, <3>2
  <2>6. QED
    BY <1>2, <2>2, <2>4, <2>5, KeysTypeParts, PTL
<1>5. QED
  BY <1>3, <1>4

LEMMA TimersKeepTypes ==
    ASSUME KeysTypeOK,
           Tick \/ \E p \in Pairs : CacheTimerFires(p)
    PROVE  KeysTypeOK'
<1>1. StoreTypes /\ KiteTypes /\ CacheTypes /\ ClientTypes
  BY KeysTypeParts
<1>2. StoreTypes' /\ KiteTypes'
  BY <1>1 DEF StoreTypes, KiteTypes, Tick, CacheTimerFires, storeVars, kiteVars
<1>3. ASSUME NEW p \in Pairs, CacheTimerFires(p) PROVE KeysTypeOK'
  <2>1. ClientTypes'
    BY <1>1, <1>3 DEF ClientTypes, CacheTimerFires
  <2>2. cached' \in [Pairs -> 0..CacheFor \cup {None}]
    BY <1>1, <1>3 DEF CacheTypes, CacheTimerFires
  <2>3. PICK S \in SUBSET (0..CacheFor), T \in SUBSET (0..CacheFor) :
            orphans' = [orphans EXCEPT ![p] = (@ \ T) \cup S]
    <3>1. CASE UNCHANGED orphans
      <4>1. orphans' = [orphans EXCEPT ![p] = (@ \ {}) \cup {}]
        BY <1>1, <3>1 DEF CacheTypes
      <4>2. QED
        BY <4>1
    <3>2. CASE orphans' = [orphans EXCEPT ![p] = (@ \ {0}) \cup
                   (IF cached[p] = None THEN {} ELSE {CacheFor - cached[p]})]
      <4>1. (IF cached[p] = None THEN {} ELSE {CacheFor - cached[p]})
                \in SUBSET (0..CacheFor)
        BY <1>1, TimesTypes DEF CacheTypes
      <4>2. {0} \in SUBSET (0..CacheFor)
        BY TimesTypes
      <4>3. QED
        BY <3>2, <4>1, <4>2, Zenon
    <3>3. QED
      BY <1>3, <3>1, <3>2 DEF CacheTimerFires
  <2>4. orphans' \in [Pairs -> SUBSET (0..CacheFor)]
    BY <1>1, <2>3 DEF CacheTypes
  <2>5. CacheTypes'
    BY <2>2, <2>4 DEF CacheTypes
  <2>6. QED
    BY <1>2, <2>1, <2>5, KeysTypeParts, PTL
<1>4. CASE Tick
  <2>1. cached' \in [Pairs -> 0..CacheFor \cup {None}]
    BY <1>1, <1>4, TimesTypes DEF CacheTypes, Tick, TimersDone
  <2>2. ASSUME NEW p \in Pairs PROVE {t - 1 : t \in orphans[p]} \in SUBSET (0..CacheFor)
    <3>1. \A t \in orphans[p] : t \in 0..CacheFor /\ t # 0
      BY <1>1, <1>4 DEF CacheTypes, Tick, TimersDone
    <3>2. \A t \in orphans[p] : t - 1 \in 0..CacheFor
      BY <3>1, TimesTypes
    <3>3. QED
      BY <3>2
  <2>3. orphans' \in [Pairs -> SUBSET (0..CacheFor)]
    BY <1>4, <2>2 DEF Tick
  <2>4. CacheTypes'
    BY <2>1, <2>3 DEF CacheTypes
  <2>5. \A n \in 0..Lifetime : n # 0 => n - 1 \in 0..Lifetime
    BY TimesTypes
  <2>6. tokens' \in [Kites -> [pair : Pairs \cup {None}, left : 0..Lifetime]]
    BY <1>1, <1>4, <2>5 DEF ClientTypes, Tick
  <2>7. ClientTypes'
    BY <1>1, <1>4, <2>6 DEF ClientTypes, Tick
  <2>8. QED
    BY <1>2, <2>4, <2>7, KeysTypeParts, PTL
<1>5. QED
  BY <1>3, <1>4

LEMMA KeysTypeStep ==
    ASSUME KeysTypeOK, [KeysNext]_keysVars PROVE KeysTypeOK'
<1>1. CASE UNCHANGED keysVars
  BY <1>1 DEF keysVars, storeVars, kiteVars, cacheVars, KeysTypeOK
<1>2. QED
  BY <1>1, StoreKeepsTypes, RestartKeepsTypes, KiteKeepsTypes, ClientKeepsTypes,
     TimersKeepTypes DEF KeysNext

(* Every reachable state of the key pairs is well typed, for any number of *)
(* pairs, kites and restarts; in particular a token leaves the cache       *)
(* before it is older than CacheFor, whichever timers are late.            *)
THEOREM KeysTypeCorrect ==
    KeysSpec => []KeysTypeOK
  BY KeysTypeInit, KeysTypeStep, PTL DEF KeysSpec

(* A token that is handed out is good for another two leeways, whichever   *)
(* pairs, kites and late timers there are (kontrol/kontrol.go).            *)
THEOREM TokenAlwaysLives ==
    KeysSpec => TokenLives
<1>1. ASSUME KeysTypeOK, NEW k \in Kites, CachedToken(k) \/ GenerateToken(k)
      PROVE  tokens'[k].left >= 2 * Leeway
  <2>1. StoreTypes /\ KiteTypes /\ CacheTypes /\ ClientTypes
    BY <1>1, KeysTypeParts
  <2>2. asks[k] \in Pairs
    BY <1>1, <2>1 DEF ClientTypes, CachedToken, GenerateToken
  <2>3. PICK n \in 0..CacheFor : tokens'[k].left = Lifetime - n
    <3>1. CASE CachedToken(k)
      BY <2>1, <2>2, <3>1 DEF CacheTypes, ClientTypes, CachedToken, AnswerToken
    <3>2. CASE GenerateToken(k)
      <4>1. tokens'[k].left = Lifetime
        BY <2>1, <3>2 DEF ClientTypes, GenerateToken, AnswerToken
      <4>2. Lifetime = Lifetime - 0 /\ 0 \in 0..CacheFor
        BY TimesTypes
      <4>3. QED
        BY <4>1, <4>2
    <3>3. QED
      BY <1>1, <3>1, <3>2
  <2>4. QED
    BY <2>3, TimesTypes
<1>2. KeysTypeOK =>
          [\A k \in Kites : CachedToken(k) \/ GenerateToken(k)
               => tokens'[k].left >= 2 * Leeway]_keysVars
  BY <1>1
<1>3. QED
  BY <1>2, KeysTypeCorrect, PTL DEF TokenLives

-----------------------------------------------------------------------------
(* A registration with Postgres, whose table keeps deleted pairs.  The     *)
(* pair of kontrol's own kite key is taken not to be retired.              *)

(* What kontrol lists under an ID the table knows is in the table, and     *)
(* what it remembers as its own pair is. *)
TableInv ==
    /\ rows[Self] # "deleted"
    /\ \A i \in 1..Len(last) : last[i].known => rows[last[i].pair] # "none"
    /\ selfKeyPair # NoListing =>
          /\ selfKeyPair.pair = Self
          /\ selfKeyPair.known => rows[Self] # "none"

(* A kite verifies with the pair of its kite key until that is deleted. *)
VerifyInv ==
    \A k \in Kites :
        /\ kiteKey[k] = None => configKey[k] = None /\ kontrolKey[k] = None
        /\ kiteKey[k] # None /\ rows[kiteKey[k]] # "deleted" =>
              VerifiesWith(k) = kiteKey[k]

PairsInv == storage = "postgres" => TableInv /\ VerifyInv

LEMMA StorageFixed ==
    ASSUME [KeysNext]_keysVars PROVE UNCHANGED storage
  BY DEF KeysNext, keysVars, storeVars, AddKeyPair, AddKeyPairFails,
         DeleteKeyPair, CacheExpires, CacheTimerFires, KontrolRestart,
         HandleMachine, Restart, VerifyInit, HandleRegister,
         GetKey, FindKeyPair, CachedToken, GenerateToken, AnswerToken,
         Tick

LEMMA OwnPair ==
    ASSUME KeysTypeOK, TableInv, KeyPair # NoListing
    PROVE  /\ KeyPair.pair = Self
           /\ KeyPair.known => rows[Self] # "none"
  BY OwnListing DEF TableInv, KeysTypeOK

(* A step that leaves the keys of the kites alone and brings back no pair. *)
LEMMA RowsKeepVerify ==
    ASSUME KiteTypes, VerifyInv, UNCHANGED <<kiteKey, configKey, kontrolKey>>,
           \A q \in Pairs : rows[q] = "deleted" => rows'[q] = "deleted"
    PROVE  VerifyInv'
  BY DEF KiteTypes, VerifyInv, VerifiesWith

(* A step that lists only what is in the table and deletes from the table  *)
(* only what may be retired.                                               *)
LEMMA RowsKeepTable ==
    ASSUME StoreTypes, TableInv, Self \notin Retired,
           \A q \in Pairs : rows'[q] = "none" => rows[q] = "none",
           \A q \in Pairs : rows'[q] = "deleted" => rows[q] = "deleted" \/ q \in Retired,
           UNCHANGED selfKeyPair,
           \A i \in 1..Len(last') :
               \/ \E j \in 1..Len(last) : last'[i] = last[j]
               \/ last'[i].known => rows'[last'[i].pair] # "none"
    PROVE  TableInv'
<1>1. Self \in Pairs
  BY KeyPairsAssumption
<1>2. \A j \in 1..Len(last) : last[j].pair \in Pairs
  <2>1. \A j \in 1..Len(last) : last[j] \in Listing
    BY DEF StoreTypes
  <2>2. QED
    BY <2>1 DEF Listing
<1>3. QED
  BY <1>1, <1>2 DEF TableInv

LEMMA Appended ==
    ASSUME last \in Seq(Listing), NEW x \in Listing, last' = Append(last, x)
    PROVE  \A i \in 1..Len(last') : (\E j \in 1..Len(last) : last'[i] = last[j]) \/ last'[i] = x
<1>1. ASSUME NEW l \in Seq(Listing)
      PROVE  \A i \in 1..Len(Append(l, x)) :
                (\E j \in 1..Len(l) : Append(l, x)[i] = l[j]) \/ Append(l, x)[i] = x
  OBVIOUS
<1>2. QED
  BY <1>1, Zenon

LEMMA StoreKeepsPairs ==
    ASSUME KeysTypeOK, Self \notin Retired, NEW p \in Pairs,
           storage = "postgres", TableInv, VerifyInv,
           \/ AddKeyPair(p) \/ AddKeyPairFails(p) \/ DeleteKeyPair(p)
           \/ CacheExpires(p)
    PROVE  TableInv' /\ VerifyInv'
<1>1. StoreTypes /\ KiteTypes
  BY KeysTypeParts
<1>2. \A b \in BOOLEAN : [pair |-> p, known |-> b] \in Listing
  BY DEF Listing
<1>3. CASE AddKeyPair(p)
  <2>1. rows[p] = "none" /\ rows' = [rows EXCEPT ![p] = "valid"]
    BY <1>3 DEF AddKeyPair, AddKey
  <2>2. /\ \A q \in Pairs : rows'[q] = "none" => rows[q] = "none"
        /\ \A q \in Pairs : rows'[q] = "deleted" <=> rows[q] = "deleted"
        /\ rows'[p] = "valid"
    BY <1>1, <2>1 DEF StoreTypes
  <2>3. UNCHANGED <<selfKeyPair, kiteKey, configKey, kontrolKey>>
    BY <1>3 DEF AddKeyPair, kiteVars
  <2>4. \A i \in 1..Len(last') :
            (\E j \in 1..Len(last) : last'[i] = last[j]) \/ last'[i] = Known(p)
    BY <1>1, <1>2, <1>3, Appended DEF StoreTypes, AddKeyPair, Known
  <2>5. Known(p).known => rows'[Known(p).pair] # "none"
    BY <2>2 DEF Known
  <2>6. QED
    BY <1>1, <2>2, <2>3, <2>4, <2>5, RowsKeepVerify, RowsKeepTable
<1>4. CASE AddKeyPairFails(p)
  <2>1. UNCHANGED <<rows, selfKeyPair, kiteKey, configKey, kontrolKey>>
    BY <1>4 DEF AddKeyPairFails, kiteVars
  <2> DEFINE x == [pair |-> p, known |-> FALSE]
  <2>2. x \in Listing /\ ~x.known
    BY <1>2
  <2>3. last' = Append(last, x)
    BY <1>4 DEF AddKeyPairFails
  <2> HIDE DEF x
  <2>4. \A i \in 1..Len(last') : (\E j \in 1..Len(last) : last'[i] = last[j]) \/ ~last'[i].known
    BY <1>1, <2>2, <2>3, Appended DEF StoreTypes
  <2>5. QED
    BY <1>1, <2>1, <2>4, RowsKeepVerify, RowsKeepTable
<1>5. CASE DeleteKeyPair(p)
  <2>1. /\ \A q \in Pairs : rows'[q] = "none" => rows[q] = "none"
        /\ \A q \in Pairs : rows'[q] = "deleted" => rows[q] = "deleted" \/ q \in Retired
        /\ \A q \in Pairs : rows[q] = "deleted" => rows'[q] = "deleted"
    BY <1>1, <1>5 DEF StoreTypes, DeleteKeyPair, DeleteKey
  <2>2. UNCHANGED <<selfKeyPair, kiteKey, configKey, kontrolKey>>
    BY <1>5 DEF DeleteKeyPair, kiteVars
  <2>3. last' = Left(p)
    BY <1>5 DEF Left, DeleteKeyPair
  <2>4. \A i \in 1..Len(last') : \E j \in 1..Len(last) : last'[i] = last[j]
    BY <1>1, <2>3, Removed DEF StoreTypes
  <2>5. QED
    BY <1>1, <2>1, <2>2, <2>4, RowsKeepVerify, RowsKeepTable
<1>6. CASE CacheExpires(p)
  BY <1>6 DEF CacheExpires
<1>7. QED
  BY <1>3, <1>4, <1>5, <1>6

LEMMA RestartKeepsPairs ==
    ASSUME KeysTypeOK, storage = "postgres", TableInv, VerifyInv,
           KontrolRestart
    PROVE  TableInv' /\ VerifyInv'
<1>1. StoreTypes /\ KiteTypes
  BY KeysTypeParts
<1>2. Self \in Pairs
  BY KeyPairsAssumption
<1>3. /\ UNCHANGED <<kiteKey, configKey, kontrolKey>>
      /\ selfKeyPair' = NoListing
      /\ last' = <<[pair |-> Self, known |-> rows[Self] = "none"]>>
      /\ rows' = IF rows[Self] = "none" THEN [rows EXCEPT ![Self] = "valid"] ELSE rows
  BY DEF KontrolRestart
<1>4. /\ \A q \in Pairs : rows[q] = "deleted" => rows'[q] = "deleted"
      /\ rows'[Self] # "deleted" /\ rows'[Self] # "none"
  BY <1>1, <1>2, <1>3 DEF StoreTypes, TableInv
<1>5. \A i \in 1..Len(last') : last'[i].pair = Self
  BY <1>3
<1>6. QED
  BY <1>1, <1>3, <1>4, <1>5, RowsKeepVerify DEF TableInv

(* What getOrUpdateKey finds for a pair, with Postgres. *)
LEMMA FoundPair ==
    ASSUME KeysTypeOK, storage = "postgres", TableInv,
           NEW p \in Pairs, rows[p] # "none",
           GetOrUpdateKey(p, rows[p]) # NoListing
    PROVE  LET kp == GetOrUpdateKey(p, rows[p])
           IN  /\ kp.pair \in Pairs
               /\ kp.pair = p <=> rows[p] = "valid"
               /\ rows[p] = "valid" => kp.known
               /\ kp.known \/ rows[Self] = "valid" => rows[kp.pair] = "valid"
<1>1. StoreTypes
  BY KeysTypeParts
<1>2. CASE rows[p] = "valid"
  BY <1>2 DEF GetOrUpdateKey, Known
<1>3. CASE rows[p] = "deleted" /\ KeyPair # NoListing
  <2>1. GetOrUpdateKey(p, rows[p]) = KeyPair
    BY <1>3 DEF GetOrUpdateKey
  <2>2. Self \in Pairs /\ p # Self /\ rows[Self] \in {"none", "valid"}
    BY <1>1, <1>3, KeyPairsAssumption DEF StoreTypes, TableInv
  <2>3. QED
    BY <1>3, <2>1, <2>2, OwnPair
<1>4. CASE rows[p] = "deleted" /\ KeyPair = NoListing
  <2>1. GetOrUpdateKey(p, rows[p]) = PickKey
    BY <1>4 DEF GetOrUpdateKey
  <2>2. /\ PickKey = Known(MachineKeyPicker) /\ MachineKeyPicker \in Pairs
        /\ rows[MachineKeyPicker] = "valid"
    BY <2>1, KeyPairsAssumption DEF PickKey, Lookup
  <2>3. QED
    BY <1>4, <2>1, <2>2 DEF Known
<1>5. QED
  BY <1>1, <1>2, <1>3, <1>4 DEF StoreTypes

LEMMA RememberKeepsTable ==
    ASSUME KeysTypeOK, TableInv, UNCHANGED <<last, rows>>,
           selfKeyPair' \in {selfKeyPair, KeyPair}
    PROVE  TableInv'
  BY OwnPair DEF TableInv

(* One kite has keys that agree, and the others keep theirs. *)
LEMMA OneKiteVerifies ==
    ASSUME KiteTypes, VerifyInv, UNCHANGED rows, NEW k \in Kites,
           \A c \in Kites \ {k} : /\ kiteKey'[c] = kiteKey[c] /\ configKey'[c] = configKey[c]
                                  /\ kontrolKey'[c] = kontrolKey[c],
           kiteKey'[k] = None => configKey'[k] = None /\ kontrolKey'[k] = None,
           kiteKey'[k] # None /\ rows[kiteKey'[k]] # "deleted" =>
               kiteKey'[k] = IF kontrolKey'[k] = None THEN configKey'[k] ELSE kontrolKey'[k]
    PROVE  VerifyInv'
<1>1. ASSUME NEW c \in Kites
      PROVE  (/\ kiteKey[c] = None => configKey[c] = None /\ kontrolKey[c] = None
              /\ kiteKey[c] # None /\ rows[kiteKey[c]] # "deleted" =>
                    VerifiesWith(c) = kiteKey[c])'
  <2>1. CASE c = k
    BY <2>1 DEF VerifiesWith
  <2>2. CASE c # k
    BY <2>2 DEF VerifyInv, VerifiesWith
  <2>3. QED
    BY <2>1, <2>2
<1>2. QED
  BY <1>1 DEF VerifyInv

LEMMA KiteKeepsPairs ==
    ASSUME KeysTypeOK, NEW k \in Kites,
           storage = "postgres", TableInv, VerifyInv,
           \/ HandleMachine(k) \/ Restart(k) \/ VerifyInit(k)
           \/ HandleRegister(k) \/ GetKey(k)
    PROVE  TableInv' /\ VerifyInv'
<1>1. StoreTypes /\ KiteTypes
  BY KeysTypeParts
<1>2. None \notin Pairs
  BY KeyPairsAssumption
<1>3. CASE HandleMachine(k)
  <2>1. TableInv'
    BY <1>3, RememberKeepsTable DEF HandleMachine
  <2>2. kontrolKey[k] = None
    BY <1>3 DEF VerifyInv, HandleMachine
  <2>3. /\ UNCHANGED <<rows, kontrolKey>>
        /\ kiteKey' = [kiteKey EXCEPT ![k] = file'[k]]
        /\ configKey' = [configKey EXCEPT ![k] = file'[k]]
    BY <1>3 DEF HandleMachine
  <2>4. VerifyInv'
    BY <1>1, <2>2, <2>3, OneKiteVerifies DEF KiteTypes
  <2>5. QED
    BY <2>1, <2>4
<1>4. CASE Restart(k)
  <2>1. /\ UNCHANGED <<rows, last, selfKeyPair>>
        /\ kiteKey' = [kiteKey EXCEPT ![k] = file[k]]
        /\ configKey' = [configKey EXCEPT ![k] = file[k]]
        /\ kontrolKey' = [kontrolKey EXCEPT ![k] = None]
    BY <1>4 DEF Restart, storeVars
  <2>2. TableInv'
    BY <2>1 DEF TableInv
  <2>3. VerifyInv'
    BY <1>1, <2>1, OneKiteVerifies DEF KiteTypes
  <2>4. QED
    BY <2>2, <2>3
<1>5. CASE VerifyInit(k)
  <2>1. /\ UNCHANGED <<rows, last, selfKeyPair, kiteKey, configKey>>
        /\ kontrolKey[k] = None /\ configKey[k] # None
        /\ kontrolKey' = [kontrolKey EXCEPT ![k] = configKey[k]]
    BY <1>5 DEF VerifyInit, storeVars
  <2>2. TableInv'
    BY <2>1 DEF TableInv
  <2>3. VerifyInv'
    BY <1>1, <2>1 DEF KiteTypes, VerifyInv, VerifiesWith
  <2>4. QED
    BY <2>2, <2>3
<1>6. CASE HandleRegister(k)
  <2> DEFINE p == kiteKey[k]
             kp == GetOrUpdateKey(p, rows[p])
  <2>1. /\ p # None /\ rows[p] # "none" /\ kp # NoListing
        /\ IF kp.pair # p THEN UpdateAuth(k, kp.pair)
           ELSE UNCHANGED <<kiteKey, configKey, kontrolKey>>
        /\ Remember(rows[p])
        /\ UNCHANGED <<last, rows>>
    BY <1>6 DEF HandleRegister, GetKeyFromPublic, Lookup
  <2>2. p \in Pairs
    BY <1>1, <2>1 DEF KiteTypes
  <2>3. TableInv'
    BY <2>1, RememberKeepsTable DEF Remember
  <2>4. kp.pair \in Pairs
    BY <2>1, <2>2, FoundPair
  <2> HIDE DEF kp, p
  <2>5. CASE kp.pair = p
    BY <1>1, <2>1, <2>3, <2>5, RowsKeepVerify
  <2>6. CASE kp.pair # p
    <3>1. /\ kiteKey' = [kiteKey EXCEPT ![k] = kp.pair]
          /\ configKey' = [configKey EXCEPT ![k] = kp.pair]
          /\ kontrolKey' = [kontrolKey EXCEPT ![k] = kp.pair]
          /\ UNCHANGED rows
      BY <2>1, <2>6 DEF UpdateAuth
    <3>2. VerifyInv'
      BY <1>1, <1>2, <2>4, <3>1, OneKiteVerifies DEF KiteTypes
    <3>3. QED
      BY <2>3, <3>2
  <2>7. QED
    BY <2>3, <2>5, <2>6
<1>7. CASE GetKey(k)
  <2> DEFINE p == kiteKey[k]
             new == GetOrUpdateKey(p, rows[p])
  <2>1. /\ p # None /\ rows[p] # "none" /\ new # NoListing
        /\ configKey' = [configKey EXCEPT ![k] = new.pair]
        /\ Remember(rows[p])
        /\ UNCHANGED <<last, rows, kiteKey, kontrolKey>>
    BY <1>7 DEF GetKey, IsValid, Lookup
  <2>2. p \in Pairs
    BY <1>1, <2>1 DEF KiteTypes
  <2>3. TableInv'
    BY <2>1, RememberKeepsTable DEF Remember
  <2>4. new.pair = p <=> rows[p] = "valid"
    BY <2>1, <2>2, FoundPair
  <2>5. rows[p] \in {"valid", "deleted"}
    BY <1>1, <2>1, <2>2 DEF StoreTypes
  <2> HIDE DEF new
  <2>6. VerifyInv'
    <3>1. p # None /\ rows[p] # "deleted" =>
              p = IF kontrolKey[k] = None THEN configKey[k] ELSE kontrolKey[k]
      BY DEF VerifyInv, VerifiesWith
    <3>2. configKey'[k] = new.pair
      BY <1>1, <2>1 DEF KiteTypes
    <3>3. QED
      BY <1>1, <2>1, <2>4, <2>5, <3>1, <3>2, OneKiteVerifies DEF KiteTypes
  <2>7. QED
    BY <2>3, <2>6
<1>8. QED
  BY <1>3, <1>4, <1>5, <1>6, <1>7

LEMMA PairsStep ==
    ASSUME Self \notin Retired, KeysTypeOK, PairsInv,
           [KeysNext]_keysVars
    PROVE  PairsInv'
<1> SUFFICES ASSUME storage = "postgres", TableInv, VerifyInv PROVE TableInv' /\ VerifyInv'
  BY StorageFixed DEF PairsInv
<1>1. ASSUME UNCHANGED <<last, rows, kiteKey, configKey, kontrolKey>>,
             selfKeyPair' \in {selfKeyPair, KeyPair}
      PROVE  TableInv' /\ VerifyInv'
  BY <1>1, KeysTypeParts, RememberKeepsTable, RowsKeepVerify
<1>2. ASSUME NEW k \in Kites,
             FindKeyPair(k) \/ CachedToken(k) \/ GenerateToken(k)
      PROVE  TableInv' /\ VerifyInv'
  BY <1>1, <1>2 DEF FindKeyPair, CachedToken, GenerateToken, AnswerToken,
                    Remember, kiteVars, storeVars
<1>3. CASE \/ Tick \/ UNCHANGED keysVars
           \/ \E p \in Pairs : CacheTimerFires(p)
  BY <1>1, <1>3 DEF Tick, CacheTimerFires, keysVars, kiteVars, storeVars
<1>4. QED
  BY <1>2, <1>3, StoreKeepsPairs, RestartKeepsPairs, KiteKeepsPairs DEF KeysNext

(* A registration that is answered leaves the kite with a key of a live    *)
(* pair, which it verifies tokens with, and a kite that came with one is   *)
(* recorded with it, however pairs were added, retired and fetched, for    *)
(* any number of pairs, kites and restarts (kontrol/handlers.go:19-90,     *)
(* kontrol.go).  Assumed: Postgres, and that kontrol's own pair is in its  *)
(* table and is not retired.  Not claimed: that a kite that was moved to   *)
(* another pair is recorded at once (RegistrationRecorded fails).          *)
THEOREM RegistrationAlwaysLive ==
    ASSUME Self \notin Retired PROVE KeysSpec => LiveRegistration
<1>1. KeysInit => PairsInv
  <2> SUFFICES ASSUME KeysInit, storage = "postgres" PROVE TableInv /\ VerifyInv
    BY DEF PairsInv
  <2>1. TableInv
    BY KeyPairsAssumption DEF KeysInit, TableInv
  <2>2. VerifyInv
    BY DEF KeysInit, VerifyInv
  <2>3. QED
    BY <2>1, <2>2
<1>2. ASSUME KeysTypeOK, PairsInv, NEW k \in Kites, storage = "postgres",
             rows[Self] = "valid", HandleRegister(k)
      PROVE  /\ rows'[kiteKey'[k]] = "valid"
             /\ VerifiesWith(k)' = kiteKey'[k]
             /\ rows[kiteKey[k]] = "valid" => record'[k] = kiteKey[k]
  <2>1. StoreTypes /\ KiteTypes /\ TableInv /\ VerifyInv
    BY <1>2, KeysTypeParts DEF PairsInv
  <2> DEFINE p == kiteKey[k]
             kp == GetOrUpdateKey(p, rows[p])
  <2>2. /\ p # None /\ rows[p] # "none" /\ kp # NoListing
        /\ kp.known => record' = [record EXCEPT ![k] = kp.pair]
        /\ IF kp.pair # p THEN UpdateAuth(k, kp.pair)
           ELSE UNCHANGED <<kiteKey, configKey, kontrolKey>>
        /\ UNCHANGED <<storage, rows>>
    BY <1>2 DEF HandleRegister, GetKeyFromPublic, Lookup
  <2>3. p \in Pairs
    BY <2>1, <2>2 DEF KiteTypes
  <2>4. /\ kp.pair \in Pairs
        /\ kp.pair = p <=> rows[p] = "valid"
        /\ rows[p] = "valid" => kp.known
        /\ rows[kp.pair] = "valid"
    BY <1>2, <2>1, <2>2, <2>3, FoundPair
  <2> HIDE DEF kp
  <2>5. rows[p] = "valid" => record'[k] = p
    BY <2>1, <2>2, <2>4 DEF KiteTypes
  <2>6. CASE kp.pair = p
    <3>1. VerifiesWith(k) = p
      BY <2>1, <2>2, <2>4, <2>6 DEF VerifyInv
    <3>2. QED
      BY <2>2, <2>4, <2>5, <2>6, <3>1 DEF VerifiesWith
  <2>7. CASE kp.pair # p
    <3>1. kontrolKey'[k] = kp.pair /\ kiteKey'[k] = kp.pair /\ kp.pair # None
      BY <2>1, <2>2, <2>4, <2>7, KeyPairsAssumption DEF KiteTypes, UpdateAuth
    <3>2. QED
      BY <2>2, <2>4, <2>5, <3>1 DEF VerifiesWith
  <2>8. QED
    BY <2>6, <2>7
<1>3. KeysTypeOK /\ PairsInv =>
          [\A k \in Kites :
             storage = "postgres" /\ rows[Self] = "valid" /\ HandleRegister(k) =>
               /\ rows'[kiteKey'[k]] = "valid"
               /\ VerifiesWith(k)' = kiteKey'[k]
               /\ rows[kiteKey[k]] = "valid" => record'[k] = kiteKey[k]]_keysVars
  BY <1>2
<1>4. KeysTypeOK /\ PairsInv /\ [KeysNext]_keysVars => PairsInv'
  BY PairsStep
<1>5. QED
  BY <1>1, <1>3, <1>4, KeysTypeCorrect, PTL DEF KeysSpec, LiveRegistration
=============================================================================
