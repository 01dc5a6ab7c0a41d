---------------------------- MODULE ClientProofs ----------------------------
(***************************************************************************)
(* Safety of Client for every set of calls and every number of dials.      *)
(***************************************************************************)
EXTENDS Client, TLAPS

(* What makes the types inductive: a session exists before its hub does,   *)
(* and a hub that took a message holds it, and a session once it sends.    *)
HubInv ==
    /\ loop = "spawn" => session # 0
    /\ \A h \in Sessions : HubLive(h) => session # 0
    /\ \A h \in Sessions :
         /\ hub[h] \in {"taken", "sending"} => holds[h].msg \in Calls
         /\ hub[h] = "sending" => holds[h].to # 0

TypeInv == TypeOK /\ HubInv

LEMMA TypeInit == Init => TypeInv
  BY ConstantsAssumption
  DEF Init, TypeInv, TypeOK, HubInv, HubLive, Sessions

LEMMA TypeLoop == TypeInv /\ LoopStep => TypeInv'
<1> SUFFICES ASSUME TypeInv, LoopStep PROVE TypeInv'
  OBVIOUS
<1> USE ConstantsAssumption
    DEF TypeInv, TypeOK, HubInv, HubLive, Sessions, loopOnly, callVars,
        linkVars, hubVars, goVars, lockVars, chanVars, cbVars, peerVars, connVars
<1>1. CASE CheckReconnect
  BY <1>1 DEF CheckReconnect
<1>2. CASE StartHub
  BY <1>2 DEF StartHub
<1>3. ASSUME NEW c \in Calls, Recv(c) PROVE TypeInv'
  BY <1>3 DEF Recv
<1>4. CASE RecvFails
  BY <1>4 DEF RecvFails
<1>5. CASE Interrupted
  BY <1>5 DEF Interrupted
<1>6. CASE SignalDisconnect
  BY <1>6 DEF SignalDisconnect
<1>7. CASE CheckRedial
  BY <1>7 DEF CheckRedial
<1>8. CASE Redial
  BY <1>8 DEF Redial
<1>9. QED
  BY <1>1, <1>2, <1>3, <1>4, <1>5, <1>6, <1>7, <1>8 DEF LoopStep

LEMMA TypeHub == \A h \in Sessions : TypeInv /\ HubStep(h) => TypeInv'
<1> SUFFICES ASSUME NEW h \in Sessions, TypeInv, HubStep(h) PROVE TypeInv'
  OBVIOUS
<1> USE ConstantsAssumption
    DEF TypeInv, TypeOK, HubInv, HubLive, Sessions, callVars,
        linkVars, hubVars, goVars, lockVars, chanVars, cbVars, peerVars,
        connVars, idleHub
<1>1. ASSUME NEW c \in Calls, HubReceives(h, c) PROVE TypeInv'
  BY <1>1 DEF HubReceives
<1>2. CASE HubSends(h)
  BY <1>2 DEF HubSends
<1>3. CASE HubSendFails(h)
  BY <1>3 DEF HubSendFails
<1>4. CASE HubSessionClosed(h)
  BY <1>4 DEF HubSessionClosed
<1>5. CASE HubCloses(h)
  BY <1>5 DEF HubCloses
<1>6. CASE HubGetsSession(h)
  BY <1>6 DEF HubGetsSession
<1>7. QED
  BY <1>1, <1>2, <1>3, <1>4, <1>5, <1>6 DEF HubStep

LEMMA TypeCall == \A c \in Calls : TypeInv /\ CallStep(c) => TypeInv'
<1> SUFFICES ASSUME NEW c \in Calls, TypeInv, CallStep(c) PROVE TypeInv'
  OBVIOUS
<1> USE ConstantsAssumption
    DEF TypeInv, TypeOK, HubInv, HubLive, Sessions, callVars,
        linkVars, hubVars, goVars, lockVars, chanVars, cbVars, peerVars,
        connVars, TakeCallbackID
<1>1. CASE SendCallbackID(c)
  BY <1>1 DEF SendCallbackID
<1>2. CASE RunCallback(c)
  BY <1>2 DEF RunCallback
<1>3. CASE TimerFires(c)
  BY <1>3 DEF TimerFires
<1>4. CASE WaiterLocks(c)
  BY <1>4 DEF WaiterLocks
<1>5. CASE WaiterAnswers(c)
  BY <1>5 DEF WaiterAnswers, Ready
<1>6. CASE WaiterRemoves(c)
  BY <1>6 DEF WaiterRemoves
<1>7. QED
  BY <1>1, <1>2, <1>3, <1>4, <1>5, <1>6 DEF CallStep

LEMMA TypeGo ==
    ASSUME NEW c \in Calls, TypeInv, GoWithTimeout(c)
    PROVE  TypeInv'
<1>1. /\ caller' \in [Calls -> {"idle", "sending", "sent", "returned"}]
      /\ resp' \in [Calls -> {"none", "result", "sendError", "timeout",
                              "disconnect"}]
      /\ callbacks' \subseteq Calls
  BY DEF GoWithTimeout, TypeInv, TypeOK
<1>2. UNCHANGED <<connVars, lockVars, chanVars, peerVars, waiter,
                  removeCallback, running>>
  BY DEF GoWithTimeout
<1>3. QED
  BY <1>1, <1>2
  DEF TypeInv, TypeOK, HubInv, HubLive, linkVars, hubVars, lockVars, chanVars,
      peerVars, connVars

LEMMA TypeOthers ==
    TypeInv /\ (Owner \/ Environment \/ CloseStep) => TypeInv'
<1> SUFFICES ASSUME TypeInv, Owner \/ Environment \/ CloseStep PROVE TypeInv'
  OBVIOUS
<1> USE ConstantsAssumption
    DEF TypeInv, TypeOK, HubInv, HubLive, Sessions, loopOnly, callVars,
        linkVars, hubVars, goVars, lockVars, chanVars, cbVars, peerVars,
        connVars
<1>1. CASE Dial
  BY <1>1 DEF Dial
<1>2. CASE DialForever
  BY <1>2 DEF DialForever
<1>3. CASE Close
  BY <1>3 DEF Close
<1>4. ASSUME NEW c \in Calls, GoWithTimeout(c) PROVE TypeInv'
  BY <1>4, TypeGo
<1>5. CASE DialFails
  BY <1>5 DEF DialFails
<1>6. CASE DialSucceeds
  BY <1>6 DEF DialSucceeds
<1>7. ASSUME NEW s \in Sessions, SessionBreaks(s) PROVE TypeInv'
  BY <1>7 DEF SessionBreaks
<1>8. ASSUME NEW s \in Sessions, NEW c \in Calls, Serve(s, c) PROVE TypeInv'
  <2>1. requests' \subseteq requests /\ responses' \subseteq responses \cup {<<s, c>>}
    BY <1>8 DEF Serve
  <2>2. <<s, c>> \in Sessions \X Calls
    OBVIOUS
  <2>3. served' \in [Calls -> Nat]
    BY <1>8 DEF Serve
  <2>4. UNCHANGED <<connVars, callVars>>
    BY <1>8 DEF Serve
  <2>5. QED
    BY <2>1, <2>2, <2>3, <2>4
<1>9. CASE CloseWaits
  BY <1>9 DEF CloseWaits
<1>10. CASE CloseSession
  BY <1>10 DEF CloseSession
<1>11. QED
  BY <1>1, <1>2, <1>3, <1>4, <1>5, <1>6, <1>7, <1>8, <1>9, <1>10
  DEF Owner, Environment, CloseStep

LEMMA TypeStutters == TypeInv /\ UNCHANGED vars => TypeInv'
  BY DEF TypeInv, TypeOK, HubInv, HubLive, vars, connVars, callVars, linkVars,
         hubVars, goVars, lockVars, chanVars, cbVars, peerVars

LEMMA TypeStep == TypeInv /\ [Next]_vars => TypeInv'
  BY TypeLoop, TypeHub, TypeCall, TypeOthers, TypeStutters DEF Next

(* Every reachable state of the client is well typed: in particular a hub  *)
(* never sends on a nil session (client.go:581).                           *)
THEOREM TypeCorrect == Spec => []TypeOK
<1>1. TypeInv => TypeOK
  BY DEF TypeInv
<1>2. QED
  BY TypeInit, TypeStep, <1>1, PTL DEF Spec

-----------------------------------------------------------------------------
(***************************************************************************)
(* disconnectMu.  A waiter holds it from before its select to its end, so  *)
(* run, which needs it to close c.disconnect, never closes a channel that  *)
(* some select is waiting on.                                              *)
(***************************************************************************)
LockInv ==
    /\ \A c \in Calls : caller[c] \in {"idle", "sending"} => waiter[c] = "none"
    /\ \A c \in Calls :
         waiter[c] \in {"select", "remove"} <=> disconnectMu = c
    /\ \A c \in Calls :
         selects[c] = IF waiter[c] = "select" THEN disconnect ELSE "nil"
    /\ NoDisconnectAnswer

LEMMA LockInit == Init => LockInv
  BY ConstantsAssumption DEF Init, LockInv, NoDisconnectAnswer

LEMMA LockLoop == TypeInv /\ LockInv /\ LoopStep => LockInv'
<1> SUFFICES ASSUME TypeInv, LockInv, LoopStep PROVE LockInv'
  OBVIOUS
<1> USE ConstantsAssumption
    DEF LockInv, NoDisconnectAnswer, loopOnly, callVars, goVars, lockVars
<1>1. CASE CheckReconnect
  BY <1>1 DEF CheckReconnect
<1>2. CASE StartHub
  BY <1>2 DEF StartHub
<1>3. ASSUME NEW c \in Calls, Recv(c) PROVE LockInv'
  BY <1>3 DEF Recv
<1>4. CASE RecvFails
  BY <1>4 DEF RecvFails
<1>5. CASE Interrupted
  BY <1>5 DEF Interrupted
<1>6. CASE SignalDisconnect
  <2>1. \A c \in Calls : waiter[c] # "select" /\ selects[c] = "nil"
    BY <1>6 DEF SignalDisconnect
  <2>2. QED
    BY <1>6, <2>1 DEF SignalDisconnect
<1>7. CASE CheckRedial
  BY <1>7 DEF CheckRedial
<1>8. CASE Redial
  <2>1. \A c \in Calls : waiter[c] # "select"
    BY <1>8 DEF Redial
  <2>2. QED
    BY <1>8, <2>1 DEF Redial
<1>9. QED
  BY <1>1, <1>2, <1>3, <1>4, <1>5, <1>6, <1>7, <1>8 DEF LoopStep

LEMMA LockHub ==
    \A h \in Sessions : TypeInv /\ LockInv /\ HubStep(h) => LockInv'
<1> SUFFICES ASSUME NEW h \in Sessions, TypeInv, LockInv, HubStep(h)
             PROVE LockInv'
  OBVIOUS
<1> USE DEF LockInv, NoDisconnectAnswer, callVars, goVars, lockVars
<1>1. ASSUME NEW c \in Calls, HubReceives(h, c) PROVE LockInv'
  BY <1>1 DEF HubReceives, TypeInv, TypeOK
<1>2. CASE HubSends(h)
  BY <1>2 DEF HubSends
<1>3. CASE HubSendFails(h)
  BY <1>3 DEF HubSendFails
<1>4. CASE HubSessionClosed(h)
  BY <1>4 DEF HubSessionClosed
<1>5. CASE HubCloses(h)
  BY <1>5 DEF HubCloses
<1>6. CASE HubGetsSession(h)
  BY <1>6 DEF HubGetsSession
<1>7. QED
  BY <1>1, <1>2, <1>3, <1>4, <1>5, <1>6 DEF HubStep

LEMMA LockCall ==
    \A c \in Calls : TypeInv /\ LockInv /\ CallStep(c) => LockInv'
<1> SUFFICES ASSUME NEW c \in Calls, TypeInv, LockInv, CallStep(c)
             PROVE LockInv'
  OBVIOUS
<1> USE ConstantsAssumption
    DEF LockInv, NoDisconnectAnswer, TypeInv, TypeOK, goVars, lockVars
<1>1. CASE SendCallbackID(c)
  BY <1>1 DEF SendCallbackID
<1>2. CASE RunCallback(c)
  BY <1>2 DEF RunCallback
<1>3. CASE TimerFires(c)
  BY <1>3 DEF TimerFires
<1>4. CASE WaiterLocks(c)
  BY <1>4 DEF WaiterLocks
<1>5. CASE WaiterAnswers(c)
  <2>1. PICK r \in Ready(c) :
          /\ resp' = [resp EXCEPT ![c] = r]
          /\ waiter' = [waiter EXCEPT ![c] =
                          IF r = "timeout" THEN "remove" ELSE "done"]
          /\ disconnectMu' = IF r = "timeout" THEN disconnectMu ELSE None
    BY <1>5 DEF WaiterAnswers
  <2>2. r # "disconnect"
    BY <1>5, <2>1 DEF WaiterAnswers, Ready
  <2>3. /\ selects' = [selects EXCEPT ![c] = "nil"]
        /\ UNCHANGED <<caller, disconnect>>
        /\ waiter[c] = "select"
    BY <1>5 DEF WaiterAnswers
  <2>4. QED
    BY <2>1, <2>2, <2>3
<1>6. CASE WaiterRemoves(c)
  BY <1>6 DEF WaiterRemoves
<1>7. QED
  BY <1>1, <1>2, <1>3, <1>4, <1>5, <1>6 DEF CallStep

LEMMA LockOthers ==
    TypeInv /\ LockInv /\ (Owner \/ Environment \/ CloseStep) => LockInv'
<1> SUFFICES ASSUME TypeInv, LockInv, Owner \/ Environment \/ CloseStep
             PROVE LockInv'
  OBVIOUS
<1> USE DEF LockInv, NoDisconnectAnswer, loopOnly, callVars, goVars, lockVars
<1>1. CASE Dial
  BY <1>1 DEF Dial
<1>2. CASE DialForever
  BY <1>2 DEF DialForever
<1>3. CASE Close
  BY <1>3 DEF Close
<1>4. ASSUME NEW c \in Calls, GoWithTimeout(c) PROVE LockInv'
  BY <1>4 DEF GoWithTimeout, TypeInv, TypeOK
<1>5. CASE DialFails
  BY <1>5 DEF DialFails
<1>6. CASE DialSucceeds
  BY <1>6 DEF DialSucceeds
<1>7. ASSUME NEW s \in Sessions, SessionBreaks(s) PROVE LockInv'
  BY <1>7 DEF SessionBreaks
<1>8. ASSUME NEW s \in Sessions, NEW c \in Calls, Serve(s, c) PROVE LockInv'
  BY <1>8 DEF Serve
<1>9. CASE CloseWaits
  BY <1>9 DEF CloseWaits
<1>10. CASE CloseSession
  BY <1>10 DEF CloseSession
<1>11. QED
  BY <1>1, <1>2, <1>3, <1>4, <1>5, <1>6, <1>7, <1>8, <1>9, <1>10
  DEF Owner, Environment, CloseStep

LEMMA LockStep == TypeInv /\ LockInv /\ [Next]_vars => LockInv'
<1>1. LockInv /\ UNCHANGED vars => LockInv'
  BY DEF LockInv, NoDisconnectAnswer, vars, callVars, goVars, lockVars
<1>2. QED
  BY <1>1, LockLoop, LockHub, LockCall, LockOthers DEF Next

(* A waiter's select always waits on the current c.disconnect. *)
THEOREM SelectsCurrent == Spec => []SelectSeesCurrent
<1>1. LockInv => SelectSeesCurrent
  BY DEF LockInv, SelectSeesCurrent
<1>2. QED
  BY TypeInit, TypeStep, LockInit, LockStep, <1>1, PTL DEF Spec

(* A defect, not a promise: the "disconnect" case of the waiter's select   *)
(* is dead, and no call is ever told that its connection was lost, against *)
(* client.go:397 and 784.  This is why PendingAnswered fails.              *)
THEOREM DisconnectNeverReported == Spec => []NoDisconnectAnswer
<1>1. LockInv => NoDisconnectAnswer
  BY DEF LockInv
<1>2. QED
  BY TypeInit, TypeStep, LockInit, LockStep, <1>1, PTL DEF Spec

-----------------------------------------------------------------------------
(***************************************************************************)
(* The reader and the hubs.  On an unclosed client only a client with      *)
(* Reconnect set redials, so readLoop always starts beside a fresh hub.    *)
(***************************************************************************)
ReaderInv ==
    /\ loop \in {"dial", "dialing", "remake"} /\ closing = "open" => Reconnect
    /\ NoDeafReader

LEMMA ReaderInit == Init => ReaderInv
  BY DEF Init, ReaderInv, NoDeafReader

LEMMA ReaderStep == TypeInv /\ ReaderInv /\ [Next]_vars => ReaderInv'
<1> SUFFICES ASSUME TypeInv, ReaderInv, [Next]_vars PROVE ReaderInv'
  OBVIOUS
<1> USE ConstantsAssumption
    DEF ReaderInv, NoDeafReader, HubLive, TypeInv, TypeOK, HubInv, Sessions,
        loopOnly, linkVars, hubVars, connVars
<1>1. CASE LoopStep
  <2>1. CASE CheckReconnect
    BY <2>1 DEF CheckReconnect
  <2>2. CASE StartHub
    <3>1. session \in Sessions /\ hub'[session] = "select"
      BY <2>2 DEF StartHub
    <3>2. QED
      BY <2>2, <3>1 DEF StartHub
  <2>3. ASSUME NEW c \in Calls, Recv(c) PROVE ReaderInv'
    BY <2>3 DEF Recv
  <2>4. CASE RecvFails \/ Interrupted \/ SignalDisconnect
    BY <2>4 DEF RecvFails, Interrupted, SignalDisconnect
  <2>5. CASE CheckRedial \/ Redial
    BY <2>5 DEF CheckRedial, Redial
  <2>6. QED
    BY <1>1, <2>1, <2>2, <2>3, <2>4, <2>5 DEF LoopStep
<1>2. ASSUME NEW h \in Sessions, HubStep(h) PROVE ReaderInv'
  <2>1. ASSUME NEW c \in Calls, HubReceives(h, c) PROVE ReaderInv'
    BY <2>1 DEF HubReceives
  <2>2. CASE HubSends(h)
    BY <2>2 DEF HubSends
  <2>3. CASE HubSendFails(h)
    BY <2>3 DEF HubSendFails
  <2>4. CASE HubSessionClosed(h)
    BY <2>4 DEF HubSessionClosed
  <2>5. CASE HubCloses(h)
    BY <2>5 DEF HubCloses
  <2>6. CASE HubGetsSession(h)
    BY <2>6 DEF HubGetsSession
  <2>7. QED
    BY <1>2, <2>1, <2>2, <2>3, <2>4, <2>5, <2>6 DEF HubStep
<1>3. ASSUME NEW c \in Calls, CallStep(c) PROVE ReaderInv'
  BY <1>3 DEF CallStep, SendCallbackID, RunCallback, TimerFires, WaiterLocks,
              WaiterAnswers, WaiterRemoves
<1>4. CASE Owner
  <2>1. CASE \E c \in Calls : GoWithTimeout(c)
    <3>1. UNCHANGED connVars
      BY <2>1 DEF GoWithTimeout
    <3>2. QED
      BY <3>1
  <2>2. CASE Dial \/ DialForever \/ Close
    BY <2>2 DEF Dial, DialForever, Close
  <2>3. QED
    BY <1>4, <2>1, <2>2 DEF Owner
<1>5. CASE Environment
  BY <1>5 DEF Environment, DialFails, DialSucceeds, SessionBreaks, Serve
<1>6. CASE CloseStep
  BY <1>6 DEF CloseStep, CloseWaits, CloseSession
<1>7. CASE UNCHANGED vars
  BY <1>7 DEF vars
<1>8. QED
  BY <1>1, <1>2, <1>3, <1>4, <1>5, <1>6, <1>7 DEF Next

(* While readLoop serves an unclosed client, some hub takes messages or an *)
(* interrupt is waiting for readLoop.                                      *)
THEOREM ReaderNeverDeaf == Spec => []NoDeafReader
<1>1. ReaderInv => NoDeafReader
  BY DEF ReaderInv
<1>2. QED
  BY TypeInit, TypeStep, ReaderInit, ReaderStep, <1>1, PTL DEF Spec

-----------------------------------------------------------------------------
(***************************************************************************)
(* At most once.  The message of a call is in at most one place: with its  *)
(* caller, in one hub, on one session, or served; the response follows.    *)
(***************************************************************************)
Holding(h, c) == hub[h] \in {"taken", "sending"} /\ holds[h].msg = c

Fresh(c) ==
    /\ served[c] = 0
    /\ \A h \in Sessions : ~Holding(h, c)
    /\ \A s \in Sessions : <<s, c>> \notin requests

PlaceInv ==
    /\ \A c \in Calls : caller[c] \in {"idle", "sending"} => Fresh(c)
    /\ \A c \in Calls : \A h, k \in Sessions :
         Holding(h, c) /\ Holding(k, c) => h = k
    /\ \A c \in Calls : \A h, s \in Sessions :
         Holding(h, c) => served[c] = 0 /\ <<s, c>> \notin requests
    /\ \A c \in Calls : \A s, t \in Sessions :
         <<s, c>> \in requests => /\ served[c] = 0
                                  /\ <<t, c>> \in requests => s = t

AnswerInv ==
    /\ \A c \in Calls : served[c] <= 1
    /\ \A c \in Calls : \A s \in Sessions :
         <<s, c>> \in responses => served[c] = 1
    /\ \A c \in Calls :
         c \in running \/ c \in doneChan \/ resp[c] = "result" => served[c] = 1

OnceInv == PlaceInv /\ AnswerInv

LEMMA OnceInit == Init => OnceInv
  BY DEF Init, OnceInv, PlaceInv, AnswerInv, Fresh, Holding

(* Steps that leave the message and its answer where they are. *)
LEMMA OnceQuiet ==
    ASSUME OnceInv, UNCHANGED <<hub, holds, caller, running, doneChan, resp,
                                peerVars>>
    PROVE  OnceInv'
  BY DEF OnceInv, PlaceInv, AnswerInv, Fresh, Holding, peerVars

LEMMA OnceLetGo ==
    ASSUME OnceInv,
           \A k \in Sessions, d \in Calls : Holding(k, d)' => Holding(k, d),
           UNCHANGED <<caller, running, doneChan, resp, peerVars>>
    PROVE  OnceInv'
  BY DEF OnceInv, PlaceInv, AnswerInv, Fresh, peerVars

LEMMA OnceHub ==
    ASSUME NEW h \in Sessions, TypeInv, OnceInv, HubStep(h)
    PROVE  OnceInv'
<1> USE DEF callVars, goVars, cbVars, chanVars, peerVars
<1>1. ASSUME NEW c \in Calls, HubReceives(h, c) PROVE OnceInv'
  <2>1. \A k \in Sessions, d \in Calls :
          Holding(k, d)' => Holding(k, d) \/ (k = h /\ d = c)
    BY <1>1 DEF HubReceives, Holding, TypeInv, TypeOK
  <2>2. Fresh(c)
    BY <1>1 DEF HubReceives, OnceInv, PlaceInv
  <2>3. \A d \in Calls : caller'[d] \in {"idle", "sending"} =>
          d # c /\ caller[d] \in {"idle", "sending"}
    BY <1>1 DEF HubReceives, TypeInv, TypeOK
  <2>4. UNCHANGED <<served, requests, responses, running, doneChan, resp>>
    BY <1>1 DEF HubReceives
  <2>5. PlaceInv'
    BY <2>1, <2>2, <2>3, <2>4 DEF OnceInv, PlaceInv, Fresh
  <2>6. AnswerInv'
    BY <2>4 DEF OnceInv, AnswerInv
  <2>7. QED
    BY <2>5, <2>6 DEF OnceInv
<1>2. CASE HubSends(h) \/ HubSendFails(h)
  <2> DEFINE m == holds[h].msg
             t == holds[h].to
  <2>1. m \in Calls /\ t \in Sessions /\ Holding(h, m)
    <3>1. holds[h] \in [msg : Calls \cup {None}, to : 0..MaxDials]
      BY DEF TypeInv, TypeOK
    <3>2. hub[h] = "sending" /\ m \in Calls /\ t # 0
      BY <1>2 DEF HubSends, HubSendFails, TypeInv, HubInv
    <3>3. t \in 0..MaxDials
      BY <3>1
    <3>4. t \in Sessions
      BY <3>2, <3>3, ConstantsAssumption DEF Sessions
    <3>5. QED
      BY <3>2, <3>4 DEF Holding
  <2>2. \A k \in Sessions, d \in Calls : Holding(k, d)' => k # h /\ Holding(k, d)
    BY <1>2 DEF HubSends, HubSendFails, Holding, TypeInv, TypeOK
  <2>3. \A d \in Calls, s \in Sessions : <<s, d>> \in requests' =>
          <<s, d>> \in requests \/ (s = t /\ d = m)
    <3>1. requests' \subseteq requests \cup {<<t, m>>}
      BY <1>2 DEF HubSends, HubSendFails
    <3>2. QED
      BY <3>1
  <2>4. UNCHANGED <<served, responses, caller, running, doneChan, resp>>
    BY <1>2 DEF HubSends, HubSendFails
  <2> HIDE DEF m, t
  <2>5. /\ served[m] = 0
        /\ caller[m] \notin {"idle", "sending"}
        /\ \A s \in Sessions : <<s, m>> \notin requests
        /\ \A k \in Sessions : Holding(k, m) => k = h
    BY <2>1 DEF OnceInv, PlaceInv, Fresh
  <2>6. PlaceInv'
    BY <2>1, <2>2, <2>3, <2>4, <2>5 DEF OnceInv, PlaceInv, Fresh
  <2>7. AnswerInv'
    BY <2>4 DEF OnceInv, AnswerInv
  <2>8. QED
    BY <2>6, <2>7 DEF OnceInv
<1>3. CASE HubGetsSession(h) \/ HubSessionClosed(h) \/ HubCloses(h)
  <2>1. \A k \in Sessions, d \in Calls : Holding(k, d)' => Holding(k, d)
    BY <1>3 DEF HubGetsSession, HubSessionClosed, HubCloses, Holding, TypeInv, TypeOK
  <2>2. UNCHANGED <<caller, running, doneChan, resp, peerVars>>
    BY <1>3 DEF HubGetsSession, HubSessionClosed, HubCloses
  <2>3. QED
    BY <2>1, <2>2, OnceLetGo
<1>4. QED
  BY <1>1, <1>2, <1>3 DEF HubStep

LEMMA OnceServe ==
    ASSUME NEW s \in Sessions, NEW c \in Calls, TypeInv, OnceInv, Serve(s, c)
    PROVE  OnceInv'
<1>1. /\ served[c] = 0
      /\ caller[c] \notin {"idle", "sending"}
      /\ \A h \in Sessions : ~Holding(h, c)
  BY DEF Serve, OnceInv, PlaceInv, Fresh
<1>2. served' = [served EXCEPT ![c] = 1] /\ served \in [Calls -> Nat]
  BY <1>1 DEF Serve, TypeInv, TypeOK
<1>3. \A t \in Sessions : <<t, c>> \notin requests'
  BY DEF Serve, OnceInv, PlaceInv
<1>4. \A d \in Calls, t \in Sessions :
        /\ <<t, d>> \in requests' => <<t, d>> \in requests
        /\ <<t, d>> \in responses' => <<t, d>> \in responses \/ d = c
  BY DEF Serve
<1>5. UNCHANGED <<hub, holds, caller, running, doneChan, resp>>
  BY DEF Serve, connVars, hubVars, callVars, goVars, cbVars, chanVars
<1>6. \A h \in Sessions, d \in Calls : Holding(h, d)' <=> Holding(h, d)
  BY <1>5 DEF Holding
<1>7. PlaceInv'
  BY <1>1, <1>2, <1>3, <1>4, <1>5, <1>6 DEF OnceInv, PlaceInv, Fresh
<1>8. AnswerInv'
  BY <1>1, <1>2, <1>4, <1>5 DEF OnceInv, AnswerInv
<1>9. QED
  BY <1>7, <1>8 DEF OnceInv

LEMMA OnceCall ==
    ASSUME NEW c \in Calls, TypeInv, OnceInv,
           CallStep(c) \/ Recv(c) \/ GoWithTimeout(c)
    PROVE  OnceInv'
<1> USE DEF TypeInv, TypeOK, OnceInv, Fresh, Holding, connVars, hubVars,
            goVars, cbVars, chanVars, peerVars
<1>1. CASE Recv(c)
  BY <1>1 DEF Recv, PlaceInv, AnswerInv, linkVars, Sessions
<1>2. CASE GoWithTimeout(c)
  <2>1. /\ caller[c] = "idle"
        /\ \A d \in Calls \ {c} : caller'[d] = caller[d] /\ resp'[d] = resp[d]
        /\ resp'[c] = "result" => resp[c] = "result"
        /\ UNCHANGED <<hub, holds, running, doneChan, served, requests, responses>>
    BY <1>2 DEF GoWithTimeout
  <2>2. QED
    BY <2>1 DEF PlaceInv, AnswerInv
<1>3. CASE SendCallbackID(c)
  BY <1>3 DEF SendCallbackID, PlaceInv, AnswerInv
<1>4. CASE RunCallback(c)
  BY <1>4 DEF RunCallback, PlaceInv, AnswerInv
<1>5. CASE WaiterAnswers(c)
  <2>1. PICK r \in Ready(c) : /\ resp' = [resp EXCEPT ![c] = r]
                              /\ doneChan' \subseteq doneChan
    BY <1>5 DEF WaiterAnswers
  <2>2. r = "result" => c \in doneChan
    BY <2>1 DEF Ready
  <2>3. UNCHANGED <<hub, holds, caller, running, peerVars>>
    BY <1>5 DEF WaiterAnswers
  <2>4. QED
    BY <2>1, <2>2, <2>3 DEF PlaceInv, AnswerInv
<1>6. CASE TimerFires(c) \/ WaiterLocks(c) \/ WaiterRemoves(c)
  BY <1>6, OnceQuiet DEF TimerFires, WaiterLocks, WaiterRemoves
<1>7. QED
  BY <1>1, <1>2, <1>3, <1>4, <1>5, <1>6 DEF CallStep

LEMMA OnceStep == TypeInv /\ OnceInv /\ [Next]_vars => OnceInv'
<1> SUFFICES ASSUME TypeInv, OnceInv, [Next]_vars PROVE OnceInv'
  OBVIOUS
<1> USE DEF loopOnly, connVars, hubVars, callVars, goVars, cbVars, chanVars
<1>1. CASE LoopStep
  <2>1. CASE StartHub
    <3>1. \A k \in Sessions, d \in Calls : Holding(k, d)' => Holding(k, d)
      BY <2>1 DEF StartHub, Holding, TypeInv, TypeOK
    <3>2. UNCHANGED <<caller, running, doneChan, resp, peerVars>>
      BY <2>1 DEF StartHub
    <3>3. QED
      BY <3>1, <3>2, OnceLetGo
  <2>2. CASE \/ CheckReconnect \/ RecvFails \/ Interrupted \/ SignalDisconnect
             \/ CheckRedial \/ Redial
    BY <2>2, OnceQuiet DEF CheckReconnect, RecvFails, Interrupted,
                           SignalDisconnect, CheckRedial, Redial
  <2>3. QED
    BY <1>1, <2>1, <2>2, OnceCall DEF LoopStep
<1>2. CASE Owner
  <2>1. CASE Dial \/ DialForever \/ Close
    BY <2>1, OnceQuiet DEF Dial, DialForever, Close
  <2>2. QED
    BY <1>2, <2>1, OnceCall DEF Owner
<1>3. CASE Environment
  <2>1. CASE DialFails \/ DialSucceeds \/ \E s \in Sessions : SessionBreaks(s)
    BY <2>1, OnceQuiet DEF DialFails, DialSucceeds, SessionBreaks
  <2>2. QED
    BY <1>3, <2>1, OnceServe DEF Environment
<1>4. CASE CloseStep
  BY <1>4, OnceQuiet DEF CloseStep, CloseWaits, CloseSession
<1>5. CASE UNCHANGED vars
  BY <1>5, OnceQuiet DEF vars
<1>6. QED
  BY <1>1, <1>2, <1>3, <1>4, <1>5, OnceHub, OnceCall DEF Next

(* The remote kite runs no method twice on behalf of one call, and every   *)
(* result reported to a caller is of a method it ran.                      *)
THEOREM ServedAtMostOnce == Spec => []AtMostOnce
<1>1. OnceInv => AtMostOnce
  BY DEF OnceInv, AnswerInv, AtMostOnce
<1>2. QED
  BY TypeInit, TypeStep, OnceInit, OnceStep, <1>1, PTL DEF Spec

-----------------------------------------------------------------------------
(***************************************************************************)
(* The promise of MethodCall.  A caller that was refused has left nothing  *)
(* behind, and only a waiter that has not answered yet answers.            *)
(***************************************************************************)
CallInv ==
    \A c \in Calls :
        /\ caller[c] \in {"idle", "sending"} => resp[c] = "none"
        /\ caller[c] = "sent" => waiter[c] # "none"
        /\ waiter[c] \in {"lock", "select"} => resp[c] = "none"
        /\ waiter[c] # "none" => caller[c] \in {"sent", "returned"}
        /\ caller[c] = "returned" /\ waiter[c] = "none" =>
              resp[c] = "sendError" /\ Fresh(c)

LEMMA CallInit == Init => CallInv
  BY DEF Init, CallInv, Fresh, Holding

(* Steps that do not touch the goroutines of the calls, nor hand out a     *)
(* message.                                                                *)
LEMMA CallQuiet ==
    ASSUME CallInv, UNCHANGED goVars,
           \A d \in Calls : Fresh(d) => Fresh(d)'
    PROVE  CallInv'
  BY DEF CallInv, goVars

LEMMA FreshHolds ==
    ASSUME UNCHANGED <<requests, served>>,
           \A k \in Sessions, d \in Calls : Holding(k, d)' => Holding(k, d)
    PROVE  \A d \in Calls : Fresh(d) => Fresh(d)'
  BY DEF Fresh

LEMMA CallHub ==
    ASSUME NEW h \in Sessions, TypeInv, LockInv, CallInv, HubStep(h)
    PROVE  CallInv'
<1> USE DEF callVars, peerVars
<1>1. ASSUME NEW c \in Calls, HubReceives(h, c) PROVE CallInv'
  <2>1. /\ caller[c] = "sending"
        /\ caller' = [caller EXCEPT ![c] = "sent"]
        /\ waiter' = [waiter EXCEPT ![c] = "lock"]
        /\ UNCHANGED resp
    BY <1>1 DEF HubReceives
  <2>2. \A d \in Calls \ {c} : Fresh(d) => Fresh(d)'
    BY <1>1 DEF HubReceives, Fresh, Holding, TypeInv, TypeOK
  <2>3. QED
    BY <2>1, <2>2 DEF CallInv, TypeInv, TypeOK
<1>2. CASE HubSends(h) \/ HubSendFails(h)
  <2>1. Holding(h, holds[h].msg) /\ UNCHANGED goVars /\ UNCHANGED served
    BY <1>2 DEF HubSends, HubSendFails, Holding
  <2>2. \A d \in Calls, s \in Sessions : <<s, d>> \in requests' =>
          <<s, d>> \in requests \/ d = holds[h].msg
    BY <1>2 DEF HubSends, HubSendFails
  <2>3. \A k \in Sessions, d \in Calls : Holding(k, d)' => Holding(k, d)
    BY <1>2 DEF HubSends, HubSendFails, Holding, TypeInv, TypeOK
  <2>4. \A d \in Calls : Fresh(d) => Fresh(d)'
    BY <2>1, <2>2, <2>3 DEF Fresh
  <2>5. QED
    BY <2>1, <2>4, CallQuiet
<1>3. CASE HubGetsSession(h) \/ HubSessionClosed(h) \/ HubCloses(h)
  <2>1. UNCHANGED <<goVars, requests, served>>
    BY <1>3 DEF HubGetsSession, HubSessionClosed, HubCloses
  <2>2. \A k \in Sessions, d \in Calls : Holding(k, d)' => Holding(k, d)
    BY <1>3 DEF HubGetsSession, HubSessionClosed, HubCloses, Holding, TypeInv, TypeOK
  <2>3. QED
    BY <2>1, <2>2, FreshHolds, CallQuiet
<1>4. QED
  BY <1>1, <1>2, <1>3 DEF HubStep

LEMMA CallCall ==
    ASSUME NEW c \in Calls, TypeInv, LockInv, OnceInv, CallInv,
           CallStep(c) \/ GoWithTimeout(c)
    PROVE  CallInv'
<1>1. UNCHANGED <<hub, holds, requests, served>>
  BY DEF CallStep, SendCallbackID, RunCallback, TimerFires, WaiterLocks,
         WaiterAnswers, WaiterRemoves, GoWithTimeout, connVars, hubVars, peerVars
<1>2. \A d \in Calls : Fresh(d)' <=> Fresh(d)
  BY <1>1 DEF Fresh, Holding
<1> USE DEF TypeInv, TypeOK, goVars
<1>3. CASE GoWithTimeout(c)
  <2>1. /\ caller[c] = "idle"
        /\ caller' \in {[caller EXCEPT ![c] = "returned"], [caller EXCEPT ![c] = "sending"]}
        /\ caller'[c] = "returned" => resp' = [resp EXCEPT ![c] = "sendError"]
        /\ caller'[c] = "sending" => resp' = resp
        /\ waiter' = waiter
    BY <1>3 DEF GoWithTimeout
  <2>2. Fresh(c) /\ waiter[c] = "none"
    BY <2>1 DEF OnceInv, PlaceInv, LockInv
  <2>3. QED
    BY <1>2, <2>1, <2>2 DEF CallInv
<1>4. CASE SendCallbackID(c)
  BY <1>2, <1>4 DEF SendCallbackID, CallInv
<1>5. CASE WaiterAnswers(c)
  <2>1. PICK r \in Ready(c) :
          /\ resp' = [resp EXCEPT ![c] = r]
          /\ waiter' = [waiter EXCEPT ![c] =
                          IF r = "timeout" THEN "remove" ELSE "done"]
    BY <1>5 DEF WaiterAnswers
  <2>2. waiter[c] = "select" /\ caller' = caller
    BY <1>5 DEF WaiterAnswers
  <2>3. QED
    BY <1>2, <2>1, <2>2 DEF CallInv
<1>6. CASE WaiterLocks(c) \/ WaiterRemoves(c)
  BY <1>2, <1>6 DEF WaiterLocks, WaiterRemoves, CallInv
<1>7. CASE RunCallback(c) \/ TimerFires(c)
  BY <1>2, <1>7, CallQuiet DEF RunCallback, TimerFires
<1>8. QED
  BY <1>3, <1>4, <1>5, <1>6, <1>7 DEF CallStep

LEMMA CallStepInv ==
    TypeInv /\ LockInv /\ OnceInv /\ CallInv /\ [Next]_vars => CallInv'
<1> SUFFICES ASSUME TypeInv, LockInv, OnceInv, CallInv, [Next]_vars PROVE CallInv'
  OBVIOUS
<1> USE DEF loopOnly, connVars, hubVars, callVars, goVars, peerVars
<1>1. CASE LoopStep
  <2>1. UNCHANGED <<goVars, requests, served>>
    BY <1>1 DEF LoopStep, CheckReconnect, StartHub, Recv, RecvFails, Interrupted,
                SignalDisconnect, CheckRedial, Redial
  <2>2. \A k \in Sessions, d \in Calls : Holding(k, d)' => Holding(k, d)
    BY <1>1 DEF LoopStep, CheckReconnect, StartHub, Recv, RecvFails, Interrupted,
                SignalDisconnect, CheckRedial, Redial, Holding, TypeInv, TypeOK
  <2>3. QED
    BY <2>1, <2>2, FreshHolds, CallQuiet
<1>2. CASE \/ Dial \/ DialForever \/ Close \/ DialFails \/ DialSucceeds \/ CloseStep
           \/ (\E s \in Sessions : SessionBreaks(s)) \/ UNCHANGED vars
  <2>1. UNCHANGED <<goVars, requests, served, hub, holds>>
    BY <1>2 DEF Dial, DialForever, Close, DialFails, DialSucceeds, SessionBreaks,
                CloseStep, CloseWaits, CloseSession, vars
  <2>2. QED
    BY <2>1, FreshHolds, CallQuiet DEF Holding
<1>3. ASSUME NEW s \in Sessions, NEW c \in Calls, Serve(s, c) PROVE CallInv'
  <2>1. UNCHANGED <<goVars, hub, holds>>
    BY <1>3 DEF Serve
  <2>2. \A d \in Calls : Fresh(d) => Fresh(d)'
    BY <1>3, <2>1 DEF Serve, Fresh, Holding, TypeInv, TypeOK
  <2>3. QED
    BY <2>1, <2>2, CallQuiet
<1>4. QED
  BY <1>1, <1>2, <1>3, CallHub, CallCall DEF Next, Owner, Environment

-----------------------------------------------------------------------------
LEMMA StateKept ==
    ASSUME UNCHANGED goVars PROVE UNCHANGED CallState
  BY DEF CallState, goVars

(* A step that moves one call moves the promise's call alone. *)
LEMMA OthersKept ==
    ASSUME NEW c \in Calls, NEW v,
           \A d \in Calls \ {c} :
              caller'[d] = caller[d] /\ resp'[d] = resp[d] /\ waiter'[d] = waiter[d],
           CallState'[c] = v
    PROVE  CallState' = [CallState EXCEPT ![c] = v]
<1>1. \A d \in Calls \ {c} : CallState'[d] = CallState[d]
  BY DEF CallState
<1>2. CallState' = [d \in Calls |-> CallState'[d]] /\ CallState = [d \in Calls |-> CallState[d]]
  BY DEF CallState
<1>3. QED
  BY <1>1, <1>2

LEMMA GoPromise ==
    ASSUME NEW c \in Calls, TypeInv, LockInv, CallInv, GoWithTimeout(c)
    PROVE  Promise!Make(c) \/ Promise!Refuse(c)
<1>1. /\ caller[c] = "idle" /\ resp[c] = "none" /\ waiter[c] = "none"
      /\ caller'[c] \in {"returned", "sending"}
      /\ caller'[c] = "returned" => resp'[c] = "sendError"
      /\ caller'[c] = "sending" => resp'[c] = "none"
      /\ \A d \in Calls \ {c} : caller'[d] = caller[d] /\ resp'[d] = resp[d]
      /\ waiter' = waiter /\ served' = served
  BY DEF GoWithTimeout, TypeInv, TypeOK, CallInv, LockInv, peerVars
<1>2. CallState[c] = "idle"
  BY <1>1 DEF CallState
<1>3. CallState'[c] = IF caller'[c] = "sending" THEN "made" ELSE "refused"
  BY <1>1 DEF CallState
<1>4. CASE caller'[c] = "sending"
  <2>1. CallState' = [CallState EXCEPT ![c] = "made"]
    BY <1>1, <1>3, <1>4, OthersKept
  <2>2. QED
    BY <1>1, <1>2, <2>1 DEF Promise!Make
<1>5. CASE caller'[c] = "returned"
  <2>1. CallState' = [CallState EXCEPT ![c] = "refused"]
    BY <1>1, <1>3, <1>5, OthersKept
  <2>2. QED
    BY <1>1, <1>2, <2>1 DEF Promise!Refuse
<1>6. QED
  BY <1>1, <1>4, <1>5

LEMMA AnswerPromise ==
    ASSUME NEW c \in Calls, TypeInv, LockInv, OnceInv, CallInv, WaiterAnswers(c)
    PROVE  Promise!Succeed(c) \/ Promise!Fail(c)
<1>1. PICK r \in Ready(c) :
        /\ resp' = [resp EXCEPT ![c] = r]
        /\ waiter' = [waiter EXCEPT ![c] = IF r = "timeout" THEN "remove" ELSE "done"]
  BY DEF WaiterAnswers
<1>2. /\ caller' = caller /\ served' = served
      /\ resp[c] = "none" /\ caller[c] \in {"sent", "returned"}
  BY DEF WaiterAnswers, CallInv, peerVars
<1>3. r \in {"result", "disconnect", "sendError", "timeout"} /\ (r = "result" => served[c] = 1)
  BY <1>1 DEF Ready, OnceInv, AnswerInv
<1>4. resp'[c] = r /\ waiter'[c] # "none" /\ CallState[c] = "made"
  BY <1>1, <1>2 DEF TypeInv, TypeOK, CallState
<1>5. CallState'[c] = IF r = "result" THEN "result" ELSE "failed"
  BY <1>2, <1>3, <1>4 DEF CallState
<1>6. \A d \in Calls \ {c} :
        caller'[d] = caller[d] /\ resp'[d] = resp[d] /\ waiter'[d] = waiter[d]
  BY <1>1, <1>2 DEF TypeInv, TypeOK
<1>7. CASE r = "result"
  <2>1. CallState' = [CallState EXCEPT ![c] = "result"]
    BY <1>5, <1>6, <1>7, OthersKept
  <2>2. QED
    BY <1>2, <1>3, <1>4, <1>7, <2>1 DEF Promise!Succeed
<1>8. CASE r # "result"
  <2>1. CallState' = [CallState EXCEPT ![c] = "failed"]
    BY <1>5, <1>6, <1>8, OthersKept
  <2>2. QED
    BY <1>2, <1>4, <2>1 DEF Promise!Fail
<1>9. QED
  BY <1>7, <1>8

LEMMA ServePromise ==
    ASSUME NEW s \in Sessions, NEW c \in Calls, TypeInv, OnceInv, CallInv, Serve(s, c)
    PROVE  Promise!Run(c)
<1>1. <<s, c>> \in requests /\ served[c] = 0 /\ ~Fresh(c)
  BY DEF Serve, OnceInv, PlaceInv, Fresh
<1>2. caller[c] \notin {"idle", "sending"} /\ resp[c] # "result" /\ waiter[c] # "none"
  BY <1>1 DEF OnceInv, PlaceInv, AnswerInv, CallInv, TypeInv, TypeOK
<1>3. CallState[c] \in {"made", "failed"}
  BY <1>2 DEF CallState
<1>4. UNCHANGED CallState
  BY StateKept DEF Serve, callVars
<1>5. served' = [served EXCEPT ![c] = 1]
  BY <1>1 DEF Serve
<1>6. QED
  BY <1>1, <1>3, <1>4, <1>5 DEF Promise!Run

(* The goroutines of a call move without its caller noticing. *)
LEMMA SilentPromise ==
    ASSUME NEW c \in Calls, TypeInv, LockInv, CallInv,
           \/ \E h \in Sessions : HubReceives(h, c)
           \/ SendCallbackID(c) \/ RunCallback(c) \/ TimerFires(c)
           \/ WaiterLocks(c) \/ WaiterRemoves(c)
    PROVE  UNCHANGED <<CallState, served>>
<1>1. UNCHANGED <<resp, served>>
  BY DEF HubReceives, SendCallbackID, RunCallback, TimerFires, WaiterLocks, WaiterRemoves,
         goVars, peerVars
<1>2. \A d \in Calls :
        /\ caller'[d] = "idle" <=> caller[d] = "idle"
        /\ resp[d] # "none" => (waiter'[d] = "none" <=> waiter[d] = "none")
  BY DEF HubReceives, SendCallbackID, RunCallback, TimerFires, WaiterLocks, WaiterRemoves,
         goVars, TypeInv, TypeOK, CallInv
<1>3. \A d \in Calls : CallState'[d] = CallState[d]
  BY <1>1, <1>2 DEF CallState
<1>4. CallState' = [d \in Calls |-> CallState'[d]] /\ CallState = [d \in Calls |-> CallState[d]]
  BY DEF CallState
<1>5. QED
  BY <1>1, <1>3, <1>4

LEMMA StepPromise ==
    TypeInv /\ LockInv /\ OnceInv /\ CallInv /\ [Next]_vars => [Promise!Next]_(Promise!vars)
<1> SUFFICES ASSUME TypeInv, LockInv, OnceInv, CallInv, [Next]_vars
             PROVE  Promise!Next \/ UNCHANGED <<CallState, served>>
  BY DEF Promise!vars
<1>1. ASSUME NEW c \in Calls, GoWithTimeout(c) PROVE Promise!Next
  BY <1>1, GoPromise DEF Promise!Next
<1>2. ASSUME NEW c \in Calls, WaiterAnswers(c) PROVE Promise!Next
  BY <1>2, AnswerPromise DEF Promise!Next
<1>3. ASSUME NEW s \in Sessions, NEW c \in Calls, Serve(s, c) PROVE Promise!Next
  BY <1>3, ServePromise DEF Promise!Next
<1>4. CASE \/ LoopStep \/ Dial \/ DialForever \/ Close \/ DialFails \/ DialSucceeds \/ CloseStep
           \/ (\E s \in Sessions : SessionBreaks(s)) \/ UNCHANGED vars
  <2>1. UNCHANGED <<goVars, served>>
    BY <1>4 DEF LoopStep, CheckReconnect, StartHub, Recv, RecvFails, Interrupted,
                SignalDisconnect, CheckRedial, Redial, Dial, DialForever, Close, DialFails,
                DialSucceeds, SessionBreaks, CloseStep, CloseWaits, CloseSession, vars,
                loopOnly, callVars, goVars, peerVars
  <2>2. QED
    BY <2>1, StateKept
<1>5. ASSUME NEW h \in Sessions,
             HubGetsSession(h) \/ HubSends(h) \/ HubSendFails(h) \/ HubSessionClosed(h) \/ HubCloses(h)
      PROVE  UNCHANGED <<CallState, served>>
  <2>1. UNCHANGED <<goVars, served>>
    BY <1>5 DEF HubGetsSession, HubSends, HubSendFails, HubSessionClosed, HubCloses, callVars,
                goVars, peerVars
  <2>2. QED
    BY <2>1, StateKept
<1>6. QED
  BY <1>1, <1>2, <1>3, <1>4, <1>5, SilentPromise
  DEF Next, Owner, Environment, HubStep, CallStep

(* Whatever sessions do, a caller sees what MethodCall promises: a call is *)
(* refused for good, or made, answered at most once and run at most once,  *)
(* for any number of calls and dials.                                      *)
THEOREM ClientImplementsMethodCall == Spec => ImplementsMethodCall
<1>1. Init => Promise!Init
  BY DEF Init, Promise!Init, CallState
<1>2. QED
  BY <1>1, TypeInit, TypeStep, LockInit, LockStep, OnceInit, OnceStep, CallInit, CallStepInv,
     StepPromise, PTL DEF Spec, ImplementsMethodCall, Promise!Spec

-----------------------------------------------------------------------------
(***************************************************************************)
(* Callbacks, hubs and the loop.  The response of a call is in one place:  *)
(* on a session, in its callback or in doneChan.                           *)
(***************************************************************************)
ReplyInv ==
    /\ \A c \in Calls : \A s, t \in Sessions :
         <<s, c>> \in responses =>
            /\ c \notin running /\ c \notin doneChan
            /\ <<t, c>> \in responses => s = t
    /\ \A c \in Calls : c \in running => c \notin doneChan

RemoveInv ==
    \A c \in Calls :
        caller[c] = "returned" /\ waiter[c] # "none" => removeCallback[c] = "closed"

SessionInv ==
    /\ \A s \in Sessions : s <= session => sess[s] # "none"
    /\ \A h \in Sessions : holds[h].to <= session
    /\ loop = "ended" => ~Reconnect

StuckInv == ReplyInv /\ RemoveInv /\ SessionInv

LEMMA StuckInit == Init => StuckInv
  BY DEF Init, StuckInv, ReplyInv, RemoveInv, SessionInv, Sessions

LEMMA ReplyStep ==
    TypeInv /\ OnceInv /\ ReplyInv /\ [Next]_vars => ReplyInv'
<1> SUFFICES ASSUME TypeInv, OnceInv, ReplyInv, [Next]_vars PROVE ReplyInv'
  OBVIOUS
<1> USE DEF callVars, cbVars, chanVars, peerVars
<1>1. ASSUME NEW c \in Calls, Recv(c) PROVE ReplyInv'
  <2>1. /\ session \in Sessions /\ <<session, c>> \in responses
        /\ responses' = responses \ {<<session, c>>}
        /\ running' \subseteq running \cup {c} /\ doneChan' = doneChan
    BY <1>1, ConstantsAssumption DEF Recv, Sessions, TypeInv, TypeOK
  <2>2. \A t \in Sessions : <<t, c>> \notin responses'
    BY <2>1 DEF ReplyInv
  <2>3. QED
    BY <2>1, <2>2 DEF ReplyInv
<1>2. ASSUME NEW c \in Calls, RunCallback(c) PROVE ReplyInv'
  BY <1>2 DEF RunCallback, ReplyInv
<1>3. ASSUME NEW c \in Calls, WaiterAnswers(c) PROVE ReplyInv'
  <2>1. doneChan' \subseteq doneChan /\ UNCHANGED <<running, responses>>
    BY <1>3 DEF WaiterAnswers
  <2>2. QED
    BY <2>1 DEF ReplyInv
<1>4. ASSUME NEW s \in Sessions, NEW c \in Calls, Serve(s, c) PROVE ReplyInv'
  <2>1. served[c] = 0
    BY <1>4 DEF Serve, OnceInv, PlaceInv
  <2>2. c \notin running /\ c \notin doneChan /\ \A t \in Sessions : <<t, c>> \notin responses
    BY <2>1 DEF OnceInv, AnswerInv
  <2>3. responses' \subseteq responses \cup {<<s, c>>} /\ UNCHANGED <<running, doneChan>>
    BY <1>4 DEF Serve
  <2>4. QED
    BY <2>2, <2>3 DEF ReplyInv
<1>5. CASE UNCHANGED <<responses, running, doneChan>>
  BY <1>5 DEF ReplyInv
<1>6. ASSUME NEW h \in Sessions, HubStep(h) PROVE UNCHANGED <<responses, running, doneChan>>
  BY <1>6 DEF HubStep, HubReceives, HubGetsSession, HubSends, HubSendFails, HubSessionClosed,
              HubCloses
<1>7. CASE Owner \/ CloseStep \/ UNCHANGED vars
  BY <1>5, <1>7 DEF Owner, Dial, DialForever, Close, GoWithTimeout, CloseStep, CloseWaits,
                    CloseSession, vars, loopOnly
<1>8. CASE Environment
  BY <1>4, <1>5, <1>8 DEF Environment, DialFails, DialSucceeds, SessionBreaks, loopOnly
<1>9. CASE LoopStep
  BY <1>1, <1>5, <1>9 DEF LoopStep, CheckReconnect, StartHub, RecvFails, Interrupted,
                          SignalDisconnect, CheckRedial, Redial, loopOnly
<1>10. ASSUME NEW c \in Calls, CallStep(c) PROVE ReplyInv'
  BY <1>2, <1>3, <1>5, <1>10
  DEF CallStep, SendCallbackID, TimerFires, WaiterLocks, WaiterRemoves
<1>11. QED
  BY <1>5, <1>6, <1>7, <1>8, <1>9, <1>10 DEF Next

LEMMA RemoveStep ==
    TypeInv /\ LockInv /\ CallInv /\ RemoveInv /\ [Next]_vars => RemoveInv'
<1> SUFFICES ASSUME TypeInv, LockInv, CallInv, RemoveInv, [Next]_vars PROVE RemoveInv'
  OBVIOUS
<1> USE DEF callVars, cbVars, goVars
<1>1. ASSUME NEW c \in Calls, CallStep(c) PROVE RemoveInv'
  <2> USE DEF RemoveInv, TypeInv, TypeOK
  <2>1. CASE SendCallbackID(c)
    <3>1. ~IsResponseCallback(ResponseCallbackPath)
      BY DEF IsResponseCallback, ResponseCallbackPath
    <3>2. QED
      BY <2>1, <3>1 DEF SendCallbackID
  <2>2. CASE RunCallback(c)
    BY <2>2 DEF RunCallback, TakeCallbackID
  <2>3. CASE TimerFires(c)
    BY <2>3 DEF TimerFires
  <2>4. CASE WaiterLocks(c)
    BY <2>4 DEF WaiterLocks
  <2>5. CASE WaiterAnswers(c)
    BY <2>5 DEF WaiterAnswers
  <2>6. CASE WaiterRemoves(c)
    BY <2>6 DEF WaiterRemoves, TakeCallbackID
  <2>7. QED
    BY <1>1, <2>1, <2>2, <2>3, <2>4, <2>5, <2>6 DEF CallStep
<1>2. ASSUME NEW c \in Calls, GoWithTimeout(c) PROVE RemoveInv'
  <2>1. /\ caller[c] = "idle" /\ UNCHANGED <<waiter, removeCallback>>
        /\ \A d \in Calls \ {c} : caller'[d] = caller[d]
    BY <1>2 DEF GoWithTimeout, TypeInv, TypeOK
  <2>2. waiter[c] = "none"
    BY <2>1 DEF LockInv
  <2>3. QED
    BY <2>1, <2>2 DEF RemoveInv
<1>3. ASSUME NEW h \in Sessions, NEW c \in Calls, HubReceives(h, c) PROVE RemoveInv'
  BY <1>3 DEF HubReceives, RemoveInv, TypeInv, TypeOK
<1>4. CASE UNCHANGED <<caller, waiter, removeCallback>>
  BY <1>4 DEF RemoveInv
<1>5. ASSUME NEW h \in Sessions, HubStep(h) PROVE RemoveInv'
  BY <1>3, <1>4, <1>5 DEF HubStep, HubGetsSession, HubSends, HubSendFails, HubSessionClosed,
                          HubCloses
<1>6. CASE Owner \/ CloseStep \/ Environment \/ LoopStep \/ UNCHANGED vars
  BY <1>2, <1>4, <1>6 DEF Owner, Dial, DialForever, Close, CloseStep, CloseWaits,
     CloseSession, Environment, DialFails, DialSucceeds, SessionBreaks, Serve, LoopStep,
     CheckReconnect, StartHub, Recv, RecvFails, Interrupted, SignalDisconnect, CheckRedial,
     Redial, loopOnly, vars
<1>7. QED
  BY <1>1, <1>5, <1>6 DEF Next

(* Steps that leave the sessions, the hubs and Reconnect as they are. *)
LEMMA SessionQuiet ==
    ASSUME SessionInv, UNCHANGED <<Reconnect, session, sess, holds>>,
           loop' = "ended" => loop = "ended" \/ ~Reconnect
    PROVE  SessionInv'
  BY DEF SessionInv

LEMMA SessionStep == TypeInv /\ SessionInv /\ [Next]_vars => SessionInv'
<1> SUFFICES ASSUME TypeInv, SessionInv, [Next]_vars PROVE SessionInv'
  OBVIOUS
<1> USE DEF connVars, linkVars, hubVars, idleHub, loopOnly
<1>1. CASE LoopStep
  <2>1. UNCHANGED <<Reconnect, session, sess, holds>>
    BY <1>1 DEF LoopStep, CheckReconnect, StartHub, Recv, RecvFails, Interrupted,
                SignalDisconnect, CheckRedial, Redial
  <2>2. loop' = "ended" => loop = "ended" \/ ~Reconnect
    BY <1>1 DEF LoopStep, CheckReconnect, StartHub, Recv, RecvFails, Interrupted,
                SignalDisconnect, CheckRedial, Redial
  <2>3. QED
    BY <2>1, <2>2, SessionQuiet
<1>2. ASSUME NEW h \in Sessions, HubStep(h) PROVE SessionInv'
  <2>1. ASSUME UNCHANGED <<Reconnect, loop, session, sess>>,
               holds' = holds \/ \E m \in Calls \cup {None}, t \in {0, session} :
                  holds' = [holds EXCEPT ![h] = [msg |-> m, to |-> t]]
        PROVE  SessionInv'
    <3>1. \A k \in Sessions : holds'[k].to \in {0, session, holds[k].to}
      BY <2>1 DEF TypeInv, TypeOK
    <3>2. \A k \in Sessions : holds[k].to \in 0..MaxDials /\ session \in 0..MaxDials
      BY DEF TypeInv, TypeOK
    <3>3. \A k \in Sessions : holds'[k].to <= session'
      BY <2>1, <3>1, <3>2, ConstantsAssumption DEF SessionInv
    <3>4. QED
      BY <2>1, <3>3 DEF SessionInv
  <2>2. ASSUME NEW c \in Calls, HubReceives(h, c) PROVE SessionInv'
    BY <2>1, <2>2 DEF HubReceives
  <2>3. CASE HubSends(h)
    BY <2>1, <2>3 DEF HubSends
  <2>4. CASE HubSendFails(h)
    BY <2>1, <2>4 DEF HubSendFails
  <2>5. CASE HubSessionClosed(h)
    BY <2>1, <2>5 DEF HubSessionClosed
  <2>6. CASE HubCloses(h)
    BY <2>1, <2>6 DEF HubCloses
  <2>7. CASE HubGetsSession(h)
    <3>1. holds[h].msg \in Calls \cup {None}
      BY DEF TypeInv, TypeOK
    <3>2. QED
      BY <2>1, <2>7, <3>1 DEF HubGetsSession
  <2>8. QED
    BY <1>2, <2>2, <2>3, <2>4, <2>5, <2>6, <2>7 DEF HubStep
<1>3. ASSUME NEW c \in Calls, CallStep(c) PROVE SessionInv'
  BY <1>3, SessionQuiet DEF CallStep, SendCallbackID, RunCallback, TimerFires, WaiterLocks,
                            WaiterAnswers, WaiterRemoves
<1>4. CASE Owner
  BY <1>4 DEF Owner, Dial, DialForever, Close, GoWithTimeout, SessionInv
<1>5. ASSUME DialFails \/ \E s \in Sessions, c \in Calls : Serve(s, c) PROVE SessionInv'
  BY <1>5, SessionQuiet DEF DialFails, Serve
<1>6. CASE DialSucceeds
  <2>1. /\ session \in Nat /\ session' = session + 1 /\ loop' = "spawn" /\ holds' = holds
        /\ sess' = [sess EXCEPT ![session + 1] = "open"]
        /\ sess \in [Sessions -> {"none", "open", "broken", "closed"}]
    BY <1>6, ConstantsAssumption DEF DialSucceeds, TypeInv, TypeOK
  <2>2. \A h \in Sessions : holds[h].to \in Nat
    BY ConstantsAssumption DEF TypeInv, TypeOK
  <2>3. \A h \in Sessions : holds'[h].to <= session'
    BY <2>1, <2>2 DEF SessionInv
  <2>4. \A s \in Sessions : s <= session' => sess'[s] # "none"
    BY <2>1, ConstantsAssumption DEF SessionInv, Sessions
  <2>5. QED
    BY <2>1, <2>3, <2>4 DEF SessionInv
<1>7. ASSUME NEW s \in Sessions, SessionBreaks(s) PROVE SessionInv'
  BY <1>7 DEF SessionBreaks, SessionInv, TypeInv, TypeOK
<1>8. CASE CloseStep
  BY <1>8 DEF CloseStep, CloseWaits, CloseSession, SessionInv, TypeInv, TypeOK
<1>9. CASE UNCHANGED vars
  BY <1>9, SessionQuiet DEF vars
<1>10. QED
  BY <1>1, <1>2, <1>3, <1>4, <1>5, <1>6, <1>7, <1>8, <1>9 DEF Next, Environment

(* Four facts CallbacksFinish, CloseReturns and RedialsBroken rest on: a   *)
(* response callback, which may keep readLoop, finds room in doneChan; it  *)
(* and a timed out waiter, which still has disconnectMu, only wait on      *)
(* removeCallback while sendMethod is yet to close it; a hub only sends    *)
(* over a session that was made; a client told to reconnect does not stop  *)
(* dialing.  It says nothing of a waiter in its select: that of a call     *)
(* without a timeout may keep disconnectMu for good (PendingAnswered).     *)
CallbacksUnblocked ==
    /\ \A c \in running : c \notin doneChan
    /\ \A c \in Calls : c \in running \/ waiter[c] = "remove" =>
          caller[c] = "sent" \/ removeCallback[c] = "closed"
    /\ \A h \in Sessions : hub[h] = "sending" => sess[holds[h].to] # "none"
    /\ Reconnect => loop # "ended"

(* For any number of calls and dials, a response callback and the waiter   *)
(* that removes it never block on a channel that nobody fills or closes    *)
(* any more (client.go:800-833), the session a hub sends over exists       *)
(* (:577-585), and the dial loop has not ended while Reconnect is set      *)
(* (:389-418).                                                             *)
THEOREM CallbacksNeverBlocked == Spec => []CallbacksUnblocked
<1>1. TypeInv /\ OnceInv /\ CallInv /\ StuckInv => CallbacksUnblocked
  <2> SUFFICES ASSUME TypeInv, OnceInv, CallInv, StuckInv PROVE CallbacksUnblocked
    OBVIOUS
  <2>1. \A c \in Calls : c \in running => served[c] = 1
    BY DEF OnceInv, AnswerInv
  <2>2. \A c \in Calls : c \in running => caller[c] \in {"sent", "returned"} /\ waiter[c] # "none"
    BY <2>1 DEF OnceInv, PlaceInv, CallInv, Fresh, TypeInv, TypeOK
  <2>3. \A c \in Calls : c \in running \/ waiter[c] = "remove" =>
          caller[c] = "sent" \/ removeCallback[c] = "closed"
    BY <2>2 DEF CallInv, StuckInv, RemoveInv
  <2>4. \A h \in Sessions : hub[h] = "sending" => sess[holds[h].to] # "none"
    <3> SUFFICES ASSUME NEW h \in Sessions, hub[h] = "sending"
                 PROVE  sess[holds[h].to] # "none"
      OBVIOUS
    <3>1. holds[h].to \in 0..MaxDials /\ holds[h].to # 0 /\ holds[h].to <= session
      BY DEF TypeInv, TypeOK, HubInv, StuckInv, SessionInv
    <3>2. QED
      BY <3>1, ConstantsAssumption DEF StuckInv, SessionInv, Sessions
  <2>5. \A c \in running : c \notin doneChan
    BY DEF StuckInv, ReplyInv, TypeInv, TypeOK
  <2>6. Reconnect => loop # "ended"
    BY DEF StuckInv, SessionInv
  <2>7. QED
    BY <2>3, <2>4, <2>5, <2>6 DEF CallbacksUnblocked
<1>2. TypeInv /\ LockInv /\ OnceInv /\ CallInv /\ StuckInv /\ [Next]_vars => StuckInv'
  BY ReplyStep, RemoveStep, SessionStep DEF StuckInv
<1>3. QED
  BY <1>1, <1>2, TypeInit, TypeStep, LockInit, LockStep, OnceInit, OnceStep, CallInit,
     CallStepInv, StuckInit, PTL DEF Spec
=============================================================================
