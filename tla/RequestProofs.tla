---------------------------- MODULE RequestProofs ----------------------------
(***************************************************************************)
(* The requests of a connection, for any number of concurrent requests,    *)
(* kontrol keys, credentials and handlers; then kontrol's queries (Query), *)
(* whose answers come with the tokens that are verified, for any set of    *)
(* kites and queries.                                                      *)
(***************************************************************************)
EXTENDS Request, Query, SequenceTheorems, TLAPS

AllHandlers == Handlers \cup ToSet(Finals)
Calls == [handler : AllHandlers, value : Values \cup {"error"}]

(* What the cache, or the verification under way, says of a key was true   *)
(* of it at some time; a request past authentication is authentic.         *)
Genuine(a) ==
    /\ a \notin NoAuth /\ a.signed /\ ~a.expired
    /\ a.type = "token" => a.issuer = KontrolUser /\ VerifyAudience(Me, a.audience)
IsKiteKey(a) == a \notin NoAuth /\ a.type = "kiteKey"
Authentic(r) ==
    Genuine(auth[r]) /\ auth[r].user = user[r] /\ auth[r].key \in trusted

AuthInv ==
    /\ KontrolKey \in trusted
    /\ \A k \in Keys : verifyCache[k] = "true" => k \in trusted
    /\ \A r \in Requests :
          /\ pc[r] = "crashed" => auth[r] = NoOptions
          /\ pc[r] \in {"verify", "cache"} => IsKiteKey(auth[r])
          /\ pc[r] = "cache" /\ verdict[r] => auth[r].key \in trusted
          /\ ran[r] # <<>> => pc[r] \in {"chain", "final", "done"}
          /\ /\ pc[r] \in {"init", "chain", "final"} \/ ran[r] # <<>>
             /\ authenticate /\ session = "accepted"
             => Authentic(r)

(* Nobody gets past the first request of a connection, and so nobody is    *)
(* authenticated, before it has named the client.                          *)
IdentityInv ==
    /\ session # "websocket" /\ once = "no" =>
          /\ users = {}
          /\ \A r \in Requests : pc[r] \in {"idle", "new", "crashed"}
    /\ users # {} => clientUser \in users

(* The kite's handlers follow the method's once the method is initialized. *)
Before == MethodPre \o KitePre
After == MethodPost \o KitePost
MethodInv ==
    /\ initialized  => pre = Before /\ post = After
    /\ ~initialized => /\ pre = MethodPre /\ post = MethodPost
                       /\ \A r \in Requests : pc[r] \notin {"chain", "final"}

(* n handlers of the chain have been called, in order. *)
Prefix(c, n) ==
    /\ n \in 0..Len(Chain) /\ n <= Len(c)
    /\ \A i \in 1..n : c[i].handler = Chain[i]

(* A first value v that is not nil among the first n calls, if any. *)
FirstValue(c, n, v) ==
    \/ v = Nil /\ \A i \in 1..n : c[i].value = Nil
    \/ \E i \in 1..n : /\ v = c[i].value /\ v # Nil
                       /\ \A j \in 1..(i - 1) : c[j].value = Nil

(* The calls of a request and those it has yet to make, while they go on.  *)
Running(r) ==
    pc[r] = "chain" =>
        /\ Prefix(ran[r], Len(ran[r])) /\ ~err[r] /\ answer[r] = <<>>
        /\ Len(queue[r]) = (IF Len(ran[r]) < Base THEN Base ELSE Len(Chain)) - Len(ran[r])
        /\ \A i \in 1..Len(queue[r]) : queue[r][i] = Chain[Len(ran[r]) + i]
        /\ Len(ran[r]) >= Base => methodResp[r] = ran[r][Base].value
        /\ handling = "ReturnFirst" => FirstValue(ran[r], Len(ran[r]), firstResp[r])
        /\ Len(ran[r]) > 0 => resp[r] = ran[r][Len(ran[r])].value

(* What handling promises of the calls of the whole chain. *)
IsPromised(c, v) ==
    /\ handling = "ReturnMethod" => v = c[Base].value
    /\ handling = "ReturnFirst" => FirstValue(c, Len(Chain), v)
    /\ handling = "ReturnLatest" => v = c[Len(Chain)].value

(* The chain is over and the final functions are to be called. *)
Ending(r) ==
    pc[r] = "final" =>
        /\ queue[r] = Finals /\ answer[r] = <<>>
        /\ Prefix(ran[r], Len(ran[r]))
        /\ ~err[r] => Len(ran[r]) = Len(Chain) /\ IsPromised(ran[r], resp[r])

Waiting(r) ==
    pc[r] \notin {"chain", "final", "done"} =>
        ran[r] = <<>> /\ answer[r] = <<>> /\ ~err[r] /\ firstResp[r] = Nil

Ended(r) ==
    pc[r] = "done" =>
        /\ Len(answer[r]) = 1
        /\ \E n \in 0..Len(Chain) :
              /\ Prefix(ran[r], n)
              /\ Len(ran[r]) \in {n, n + Len(Finals)}
              /\ \A i \in 1..(Len(ran[r]) - n) : ran[r][n + i].handler = Finals[i]
        /\ answer[r][1] \in Values =>
              /\ Prefix(ran[r], Len(Chain))
              /\ Len(ran[r]) = Len(Chain) + Len(Finals)
              /\ \A i \in 1..Len(Finals) : ran[r][Len(Chain) + i].handler = Finals[i]
              /\ IsPromised(ran[r], answer[r][1])

Good(r) == Waiting(r) /\ Running(r) /\ Ending(r) /\ Ended(r)
ChainInv == \A r \in Requests : Good(r)

Inv == TypeOK /\ AuthInv /\ IdentityInv /\ MethodInv /\ ChainInv

-----------------------------------------------------------------------------
(* The handlers. *)

LEMMA ListsAreHandlers ==
    /\ MethodPre \in Seq(Handlers) /\ KitePre \in Seq(Handlers)
    /\ MethodPost \in Seq(Handlers) /\ KitePost \in Seq(Handlers)
    /\ Finals \in Seq(AllHandlers)
<1>1. /\ MethodPre \in Seq(ToSet(MethodPre)) /\ KitePre \in Seq(ToSet(KitePre))
      /\ MethodPost \in Seq(ToSet(MethodPost)) /\ KitePost \in Seq(ToSet(KitePost))
      /\ Finals \in Seq(ToSet(Finals))
  BY HandlersAssumption
<1>2. /\ ToSet(MethodPre) \subseteq Handlers /\ ToSet(KitePre) \subseteq Handlers
      /\ ToSet(MethodPost) \subseteq Handlers /\ ToSet(KitePost) \subseteq Handlers
      /\ ToSet(Finals) \subseteq AllHandlers
  BY DEF Handlers, AllHandlers
<1>3. QED
  BY <1>1, <1>2

LEMMA HandlersNamed ==
    \A h \in Handlers : /\ h # "genericError" /\ h # "authenticationError"
                        /\ h # "requestLimitError" /\ h # "nil" /\ h # "error"
  BY HandlersAssumption DEF Handlers

LEMMA ErrorsAreNoValues ==
    /\ "genericError" \notin Values /\ "authenticationError" \notin Values
    /\ "requestLimitError" \notin Values /\ "error" \notin Values
  BY HandlersNamed DEF Values, Nil

(* Which handlers of the lists are the base handler: none. *)
LEMMA NoOtherBase ==
    /\ \A i \in 1..Len(MethodPre) : MethodPre[i] # "handler"
    /\ \A i \in 1..Len(KitePre) : KitePre[i] # "handler"
    /\ \A i \in 1..Len(MethodPost) : MethodPost[i] # "handler"
    /\ \A i \in 1..Len(KitePost) : KitePost[i] # "handler"
<1>1. /\ "handler" \notin ToSet(MethodPre) /\ "handler" \notin ToSet(KitePre)
      /\ "handler" \notin ToSet(MethodPost) /\ "handler" \notin ToSet(KitePost)
  BY HandlersAssumption
<1>2. QED
  BY <1>1, ListsAreHandlers DEF ToSet

-----------------------------------------------------------------------------
(* Types. *)

LEMMA TypeInit == Init => TypeOK
<1> SUFFICES ASSUME Init PROVE TypeOK
  OBVIOUS
<1>1. PICK s \in Settings :
          /\ session = s.session /\ authenticate = s.authenticate
          /\ handling = s.handling /\ caching = s.caching
          /\ auth \in [Requests -> s.auths]
  BY DEF Init
<1>2. s \in [session : {"accepted", "websocket", "xhr"},
             authenticate : BOOLEAN, caching : BOOLEAN,
             handling : {"ReturnMethod", "ReturnFirst", "ReturnLatest"},
             auths : SUBSET Auths]
  BY RequestAssumption
<1>3. /\ session \in {"accepted", "websocket", "xhr"}
      /\ authenticate \in BOOLEAN /\ caching \in BOOLEAN
      /\ handling \in {"ReturnMethod", "ReturnFirst", "ReturnLatest"}
      /\ auth \in [Requests -> Auths]
  BY <1>1, <1>2
<1>4. /\ KontrolKey \in Keys /\ trusted \subseteq Keys /\ rotations \in 0..MaxRotations
      /\ bucket \in 0..Capacity /\ fills \in 0..MaxFills
      /\ verifyCache \in [Keys -> {"true", "false", "none"}]
  <2>1. /\ 0 \in 0..MaxRotations /\ 0 \in 0..MaxFills /\ Capacity \in 0..Capacity
        /\ FirstKey \in Keys
    BY RequestAssumption
  <2>2. QED
    BY <2>1 DEF Init
<1>5. pre \in Seq(Handlers) /\ post \in Seq(Handlers) /\ initialized \in BOOLEAN
  BY ListsAreHandlers DEF Init
<1>6. /\ once \in {"no", "running", "done"}
      /\ clientUser \in Subjects \cup {"claimed", "dialed", ""} /\ users \subseteq Subjects
  BY DEF Init
<1>7. <<>> \in Seq(AllHandlers) /\ <<>> \in Seq(Calls) /\ <<>> \in Seq(Values \cup Errors)
  OBVIOUS
<1>8. /\ queue \in [Requests -> Seq(AllHandlers)] /\ ran \in [Requests -> Seq(Calls)]
      /\ answer \in [Requests -> Seq(Values \cup Errors)]
  BY <1>7 DEF Init
<1>9. /\ \A f \in {firstResp, methodResp, resp} : f \in [Requests -> Values]
      /\ err \in [Requests -> BOOLEAN] /\ verdict \in [Requests -> BOOLEAN]
      /\ user \in [Requests -> Subjects \cup {"claimed", "dialed", ""}]
      /\ pc \in [Requests -> {"idle", "new", "first", "auth", "verify", "cache",
                              "init", "chain", "final", "done", "crashed"}]
  BY DEF Init, Values
<1>10. QED
  BY <1>3, <1>4, <1>5, <1>6, <1>8, <1>9 DEF TypeOK, Calls, AllHandlers

(* The parts of TypeOK. *)
TypeConn ==
    /\ session \in {"accepted", "websocket", "xhr"}
    /\ authenticate \in BOOLEAN /\ caching \in BOOLEAN
    /\ handling \in {"ReturnMethod", "ReturnFirst", "ReturnLatest"}
    /\ KontrolKey \in Keys /\ trusted \subseteq Keys /\ rotations \in 0..MaxRotations
    /\ verifyCache \in [Keys -> {"true", "false", "none"}]
    /\ once \in {"no", "running", "done"}
    /\ clientUser \in Subjects \cup {"claimed", "dialed", ""} /\ users \subseteq Subjects

TypeMethod ==
    /\ pre \in Seq(Handlers) /\ post \in Seq(Handlers) /\ initialized \in BOOLEAN
    /\ bucket \in 0..Capacity /\ fills \in 0..MaxFills

TypeRequest ==
    /\ pc \in [Requests -> {"idle", "new", "first", "auth", "verify", "cache",
                            "init", "chain", "final", "done", "crashed"}]
    /\ auth \in [Requests -> Auths]
    /\ verdict \in [Requests -> BOOLEAN]
    /\ user \in [Requests -> Subjects \cup {"claimed", "dialed", ""}]
    /\ answer \in [Requests -> Seq(Values \cup Errors)]

TypeChain ==
    /\ firstResp \in [Requests -> Values]
    /\ methodResp \in [Requests -> Values]
    /\ resp \in [Requests -> Values]
    /\ err \in [Requests -> BOOLEAN]
    /\ queue \in [Requests -> Seq(AllHandlers)]
    /\ ran \in [Requests -> Seq(Calls)]

LEMMA TypeParts == TypeOK <=> TypeConn /\ TypeMethod /\ TypeRequest /\ TypeChain
  BY DEF TypeOK, TypeConn, TypeMethod, TypeRequest, TypeChain, Calls, AllHandlers

(* The steps of a request, by what they change. *)
Refuses(r) ==
    \/ NoAuthenticator(r) \/ TokenRefused(r) \/ CacheRefuses(r) \/ NoCachePanics(r)
    \/ HandlerPanics(r)
Accepts(r) == TokenAccepted(r) \/ CacheTrusts(r)
Moves(r) == Receive(r) \/ ParseFails(r) \/ LaterRequest(r) \/ CacheMisses(r)
Calling(r) ==
    \/ \E v \in Values : HandlerReturns(r, v)
    \/ HandlerFails(r) \/ ChainEnds(r) \/ CallFunc(r)

LEMMA StepKinds ==
    ASSUME NEW r \in Requests, Receive(r) \/ ParseFails(r) \/ Step(r)
    PROVE  \/ Refuses(r) \/ Accepts(r) \/ Moves(r) \/ Calling(r)
           \/ FirstRequest(r) \/ FirstRequestHandled(r) \/ SkipAuthentication(r)
           \/ SelfVerify(r) \/ KiteKeyAccepted(r) \/ KiteKeyRefused(r)
           \/ ServeKite(r) \/ LimitExceeded(r)
  BY DEF Step, Refuses, Accepts, Moves, Calling

(* A credential that is accepted names one of the subjects. *)
LEMMA AcceptType ==
    ASSUME TypeConn, TypeRequest, NEW r \in Requests, auth[r] \notin NoAuth, Accept(r)
    PROVE  /\ clientUser' \in Subjects \cup {"claimed", "dialed", ""} /\ users' \subseteq Subjects
           /\ user' \in [Requests -> Subjects \cup {"claimed", "dialed", ""}]
           /\ UNCHANGED <<session, once, auth>>
<1>1. auth[r] \in Auths \ NoAuth
  BY DEF TypeRequest
<1>2. auth[r].user \in Subjects
  BY <1>1 DEF Subjects
<1>3. QED
  BY <1>2 DEF Accept, TypeConn, TypeRequest

LEMMA AcceptsAuth ==
    ASSUME NEW r \in Requests, Accepts(r)
    PROVE  auth[r] \notin NoAuth /\ Accept(r) /\ Goto(r, "auth", "init")
           /\ UNCHANGED <<keyVars, methodVars, chainVars, verdict, answer>>
  BY DEF Accepts, TokenAccepted, CacheTrusts, CacheSays, HasAuth

LEMMA TypeConnStep ==
    TypeOK /\ AuthInv /\ [Next]_vars => TypeConn'
<1> SUFFICES ASSUME TypeOK, AuthInv, [Next]_vars PROVE TypeConn'
  OBVIOUS
<1>0. TypeConn /\ TypeRequest
  BY TypeParts
<1>1. ASSUME NEW r \in Requests, Accepts(r) PROVE TypeConn'
  BY <1>0, <1>1, AcceptsAuth, AcceptType DEF TypeConn, keyVars, methodVars
<1>2. ASSUME NEW r \in Requests, KiteKeyAccepted(r) PROVE TypeConn'
  <2>1. auth[r] \notin NoAuth
    BY <1>2 DEF KiteKeyAccepted, Goto, AuthInv, IsKiteKey
  <2>2. verifyCache' \in [Keys -> {"true", "false", "none"}]
    BY <1>0, <1>2 DEF KiteKeyAccepted, Cache, TypeConn
  <2>3. QED
    BY <1>0, <1>2, <2>1, <2>2, AcceptType DEF KiteKeyAccepted, TypeConn, methodVars
<1>3. ASSUME NEW r \in Requests, KiteKeyRefused(r) PROVE TypeConn'
  <2>1. verifyCache' \in [Keys -> {"true", "false", "none"}]
    BY <1>0, <1>3 DEF KiteKeyRefused, Cache, TypeConn
  <2>2. QED
    BY <1>0, <1>3, <2>1 DEF KiteKeyRefused, TypeConn, methodVars, connVars
<1>4. ASSUME NEW r \in Requests, FirstRequest(r) \/ FirstRequestHandled(r) PROVE TypeConn'
  BY <1>0, <1>4 DEF FirstRequest, FirstRequestHandled, TypeConn, keyVars, methodVars
<1>5. CASE UNCHANGED <<keyVars, connVars, authenticate, handling>>
  BY <1>0, <1>5 DEF TypeConn, keyVars, connVars
<1>6. ASSUME NEW r \in Requests, Refuses(r) \/ Moves(r) PROVE TypeConn'
  BY <1>5, <1>6 DEF Refuses, NoAuthenticator, TokenRefused, CacheRefuses, NoCachePanics,
        HandlerPanics, Moves, Receive, ParseFails, LaterRequest, CacheMisses, methodVars
<1>7. ASSUME NEW r \in Requests, Calling(r) PROVE TypeConn'
  BY <1>5, <1>7 DEF Calling, HandlerReturns, HandlerFails, ChainEnds, CallFunc, methodVars
<1>8. ASSUME NEW r \in Requests,
             SkipAuthentication(r) \/ SelfVerify(r) \/ ServeKite(r) \/ LimitExceeded(r)
      PROVE  TypeConn'
  BY <1>5, <1>8 DEF SkipAuthentication, SelfVerify, ServeKite, LimitExceeded, methodVars
<1>9. CASE FillBucket \/ UNCHANGED vars
  BY <1>5, <1>9 DEF FillBucket, vars, methodVars
<1>10. ASSUME NEW k \in Keys, UpdateAuth(k) PROVE TypeConn'
  <2>1. rotations' \in 0..MaxRotations
    <3>1. MaxRotations \in Nat /\ rotations \in 0..MaxRotations
      BY <1>0, RequestAssumption DEF TypeConn
    <3>2. rotations < MaxRotations /\ rotations' = rotations + 1
      BY <1>10 DEF UpdateAuth
    <3>3. QED
      BY <3>1, <3>2
  <2>2. trusted' \subseteq Keys /\ KontrolKey' \in Keys
    BY <1>0, <1>10 DEF UpdateAuth, TypeConn
  <2>3. QED
    BY <1>0, <1>10, <2>1, <2>2 DEF UpdateAuth, TypeConn, connVars, methodVars
<1>11. ASSUME NEW k \in Keys, CacheExpires(k) PROVE TypeConn'
  BY <1>0, <1>11 DEF CacheExpires, TypeConn, connVars, methodVars
<1>12. QED
  BY <1>1, <1>2, <1>3, <1>4, <1>6, <1>7, <1>8, <1>9, <1>10, <1>11, StepKinds DEF Next

LEMMA InitMethodType ==
    ASSUME TypeMethod, InitMethod
    PROVE  pre' \in Seq(Handlers) /\ post' \in Seq(Handlers) /\ initialized' \in BOOLEAN
<1>1. CASE initialized
  BY <1>1 DEF InitMethod, TypeMethod
<1>2. CASE ~initialized
  BY <1>2, ListsAreHandlers DEF InitMethod, TypeMethod
<1>3. QED
  BY <1>1, <1>2

LEMMA TypeMethodStep == TypeOK /\ [Next]_vars => TypeMethod'
<1> SUFFICES ASSUME TypeOK, [Next]_vars PROVE TypeMethod'
  OBVIOUS
<1>0. TypeMethod
  BY TypeParts
<1>1. CASE UNCHANGED methodVars
  BY <1>0, <1>1 DEF TypeMethod, methodVars
<1>2. ASSUME NEW r \in Requests, Refuses(r) \/ Moves(r) \/ Accepts(r) PROVE TypeMethod'
  BY <1>1, <1>2 DEF Refuses, NoAuthenticator, TokenRefused, CacheRefuses, NoCachePanics,
        HandlerPanics, Moves, Receive, ParseFails, LaterRequest, CacheMisses, Accepts, TokenAccepted,
        CacheTrusts
<1>3. ASSUME NEW r \in Requests, Calling(r) PROVE TypeMethod'
  BY <1>1, <1>3 DEF Calling, HandlerReturns, HandlerFails, ChainEnds, CallFunc
<1>4. ASSUME NEW r \in Requests,
             \/ FirstRequest(r) \/ FirstRequestHandled(r) \/ SkipAuthentication(r)
             \/ SelfVerify(r) \/ KiteKeyAccepted(r) \/ KiteKeyRefused(r)
      PROVE  TypeMethod'
  BY <1>1, <1>4 DEF FirstRequest, FirstRequestHandled, SkipAuthentication, SelfVerify,
        KiteKeyAccepted, KiteKeyRefused
<1>5. ASSUME NEW r \in Requests, ServeKite(r) PROVE TypeMethod'
  BY <1>0, <1>5, InitMethodType, RequestAssumption DEF ServeKite, TakeAvailable, TypeMethod
<1>6. ASSUME NEW r \in Requests, LimitExceeded(r) PROVE TypeMethod'
  BY <1>0, <1>6, InitMethodType DEF LimitExceeded, TypeMethod
<1>7. ASSUME NEW k \in Keys, UpdateAuth(k) \/ CacheExpires(k) PROVE TypeMethod'
  BY <1>1, <1>7 DEF UpdateAuth, CacheExpires
<1>8. CASE FillBucket
  BY <1>0, <1>8, RequestAssumption DEF FillBucket, TypeMethod
<1>9. CASE UNCHANGED vars
  BY <1>1, <1>9 DEF vars
<1>10. QED
  BY <1>2, <1>3, <1>4, <1>5, <1>6, <1>7, <1>8, <1>9, StepKinds DEF Next

LEMMA RefuseType ==
    ASSUME TypeRequest, NEW r \in Requests, NEW from, NEW error \in Errors,
           Refuse(r, from, error)
    PROVE  /\ answer' \in [Requests -> Seq(Values \cup Errors)]
           /\ pc' \in [Requests -> {"idle", "new", "first", "auth", "verify", "cache",
                                    "init", "chain", "final", "done", "crashed"}]
<1>1. Append(answer[r], error) \in Seq(Values \cup Errors)
  <2>1. answer[r] \in Seq(Values \cup Errors) /\ error \in Values \cup Errors
    BY DEF TypeRequest
  <2>2. QED
    BY <2>1
<1>2. QED
  BY <1>1 DEF Refuse, Goto, TypeRequest

LEMMA RefusesIs ==
    ASSUME NEW r \in Requests, Refuses(r)
    PROVE  /\ \E from, error : error \in Errors /\ Refuse(r, from, error)
           /\ UNCHANGED <<keyVars, connVars, methodVars, chainVars, reqVars>>
<1>1. "authenticationError" \in Errors /\ "genericError" \in Errors
  BY DEF Errors
<1>2. QED
  BY <1>1 DEF Refuses, NoAuthenticator, TokenRefused, CacheRefuses, NoCachePanics,
        HandlerPanics

LEMMA TypeRequestStep == TypeOK /\ AuthInv /\ [Next]_vars => TypeRequest'
<1> SUFFICES ASSUME TypeOK, AuthInv, [Next]_vars PROVE TypeRequest'
  OBVIOUS
<1>0. TypeConn /\ TypeRequest /\ TypeChain
  BY TypeParts
<1>1. ASSUME NEW r \in Requests, Refuses(r) PROVE TypeRequest'
  BY <1>0, <1>1, RefusesIs, RefuseType DEF TypeRequest, reqVars
<1>2. ASSUME NEW r \in Requests, Moves(r) PROVE TypeRequest'
  BY <1>0, <1>2 DEF Moves, Receive, ParseFails, LaterRequest, CacheMisses, Goto, TypeRequest, reqVars
<1>3. ASSUME NEW r \in Requests, Accepts(r) PROVE TypeRequest'
  BY <1>0, <1>3, AcceptsAuth, AcceptType DEF Goto, TypeRequest
<1>4. ASSUME NEW r \in Requests, KiteKeyAccepted(r) PROVE TypeRequest'
  <2>1. auth[r] \notin NoAuth
    BY <1>4 DEF KiteKeyAccepted, Goto, AuthInv, IsKiteKey
  <2>2. QED
    BY <1>0, <1>4, <2>1, AcceptType DEF KiteKeyAccepted, Goto, TypeRequest
<1>5. ASSUME NEW r \in Requests, KiteKeyRefused(r) \/ LimitExceeded(r) PROVE TypeRequest'
  <2>1. "authenticationError" \in Errors /\ "requestLimitError" \in Errors
    BY DEF Errors
  <2>2. QED
    BY <1>0, <1>5, <2>1, RefuseType DEF KiteKeyRefused, LimitExceeded, TypeRequest, reqVars
<1>6. ASSUME NEW r \in Requests, FirstRequest(r) \/ FirstRequestHandled(r) \/ ServeKite(r)
      PROVE  TypeRequest'
  BY <1>0, <1>6 DEF FirstRequest, FirstRequestHandled, ServeKite, Goto, TypeRequest, reqVars
<1>7. ASSUME NEW r \in Requests, SkipAuthentication(r) PROVE TypeRequest'
  BY <1>0, <1>7 DEF SkipAuthentication, Goto, TypeRequest, TypeConn
<1>8. ASSUME NEW r \in Requests, SelfVerify(r) PROVE TypeRequest'
  BY <1>0, <1>8 DEF SelfVerify, Goto, TypeRequest
<1>9. ASSUME NEW r \in Requests, CallFunc(r) PROVE TypeRequest'
  <2>1. /\ answer[r] \in Seq(Values \cup Errors)
        /\ (IF err[r] THEN "genericError" ELSE resp[r]) \in Values \cup Errors
    BY <1>0 DEF TypeRequest, TypeChain, Errors
  <2>2. Append(answer[r], IF err[r] THEN "genericError" ELSE resp[r]) \in Seq(Values \cup Errors)
    BY <2>1
  <2>3. QED
    BY <1>0, <1>9, <2>2 DEF CallFunc, Goto, TypeRequest, reqVars
<1>10. ASSUME NEW r \in Requests, HandlerFails(r) \/ ChainEnds(r) PROVE TypeRequest'
  BY <1>0, <1>10 DEF HandlerFails, ChainEnds, Goto, TypeRequest, reqVars
<1>11. ASSUME NEW r \in Requests, NEW v \in Values, HandlerReturns(r, v) PROVE TypeRequest'
  BY <1>0, <1>11 DEF HandlerReturns, TypeRequest, reqVars
<1>12. CASE FillBucket \/ UNCHANGED vars \/ \E k \in Keys : UpdateAuth(k) \/ CacheExpires(k)
  BY <1>0, <1>12 DEF FillBucket, UpdateAuth, CacheExpires, TypeRequest, vars, reqVars
<1>13. QED
  BY <1>1, <1>2, <1>3, <1>4, <1>5, <1>6, <1>7, <1>8, <1>9, <1>10, <1>11, <1>12, StepKinds
  DEF Next, Calling

LEMMA TypeChainStep == TypeOK /\ [Next]_vars => TypeChain'
<1> SUFFICES ASSUME TypeOK, [Next]_vars PROVE TypeChain'
  OBVIOUS
<1>0. TypeConn /\ TypeMethod /\ TypeChain
  BY TypeParts
<1>1. CASE UNCHANGED chainVars
  BY <1>0, <1>1 DEF TypeChain, chainVars
<1>2. ASSUME NEW r \in Requests, Refuses(r) \/ Moves(r) \/ Accepts(r) PROVE TypeChain'
  BY <1>1, <1>2 DEF Refuses, NoAuthenticator, TokenRefused, CacheRefuses, NoCachePanics,
        HandlerPanics, Moves, Receive, ParseFails, LaterRequest, CacheMisses, Accepts, TokenAccepted,
        CacheTrusts
<1>3. ASSUME NEW r \in Requests,
             \/ FirstRequest(r) \/ FirstRequestHandled(r) \/ SkipAuthentication(r)
             \/ SelfVerify(r) \/ KiteKeyAccepted(r) \/ KiteKeyRefused(r) \/ LimitExceeded(r)
      PROVE  TypeChain'
  BY <1>1, <1>3 DEF FirstRequest, FirstRequestHandled, SkipAuthentication, SelfVerify,
        KiteKeyAccepted, KiteKeyRefused, LimitExceeded
<1>4. CASE FillBucket \/ UNCHANGED vars \/ \E k \in Keys : UpdateAuth(k) \/ CacheExpires(k)
  BY <1>1, <1>4 DEF FillBucket, UpdateAuth, CacheExpires, vars
<1>5. ASSUME NEW r \in Requests, ServeKite(r) PROVE TypeChain'
  <2>1. pre' \in Seq(Handlers)
    BY <1>0, <1>5, InitMethodType DEF ServeKite
  <2>2. Append(pre', "handler") \in Seq(AllHandlers)
    <3>1. pre' \in Seq(AllHandlers) /\ "handler" \in AllHandlers
      BY <2>1 DEF AllHandlers, Handlers
    <3>2. QED
      BY <3>1
  <2>3. QED
    BY <1>0, <1>5, <2>2 DEF ServeKite, TypeChain
<1>6. ASSUME NEW r \in Requests, NEW v \in Values, HandlerReturns(r, v) PROVE TypeChain'
  <2> DEFINE h == Head(queue[r])
             tail == IF h = "handler" THEN post ELSE <<>>
             call == [handler |-> h, value |-> v]
  <2>1. queue[r] \in Seq(AllHandlers) /\ queue[r] # <<>> /\ ran[r] \in Seq(Calls)
    BY <1>0, <1>6 DEF HandlerReturns, TypeChain
  <2>2. h \in AllHandlers /\ Tail(queue[r]) \in Seq(AllHandlers)
    BY <2>1
  <2>3. tail \in Seq(AllHandlers)
    <3>1. post \in Seq(AllHandlers) /\ <<>> \in Seq(AllHandlers)
      BY <1>0 DEF TypeMethod, AllHandlers
    <3>2. QED
      BY <3>1
  <2>4. Tail(queue[r]) \o tail \in Seq(AllHandlers)
    BY <2>2, <2>3
  <2>5. call \in Calls
    BY <2>2 DEF Calls
  <2>6. Append(ran[r], call) \in Seq(Calls)
    BY <2>1, <2>5
  <2>7. queue' = [queue EXCEPT ![r] = Tail(queue[r]) \o tail]
    BY <1>6 DEF HandlerReturns
  <2>8. ran' = [ran EXCEPT ![r] = Append(ran[r], call)]
    BY <1>6 DEF HandlerReturns
  <2>9. queue' \in [Requests -> Seq(AllHandlers)] /\ ran' \in [Requests -> Seq(Calls)]
    BY <1>0, <2>4, <2>6, <2>7, <2>8 DEF TypeChain
  <2>10. /\ resp' \in [Requests -> Values] /\ methodResp' \in [Requests -> Values]
         /\ firstResp' \in [Requests -> Values] /\ UNCHANGED err
    BY <1>0, <1>6 DEF HandlerReturns, KeepFirst, TypeChain
  <2>11. QED
    BY <1>0, <2>9, <2>10 DEF TypeChain
<1>7. ASSUME NEW r \in Requests, HandlerFails(r) PROVE TypeChain'
  <2> DEFINE call == [handler |-> Head(queue[r]), value |-> "error"]
  <2>1. queue[r] \in Seq(AllHandlers) /\ queue[r] # <<>> /\ ran[r] \in Seq(Calls)
    BY <1>0, <1>7 DEF HandlerFails, TypeChain
  <2>2. call \in Calls
    BY <2>1 DEF Calls
  <2>3. Append(ran[r], call) \in Seq(Calls)
    BY <2>1, <2>2
  <2>4. ran' = [ran EXCEPT ![r] = Append(ran[r], call)] /\ queue' = [queue EXCEPT ![r] = Finals]
    BY <1>7 DEF HandlerFails
  <2>5. queue' \in [Requests -> Seq(AllHandlers)] /\ ran' \in [Requests -> Seq(Calls)]
    BY <1>0, <2>3, <2>4, ListsAreHandlers DEF TypeChain
  <2>6. Nil \in Values
    BY DEF Values
  <2>7. QED
    BY <1>0, <1>7, <2>5, <2>6 DEF HandlerFails, TypeChain
<1>8. ASSUME NEW r \in Requests, ChainEnds(r) PROVE TypeChain'
  <2>1. queue' \in [Requests -> Seq(AllHandlers)]
    BY <1>0, <1>8, ListsAreHandlers DEF ChainEnds, TypeChain
  <2>2. resp' \in [Requests -> Values]
    <3>1. CASE handling = "ReturnMethod"
      BY <1>0, <1>8, <3>1 DEF ChainEnds, TypeChain
    <3>2. CASE handling = "ReturnFirst"
      BY <1>0, <1>8, <3>2 DEF ChainEnds, TypeChain
    <3>3. CASE handling = "ReturnLatest"
      BY <1>0, <1>8, <3>3 DEF ChainEnds, TypeChain
    <3>4. QED
      BY <1>0, <3>1, <3>2, <3>3 DEF TypeConn
  <2>3. QED
    BY <1>0, <1>8, <2>1, <2>2 DEF ChainEnds, TypeChain
<1>9. ASSUME NEW r \in Requests, CallFunc(r) PROVE TypeChain'
  <2> DEFINE calls == [i \in 1..Len(queue[r]) |-> [handler |-> queue[r][i], value |-> resp[r]]]
  <2>1. queue[r] \in Seq(AllHandlers) /\ ran[r] \in Seq(Calls) /\ resp[r] \in Values
    BY <1>0 DEF TypeChain
  <2>2. calls \in Seq(Calls)
    <3>1. Len(queue[r]) \in Nat
      BY <2>1
    <3>2. ASSUME NEW i \in 1..Len(queue[r])
          PROVE  [handler |-> queue[r][i], value |-> resp[r]] \in Calls
      BY <2>1 DEF Calls
    <3>3. QED
      BY <3>1, <3>2
  <2>3. ran[r] \o calls \in Seq(Calls)
    BY <2>1, <2>2
  <2>4. ran' = [ran EXCEPT ![r] = ran[r] \o calls] /\ queue' = [queue EXCEPT ![r] = <<>>]
    BY <1>9 DEF CallFunc
  <2>5. queue' \in [Requests -> Seq(AllHandlers)] /\ ran' \in [Requests -> Seq(Calls)]
    <3>1. <<>> \in Seq(AllHandlers)
      OBVIOUS
    <3>2. QED
      BY <1>0, <2>3, <2>4, <3>1 DEF TypeChain
  <2>6. QED
    BY <1>0, <1>9, <2>5 DEF CallFunc, TypeChain
<1>10. QED
  BY <1>2, <1>3, <1>4, <1>5, <1>6, <1>7, <1>8, <1>9, StepKinds DEF Next, Calling

LEMMA TypeStep == TypeOK /\ AuthInv /\ [Next]_vars => TypeOK'
<1>1. TypeOK /\ AuthInv /\ [Next]_vars => (TypeConn /\ TypeMethod /\ TypeRequest /\ TypeChain)'
  BY TypeConnStep, TypeMethodStep, TypeRequestStep, TypeChainStep
<1>2. (TypeConn /\ TypeMethod /\ TypeRequest /\ TypeChain)' => TypeOK'
  BY TypeParts, PTL
<1>3. QED
  BY <1>1, <1>2

-----------------------------------------------------------------------------
(* Authentication. *)

(* What concerns other requests is as it was. *)
LEMMA GotoEffect ==
    ASSUME TypeOK, NEW r \in Requests, NEW from, NEW to, Goto(r, from, to)
    PROVE  /\ pc[r] = from /\ pc'[r] = to
           /\ \A q \in Requests \ {r} : pc'[q] = pc[q]
  BY DEF Goto, TypeOK

LEMMA AcceptEffect ==
    ASSUME TypeOK, NEW r \in Requests, Accept(r)
    PROVE  /\ user'[r] = auth[r].user /\ clientUser' = auth[r].user
           /\ users' = users \cup {auth[r].user} /\ UNCHANGED <<session, once, auth>>
           /\ \A q \in Requests \ {r} : user'[q] = user[q]
  BY DEF Accept, TypeOK

LEMMA AuthStep == TypeOK /\ AuthInv /\ [Next]_vars => AuthInv'
<1> SUFFICES ASSUME TypeOK, AuthInv, [Next]_vars PROVE AuthInv'
  OBVIOUS
<1> USE DEF AuthInv, Authentic
<1>1. ASSUME NEW r \in Requests, Refuses(r) PROVE AuthInv'
  <2>1. PICK from, error : Refuse(r, from, error)
    BY <1>1, RefusesIs
  <2>2. UNCHANGED <<keyVars, connVars, methodVars, chainVars, reqVars>>
    BY <1>1, RefusesIs
  <2>3. Goto(r, from, "done")
    BY <2>1 DEF Refuse
  <2>4. QED
    BY <2>2, <2>3, GotoEffect DEF keyVars, connVars, methodVars, chainVars, reqVars
<1>2. ASSUME NEW r \in Requests, Receive(r) \/ ParseFails(r) \/ LaterRequest(r) PROVE AuthInv'
  <2>1. UNCHANGED <<keyVars, connVars, methodVars, chainVars, reqVars>>
    BY <1>2 DEF Receive, ParseFails, LaterRequest
  <2>2. /\ pc'[r] \in {"new", "auth", "crashed"} /\ pc[r] \in {"idle", "new"}
        /\ pc'[r] = "crashed" => auth[r] = NoOptions
        /\ \A q \in Requests \ {r} : pc'[q] = pc[q]
    <3>1. CASE Receive(r)
      BY <3>1, GotoEffect DEF Receive
    <3>2. CASE ParseFails(r)
      BY <3>2, GotoEffect DEF ParseFails
    <3>3. CASE LaterRequest(r)
      BY <3>3, GotoEffect DEF LaterRequest
    <3>4. QED
      BY <1>2, <3>1, <3>2, <3>3
  <2>3. QED
    BY <2>1, <2>2 DEF keyVars, connVars, methodVars, chainVars, reqVars
<1>3. ASSUME NEW r \in Requests, CacheMisses(r) PROVE AuthInv'
  <2>1. IsKiteKey(auth[r])
    BY <1>3 DEF CacheMisses, CacheSays, HasAuth, IsKiteKey
  <2>2. QED
    BY <1>3, <2>1, GotoEffect DEF CacheMisses, keyVars, connVars, methodVars, chainVars, reqVars
<1>4. ASSUME NEW r \in Requests, Accepts(r) PROVE AuthInv'
  <2>1. /\ auth[r] \notin NoAuth /\ Accept(r) /\ Goto(r, "auth", "init")
        /\ UNCHANGED <<keyVars, methodVars, chainVars, verdict, answer>>
    BY <1>4, AcceptsAuth
  <2>2. auth[r] \in Auths \ NoAuth
    BY <2>1 DEF TypeOK
  <2>3. auth[r].key \in Keys
    BY <2>2, RequestAssumption
  <2>4. Genuine(auth[r]) /\ auth[r].key \in trusted
    <3>1. CASE TokenAccepted(r)
      BY <2>1, <3>1 DEF TokenAccepted, TokenValid, RSAKey, Genuine
    <3>2. CASE CacheTrusts(r)
      BY <2>1, <2>3, <3>2 DEF CacheTrusts, CacheSays, HasAuth, KiteKeyValid, Genuine
    <3>3. QED
      BY <1>4, <3>1, <3>2 DEF Accepts
  <2>5. QED
    BY <2>1, <2>4, GotoEffect, AcceptEffect DEF keyVars, methodVars, chainVars
<1>5. ASSUME NEW r \in Requests, KiteKeyAccepted(r) PROVE AuthInv'
  <2>1. /\ pc[r] = "cache" /\ verdict[r] /\ Accept(r) /\ Goto(r, "cache", "init")
        /\ UNCHANGED <<trusted, KontrolKey, methodVars, chainVars, verdict>>
    BY <1>5 DEF KiteKeyAccepted, Goto
  <2>2. Genuine(auth[r]) /\ auth[r].key \in trusted
    BY <1>5, <2>1 DEF KiteKeyAccepted, KiteKeyValid, IsKiteKey, Genuine
  <2>3. \A k \in Keys : verifyCache'[k] = "true" => k \in trusted
    BY <1>5, <2>2 DEF KiteKeyAccepted, Cache, TypeOK
  <2>4. QED
    BY <2>1, <2>2, <2>3, GotoEffect, AcceptEffect DEF methodVars, chainVars
<1>6. ASSUME NEW r \in Requests, KiteKeyRefused(r) PROVE AuthInv'
  <2>1. /\ pc[r] = "cache" /\ Goto(r, "cache", "done")
        /\ UNCHANGED <<trusted, KontrolKey, connVars, methodVars, chainVars, reqVars>>
    BY <1>6 DEF KiteKeyRefused, Refuse, Goto
  <2>2. \A k \in Keys : verifyCache'[k] = "true" => k \in trusted
    BY <1>6, <2>1 DEF KiteKeyRefused, Cache, TypeOK
  <2>3. QED
    BY <2>1, <2>2, GotoEffect DEF connVars, methodVars, chainVars, reqVars
<1>7. ASSUME NEW r \in Requests, SelfVerify(r) PROVE AuthInv'
  <2>1. /\ Goto(r, "verify", "cache")
        /\ UNCHANGED <<keyVars, connVars, methodVars, chainVars, auth, user>>
    BY <1>7 DEF SelfVerify
  <2>2. /\ verdict'[r] => auth[r].key = KontrolKey
        /\ \A q \in Requests \ {r} : verdict'[q] = verdict[q]
    BY <1>7 DEF SelfVerify, TypeOK
  <2>3. QED
    BY <2>1, <2>2, GotoEffect DEF keyVars, connVars, methodVars, chainVars
<1>8. ASSUME NEW r \in Requests, FirstRequest(r) \/ FirstRequestHandled(r) PROVE AuthInv'
  BY <1>8, GotoEffect DEF FirstRequest, FirstRequestHandled, keyVars, methodVars,
                          chainVars, reqVars
<1>9. ASSUME NEW r \in Requests, SkipAuthentication(r) PROVE AuthInv'
  <2>1. /\ Goto(r, "auth", "init") /\ (~authenticate \/ session # "accepted")
        /\ UNCHANGED <<keyVars, connVars, methodVars, chainVars, auth, verdict>>
    BY <1>9 DEF SkipAuthentication
  <2>2. \A q \in Requests \ {r} : user'[q] = user[q]
    BY <1>9 DEF SkipAuthentication, TypeOK
  <2>3. QED
    BY <2>1, <2>2, GotoEffect DEF keyVars, connVars, methodVars, chainVars
<1>10. ASSUME NEW r \in Requests, ServeKite(r) PROVE AuthInv'
  BY <1>10, GotoEffect DEF ServeKite, keyVars, connVars, reqVars
<1>11. ASSUME NEW r \in Requests, LimitExceeded(r) PROVE AuthInv'
  BY <1>11, GotoEffect DEF LimitExceeded, Refuse, keyVars, connVars, chainVars, reqVars
<1>12. ASSUME NEW r \in Requests, HandlerFails(r) \/ ChainEnds(r) \/ CallFunc(r) PROVE AuthInv'
  <2>1. /\ \A q \in Requests \ {r} : ran'[q] = ran[q] /\ pc'[q] = pc[q]
        /\ pc[r] \in {"chain", "final"} /\ pc'[r] \in {"final", "done"}
    BY <1>12 DEF HandlerFails, ChainEnds, CallFunc, Goto, TypeOK
  <2>2. UNCHANGED <<keyVars, connVars, methodVars, reqVars>>
    BY <1>12 DEF HandlerFails, ChainEnds, CallFunc
  <2>3. QED
    BY <2>1, <2>2 DEF keyVars, connVars, methodVars, reqVars
<1>13. ASSUME NEW r \in Requests, NEW v \in Values, HandlerReturns(r, v) PROVE AuthInv'
  <2>1. /\ \A q \in Requests \ {r} : ran'[q] = ran[q]
        /\ pc[r] = "chain" /\ UNCHANGED <<pc, keyVars, connVars, methodVars, reqVars>>
    BY <1>13 DEF HandlerReturns, TypeOK
  <2>2. QED
    BY <2>1 DEF keyVars, connVars, methodVars, reqVars
<1>14. ASSUME NEW k \in Keys, UpdateAuth(k) PROVE AuthInv'
  BY <1>14 DEF UpdateAuth, connVars, methodVars, chainVars, reqVars
<1>15. ASSUME NEW k \in Keys, CacheExpires(k) PROVE AuthInv'
  <2>1. \A q \in Keys : verifyCache'[q] = "true" => verifyCache[q] = "true"
    BY <1>15 DEF CacheExpires, TypeOK
  <2>2. QED
    BY <1>15, <2>1 DEF CacheExpires, connVars, methodVars, chainVars, reqVars
<1>16. CASE FillBucket \/ UNCHANGED vars
  BY <1>16 DEF FillBucket, vars, keyVars, connVars, methodVars, chainVars, reqVars
<1>17. QED
  BY <1>1, <1>2, <1>3, <1>4, <1>5, <1>6, <1>7, <1>8, <1>9, <1>10, <1>11, <1>12, <1>13,
     <1>14, <1>15, <1>16, StepKinds DEF Next, Calling, Moves

LEMMA IdentityStep == TypeOK /\ AuthInv /\ IdentityInv /\ [Next]_vars => IdentityInv'
<1> SUFFICES ASSUME TypeOK, AuthInv, IdentityInv, [Next]_vars PROVE IdentityInv'
  OBVIOUS
<1> USE DEF IdentityInv
<1>1. CASE UNCHANGED connVars /\ \A q \in Requests : 
           pc[q] \in {"idle", "new", "crashed"} => pc'[q] \in {"idle", "new", "crashed"}
  BY <1>1 DEF connVars
<1>2. ASSUME NEW r \in Requests, NEW from, NEW to, Goto(r, from, to), UNCHANGED connVars,
             from = "idle" => to \in {"new", "crashed"}, from \notin {"new", "crashed"}
      PROVE  IdentityInv'
  <2>1. pc[r] = from /\ pc'[r] = to /\ \A q \in Requests \ {r} : pc'[q] = pc[q]
    BY <1>2, GotoEffect
  <2>2. QED
    BY <1>1, <1>2, <2>1
<1>3. ASSUME NEW r \in Requests, Refuses(r) PROVE IdentityInv'
  BY <1>2, <1>3 DEF Refuses, NoAuthenticator, TokenRefused, CacheRefuses, NoCachePanics,
        HandlerPanics, Refuse
<1>4. ASSUME NEW r \in Requests, Receive(r) \/ ParseFails(r) \/ CacheMisses(r) PROVE IdentityInv'
  BY <1>2, <1>4 DEF Receive, ParseFails, CacheMisses
<1>5. ASSUME NEW r \in Requests, LaterRequest(r) PROVE IdentityInv'
  BY <1>5 DEF LaterRequest, connVars
<1>6. ASSUME NEW r \in Requests, Accept(r), pc[r] \in {"auth", "cache"} PROVE IdentityInv'
  BY <1>6, AcceptEffect
<1>7. ASSUME NEW r \in Requests, Accepts(r) PROVE IdentityInv'
  BY <1>6, <1>7, AcceptsAuth, GotoEffect
<1>8. ASSUME NEW r \in Requests, KiteKeyAccepted(r) PROVE IdentityInv'
  BY <1>6, <1>8, GotoEffect DEF KiteKeyAccepted
<1>9. ASSUME NEW r \in Requests, FirstRequest(r) \/ FirstRequestHandled(r) PROVE IdentityInv'
  BY <1>9 DEF FirstRequest, FirstRequestHandled
<1>10. ASSUME NEW r \in Requests,
              \/ SkipAuthentication(r) \/ SelfVerify(r) \/ KiteKeyRefused(r)
              \/ ServeKite(r) \/ LimitExceeded(r)
       PROVE  IdentityInv'
  BY <1>2, <1>10 DEF SkipAuthentication, SelfVerify, KiteKeyRefused, ServeKite,
                     LimitExceeded, Refuse
<1>11. ASSUME NEW r \in Requests, Calling(r) PROVE IdentityInv'
  BY <1>1, <1>2, <1>11 DEF Calling, HandlerReturns, HandlerFails, ChainEnds, CallFunc
<1>12. CASE FillBucket \/ UNCHANGED vars \/ \E k \in Keys : UpdateAuth(k) \/ CacheExpires(k)
  BY <1>1, <1>12 DEF FillBucket, UpdateAuth, CacheExpires, vars
<1>13. QED
  BY <1>3, <1>4, <1>5, <1>7, <1>8, <1>9, <1>10, <1>11, <1>12, StepKinds DEF Next, Moves

-----------------------------------------------------------------------------
(* The chain. *)

LEMMA ConcatFacts ==
    ASSUME NEW s \in Seq(Handlers), NEW t \in Seq(Handlers)
    PROVE  /\ s \o t \in Seq(Handlers) /\ Len(s \o t) = Len(s) + Len(t)
           /\ \A i \in 1..Len(s) : (s \o t)[i] = s[i]
           /\ \A i \in 1..Len(t) : (s \o t)[Len(s) + i] = t[i]
  OBVIOUS

LEMMA ConcatGroups ==
    ASSUME NEW s \in Seq(Handlers), NEW t \in Seq(Handlers), NEW u \in Seq(Handlers)
    PROVE  (s \o t) \o u = s \o (t \o u)
  BY ConcatAssociative

LEMMA ChainFacts ==
    /\ Before \in Seq(Handlers) /\ After \in Seq(Handlers) /\ Chain \in Seq(Handlers)
    /\ Base \in Nat \ {0} /\ Base = Len(Before) + 1 /\ Len(Chain) = Base + Len(After)
    /\ \A i \in 1..Len(Before) : Chain[i] = Before[i] /\ Chain[i] # "handler"
    /\ Chain[Base] = "handler"
    /\ \A i \in 1..Len(After) : Chain[Base + i] = After[i] /\ Chain[Base + i] # "handler"
<1> DEFINE head == Before \o <<"handler">>
<1>0. /\ MethodPre \in Seq(Handlers) /\ KitePre \in Seq(Handlers)
      /\ MethodPost \in Seq(Handlers) /\ KitePost \in Seq(Handlers)
      /\ <<"handler">> \in Seq(Handlers)
  BY ListsAreHandlers DEF Handlers
<1>1. /\ Before \in Seq(Handlers) /\ Len(Before) = Len(MethodPre) + Len(KitePre)
      /\ \A i \in 1..Len(Before) : Before[i] # "handler"
  <2>1. Before \in Seq(Handlers) /\ Len(Before) = Len(MethodPre) + Len(KitePre)
    BY <1>0 DEF Before
  <2>2. ASSUME NEW i \in 1..Len(Before) PROVE Before[i] # "handler"
    <3>1. CASE i \in 1..Len(MethodPre)
      BY <1>0, <3>1, NoOtherBase DEF Before
    <3>2. CASE i \notin 1..Len(MethodPre)
      <4>1. i - Len(MethodPre) \in 1..Len(KitePre) /\ Before[i] = KitePre[i - Len(MethodPre)]
        BY <1>0, <2>1, <3>2 DEF Before
      <4>2. QED
        BY <4>1, NoOtherBase
    <3>3. QED
      BY <3>1, <3>2
  <2>3. QED
    BY <2>1, <2>2
<1>2. /\ After \in Seq(Handlers) /\ \A i \in 1..Len(After) : After[i] # "handler"
  <2>1. After \in Seq(Handlers) /\ Len(After) = Len(MethodPost) + Len(KitePost)
    BY <1>0 DEF After
  <2>2. ASSUME NEW i \in 1..Len(After) PROVE After[i] # "handler"
    <3>1. CASE i \in 1..Len(MethodPost)
      BY <1>0, <3>1, NoOtherBase DEF After
    <3>2. CASE i \notin 1..Len(MethodPost)
      <4>1. i - Len(MethodPost) \in 1..Len(KitePost) /\ After[i] = KitePost[i - Len(MethodPost)]
        BY <1>0, <2>1, <3>2 DEF After
      <4>2. QED
        BY <4>1, NoOtherBase
    <3>3. QED
      BY <3>1, <3>2
  <2>3. QED
    BY <2>1, <2>2
<1>3. /\ head \in Seq(Handlers) /\ Len(head) = Base /\ Base \in Nat \ {0}
      /\ Base = Len(Before) + 1
      /\ head[Base] = "handler" /\ \A i \in 1..Len(Before) : head[i] = Before[i]
  <2>1. Len(<<"handler">>) = 1 /\ <<"handler">>[1] = "handler"
    OBVIOUS
  <2>2. Base = Len(Before) + 1 /\ Base \in Nat \ {0}
    BY <1>0, <1>1 DEF Base
  <2>3. head \in Seq(Handlers) /\ Len(head) = Base
    BY <1>0, <1>1, <2>1, <2>2
  <2>4. head[Base] = "handler" /\ \A i \in 1..Len(Before) : head[i] = Before[i]
    <3>1. /\ \A i \in 1..Len(Before) : head[i] = Before[i]
          /\ \A i \in 1..Len(<<"handler">>) : head[Len(Before) + i] = <<"handler">>[i]
      BY <1>0, <1>1, ConcatFacts
    <3>2. QED
      BY <2>1, <2>2, <3>1
  <2>5. QED
    BY <2>2, <2>3, <2>4
<1>4. Chain = (head \o MethodPost) \o KitePost
  BY DEF Chain, Before
<1> HIDE DEF head
<1>5. /\ Chain \in Seq(Handlers) /\ Len(Chain) = Base + Len(After)
      /\ \A i \in 1..Base : Chain[i] = head[i]
      /\ \A i \in 1..Len(After) : Chain[Base + i] = After[i]
  <2>1. head \in Seq(Handlers) /\ Len(head) = Base
    BY <1>3
  <2>2. (head \o MethodPost) \o KitePost = head \o (MethodPost \o KitePost)
    BY <1>0, <2>1, ConcatGroups
  <2>3. Chain = head \o After
    BY <1>4, <2>2 DEF After
  <2>4. /\ head \o After \in Seq(Handlers) /\ Len(head \o After) = Len(head) + Len(After)
        /\ \A i \in 1..Len(head) : (head \o After)[i] = head[i]
        /\ \A i \in 1..Len(After) : (head \o After)[Len(head) + i] = After[i]
    BY <1>2, <2>1, ConcatFacts
  <2>5. QED
    BY <2>1, <2>3, <2>4
<1>6. QED
  BY <1>1, <1>2, <1>3, <1>5

LEMMA InitMethodEffect ==
    ASSUME MethodInv, InitMethod
    PROVE  pre' = Before /\ post' = After /\ initialized'
  BY DEF MethodInv, InitMethod, Before, After

LEMMA MethodStep == TypeOK /\ MethodInv /\ [Next]_vars => MethodInv'
<1> SUFFICES ASSUME TypeOK, MethodInv, [Next]_vars PROVE MethodInv'
  OBVIOUS
<1>1. ASSUME UNCHANGED methodVars,
             \A q \in Requests : pc'[q] = pc[q] \/ pc'[q] \notin {"chain", "final"}
                                \/ pc[q] \in {"chain", "final"}
      PROVE  MethodInv'
  BY <1>1 DEF MethodInv, methodVars
<1>2. ASSUME NEW r \in Requests, NEW from, NEW to, Goto(r, from, to), UNCHANGED methodVars,
             to \notin {"chain", "final"} \/ from \in {"chain", "final"}
      PROVE  MethodInv'
  <2>1. pc[r] = from /\ pc'[r] = to /\ \A q \in Requests \ {r} : pc'[q] = pc[q]
    BY <1>2, GotoEffect
  <2>2. QED
    BY <1>1, <1>2, <2>1
<1>3. ASSUME NEW r \in Requests, Refuses(r) \/ Moves(r) PROVE MethodInv'
  BY <1>2, <1>3 DEF Refuses, NoAuthenticator, TokenRefused, CacheRefuses, NoCachePanics,
        HandlerPanics, Refuse, Moves, Receive, ParseFails, LaterRequest, CacheMisses
<1>4. ASSUME NEW r \in Requests, Accepts(r) PROVE MethodInv'
  BY <1>2, <1>4, AcceptsAuth
<1>5. ASSUME NEW r \in Requests,
             \/ FirstRequest(r) \/ FirstRequestHandled(r) \/ SkipAuthentication(r)
             \/ SelfVerify(r) \/ KiteKeyAccepted(r) \/ KiteKeyRefused(r)
      PROVE  MethodInv'
  BY <1>2, <1>5 DEF FirstRequest, FirstRequestHandled, SkipAuthentication, SelfVerify,
        KiteKeyAccepted, KiteKeyRefused, Refuse
<1>6. ASSUME NEW r \in Requests, ServeKite(r) \/ LimitExceeded(r) PROVE MethodInv'
  BY <1>6, InitMethodEffect DEF ServeKite, LimitExceeded, MethodInv
<1>7. ASSUME NEW r \in Requests, Calling(r) PROVE MethodInv'
  BY <1>1, <1>2, <1>7 DEF Calling, HandlerReturns, HandlerFails, ChainEnds, CallFunc
<1>8. CASE UNCHANGED vars \/ \E k \in Keys : UpdateAuth(k) \/ CacheExpires(k)
  BY <1>1, <1>8 DEF UpdateAuth, CacheExpires, vars
<1>9. CASE FillBucket
  BY <1>9 DEF FillBucket, MethodInv
<1>10. QED
  BY <1>3, <1>4, <1>5, <1>6, <1>7, <1>8, <1>9, StepKinds DEF Next

(* A step of one request leaves the others alone. *)
Untouched(q) ==
    /\ pc'[q] = pc[q] /\ ran'[q] = ran[q] /\ queue'[q] = queue[q]
    /\ methodResp'[q] = methodResp[q] /\ firstResp'[q] = firstResp[q]
    /\ resp'[q] = resp[q] /\ err'[q] = err[q] /\ answer'[q] = answer[q]

LEMMA UntouchedGood ==
    ASSUME NEW q \in Requests, Good(q), Untouched(q), UNCHANGED handling
    PROVE  Good(q)'
  BY DEF Good, Waiting, Running, Ending, Ended, IsPromised, Untouched

LEMMA OthersUntouched ==
    ASSUME TypeOK, NEW r \in Requests, Receive(r) \/ ParseFails(r) \/ Step(r)
    PROVE  UNCHANGED handling /\ \A q \in Requests \ {r} : Untouched(q)
<1> SUFFICES ASSUME NEW q \in Requests \ {r} PROVE UNCHANGED handling /\ Untouched(q)
  BY DEF Untouched, methodVars, Step, Receive, ParseFails, FirstRequest,
         FirstRequestHandled, LaterRequest, SkipAuthentication, NoAuthenticator, TokenAccepted, TokenRefused, CacheTrusts,
         CacheRefuses, CacheMisses, SelfVerify, KiteKeyAccepted, KiteKeyRefused,
         NoCachePanics, ServeKite, LimitExceeded, HandlerReturns, HandlerFails,
         HandlerPanics, ChainEnds, CallFunc
<1> USE DEF Untouched, TypeOK, methodVars, chainVars
<1>1. CASE \/ Receive(r) \/ ParseFails(r) \/ FirstRequest(r) \/ FirstRequestHandled(r)
           \/ LaterRequest(r)
  BY <1>1 DEF Receive, ParseFails, FirstRequest, FirstRequestHandled, LaterRequest, Goto
<1>2. CASE SkipAuthentication(r) \/ TokenAccepted(r) \/ CacheTrusts(r) \/ CacheMisses(r)
  BY <1>2 DEF SkipAuthentication, TokenAccepted, CacheTrusts, CacheMisses, Goto
<1>3. CASE SelfVerify(r) \/ KiteKeyAccepted(r) \/ ServeKite(r)
  BY <1>3 DEF SelfVerify, KiteKeyAccepted, ServeKite, Goto
<1>4. CASE \/ NoAuthenticator(r) \/ TokenRefused(r) \/ CacheRefuses(r) \/ NoCachePanics(r)
           \/ KiteKeyRefused(r) \/ LimitExceeded(r) \/ HandlerPanics(r)
  BY <1>4 DEF NoAuthenticator, TokenRefused, CacheRefuses, NoCachePanics, KiteKeyRefused,
              LimitExceeded, HandlerPanics, Refuse, Goto
<1>5. CASE HandlerFails(r) \/ ChainEnds(r) \/ CallFunc(r)
  BY <1>5 DEF HandlerFails, ChainEnds, CallFunc, Goto
<1>6. ASSUME NEW v \in Values, HandlerReturns(r, v) PROVE UNCHANGED handling /\ Untouched(q)
  BY <1>6 DEF HandlerReturns
<1>7. QED
  BY <1>1, <1>2, <1>3, <1>4, <1>5, <1>6 DEF Step

LEMMA EmptyPrefix ==
    /\ Prefix(<<>>, 0) /\ Len(Chain) \in Nat /\ 0 \in 0..Len(Chain)
    /\ FirstValue(<<>>, 0, Nil)
<1>1. Len(Chain) \in Nat
  BY ChainFacts
<1>2. QED
  BY <1>1 DEF Prefix, FirstValue

(* A request that has called nothing goes on to a state before the chain. *)
LEMMA StillWaiting ==
    ASSUME TypeOK, NEW r \in Requests, Good(r), NEW from, NEW to, Goto(r, from, to),
           from \notin {"chain", "final", "done"}, to \notin {"chain", "final", "done"},
           UNCHANGED <<chainVars, answer>>
    PROVE  Good(r)'
<1>1. pc[r] = from /\ pc'[r] = to
  BY GotoEffect
<1>2. QED
  BY <1>1 DEF Good, Waiting, Running, Ending, Ended, chainVars

(* A request is refused, or a handler of it panics. *)
LEMMA RefuseGood ==
    ASSUME TypeOK, NEW r \in Requests, Good(r), NEW from, NEW error, Refuse(r, from, error),
           from \notin {"final", "done"}, error \notin Values,
           UNCHANGED chainVars
    PROVE  Good(r)'
<1>1. pc[r] = from /\ pc'[r] = "done" /\ answer'[r] = Append(answer[r], error)
  BY DEF Refuse, Goto, TypeOK
<1>2. answer[r] = <<>> /\ Prefix(ran[r], Len(ran[r]))
  <2>1. CASE from = "chain"
    BY <1>1, <2>1 DEF Good, Running
  <2>2. CASE from # "chain"
    <3>1. ran[r] = <<>> /\ answer[r] = <<>>
      BY <1>1, <2>2 DEF Good, Waiting
    <3>2. QED
      BY <3>1, EmptyPrefix
  <2>3. QED
    BY <2>1, <2>2
<1>3. answer'[r] = <<error>> /\ answer'[r][1] \notin Values /\ Len(answer'[r]) = 1
  BY <1>1, <1>2
<1>4. Len(ran[r]) \in 0..Len(Chain) /\ ran'[r] = ran[r]
  BY <1>2 DEF Prefix, chainVars
<1>5. \E n \in 0..Len(Chain) :
          /\ Prefix(ran'[r], n)
          /\ Len(ran'[r]) \in {n, n + Len(Finals)}
          /\ \A i \in 1..(Len(ran'[r]) - n) : ran'[r][n + i].handler = Finals[i]
  <2>1. Len(ran[r]) - Len(ran[r]) = 0
    BY <1>4, ChainFacts
  <2>2. \A i \in 1..0 : ran'[r][Len(ran[r]) + i].handler = Finals[i]
    OBVIOUS
  <2>3. QED
    BY <1>2, <1>4, <2>1, <2>2
<1>6. Ended(r)'
  BY <1>3, <1>5 DEF Ended
<1>7. QED
  BY <1>1, <1>6 DEF Good, Waiting, Running, Ending

LEMMA ServeGood ==
    ASSUME TypeOK, MethodInv, NEW r \in Requests, Good(r), ServeKite(r)
    PROVE  Good(r)'
<1>1. /\ pc[r] = "init" /\ pc'[r] = "chain" /\ queue'[r] = Append(Before, "handler")
      /\ UNCHANGED <<ran, firstResp, methodResp, resp, err, answer, handling>>
  BY InitMethodEffect DEF ServeKite, Goto, TypeOK
<1>2. ran[r] = <<>> /\ answer[r] = <<>> /\ ~err[r] /\ firstResp[r] = Nil
  BY <1>1 DEF Good, Waiting
<1>3. Len(ran[r]) = 0 /\ 0 < Base /\ Base \in Nat
  BY <1>2, ChainFacts
<1>4. /\ Len(queue'[r]) = Base /\ \A i \in 1..Base : queue'[r][i] = Chain[i]
  <2>1. Before \in Seq(Handlers) /\ "handler" \in Handlers
    BY ChainFacts DEF Handlers
  <2>2. /\ Len(queue'[r]) = Len(Before) + 1 /\ queue'[r][Len(Before) + 1] = "handler"
        /\ \A i \in 1..Len(Before) : queue'[r][i] = Before[i]
    BY <1>1, <2>1, AppendProperties
  <2>3. QED
    BY <2>1, <2>2, ChainFacts
<1>5. Running(r)'
  <2>1. \A i \in 1..Len(queue'[r]) : queue'[r][i] = Chain[0 + i]
    BY <1>3, <1>4
  <2>2. QED
    BY <1>1, <1>2, <1>3, <1>4, <2>1, EmptyPrefix DEF Running
<1>6. QED
  BY <1>1, <1>5 DEF Good, Waiting, Ending, Ended

(* One more call. *)
LEMMA AppendCall ==
    ASSUME NEW c \in Seq(Calls), NEW call \in Calls
    PROVE  /\ Append(c, call) \in Seq(Calls) /\ Len(c) \in Nat
           /\ Len(Append(c, call)) = Len(c) + 1 /\ Append(c, call)[Len(c) + 1] = call
           /\ \A i \in 1..Len(c) : Append(c, call)[i] = c[i]
  BY AppendProperties

LEMMA ConcatCalls ==
    ASSUME NEW s \in Seq(Calls), NEW t \in Seq(Calls)
    PROVE  /\ Len(s \o t) = Len(s) + Len(t)
           /\ \A i \in 1..Len(s) : (s \o t)[i] = s[i]
           /\ \A i \in 1..Len(t) : (s \o t)[Len(s) + i] = t[i]
  OBVIOUS

LEMMA PrefixAppend ==
    ASSUME NEW c \in Seq(Calls), NEW call \in Calls, Prefix(c, Len(c)),
           Len(c) < Len(Chain), call.handler = Chain[Len(c) + 1]
    PROVE  Prefix(Append(c, call), Len(c) + 1) /\ Len(c) + 1 \in 0..Len(Chain)
<1>1. PICK n \in Nat : n = Len(c)
  OBVIOUS
<1>2. PICK k \in Nat : k = Len(Chain)
  BY ChainFacts
<1>3. n + 1 \in 0..k
  BY <1>1, <1>2
<1>4. \A i \in 1..(n + 1) : Append(c, call)[i].handler = Chain[i]
  <2>1. \A i \in 1..n : c[i].handler = Chain[i]
    BY <1>1 DEF Prefix
  <2>2. QED
    BY <1>1, <2>1, AppendCall
<1>5. QED
  BY <1>1, <1>2, <1>3, <1>4, AppendCall DEF Prefix

LEMMA FirstAppend ==
    ASSUME NEW c \in Seq(Calls), NEW call \in Calls, NEW v, FirstValue(c, Len(c), v)
    PROVE  FirstValue(Append(c, call), Len(c) + 1,
                      IF call.value # Nil /\ v = Nil THEN call.value ELSE v)
<1> DEFINE d == Append(c, call)
<1>1. PICK n \in Nat : n = Len(c)
  OBVIOUS
<1>2. d[n + 1] = call /\ \A i \in 1..n : d[i] = c[i]
  BY <1>1, AppendCall
<1> HIDE DEF d
<1>3. CASE v # Nil
  <2>1. PICK i \in 1..n : /\ v = c[i].value /\ v # Nil
                          /\ \A j \in 1..(i - 1) : c[j].value = Nil
    BY <1>1, <1>3 DEF FirstValue
  <2>2. i \in 1..(n + 1) /\ v = d[i].value /\ \A j \in 1..(i - 1) : d[j].value = Nil
    BY <1>1, <1>2, <2>1
  <2>3. FirstValue(d, n + 1, v)
    BY <1>3, <2>2 DEF FirstValue
  <2>4. QED
    BY <1>1, <1>3, <2>3 DEF d
<1>4. CASE v = Nil /\ call.value # Nil
  <2>1. \A i \in 1..n : c[i].value = Nil
    BY <1>1, <1>4 DEF FirstValue
  <2>2. /\ n + 1 \in 1..(n + 1) /\ call.value = d[n + 1].value
        /\ \A j \in 1..(n + 1 - 1) : d[j].value = Nil
    BY <1>1, <1>2, <2>1
  <2>3. FirstValue(d, n + 1, call.value)
    BY <1>4, <2>2 DEF FirstValue
  <2>4. QED
    BY <1>1, <1>4, <2>3 DEF d
<1>5. CASE v = Nil /\ call.value = Nil
  <2>1. \A i \in 1..n : c[i].value = Nil
    BY <1>1, <1>5 DEF FirstValue
  <2>2. \A i \in 1..(n + 1) : d[i].value = Nil
    BY <1>1, <1>2, <1>5, <2>1
  <2>3. FirstValue(d, n + 1, v)
    BY <1>5, <2>2 DEF FirstValue
  <2>4. QED
    BY <1>1, <1>5, <2>3 DEF d
<1>6. QED
  BY <1>3, <1>4, <1>5

(* What is left to call once the first of it has been. *)
Left(n) == (IF n < Base THEN Base ELSE Len(Chain)) - n

LEMMA LeftFacts ==
    ASSUME NEW n \in Nat
    PROVE  /\ n + 1 = Base => Left(n) = 1 /\ Left(n + 1) = Len(After)
           /\ n + 1 # Base => Left(n + 1) = Left(n) - 1
<1>1. PICK b \in Nat : b = Base
  BY ChainFacts
<1>2. PICK k \in Nat : k = Len(Chain)
  BY ChainFacts
<1>3. PICK a \in Nat : a = Len(After)
  BY ChainFacts
<1>4. k = b + a
  BY <1>1, <1>2, <1>3, ChainFacts
<1>5. /\ Left(n) = (IF n < b THEN b ELSE k) - n
      /\ Left(n + 1) = (IF n + 1 < b THEN b ELSE k) - (n + 1)
  BY <1>1, <1>2 DEF Left
<1>6. CASE n + 1 < b
  BY <1>1, <1>5, <1>6
<1>7. CASE n + 1 = b
  BY <1>1, <1>3, <1>4, <1>5, <1>7
<1>8. CASE n + 1 > b
  BY <1>1, <1>5, <1>8
<1>9. QED
  BY <1>6, <1>7, <1>8

Rest(q) == Tail(q) \o (IF Head(q) = "handler" THEN After ELSE <<>>)

LEMMA QueueNext ==
    ASSUME NEW q \in Seq(AllHandlers), q # <<>>, NEW n \in 0..Len(Chain),
           Len(q) = Left(n), \A i \in 1..Len(q) : q[i] = Chain[n + i]
    PROVE  /\ n < Len(Chain) /\ Head(q) = Chain[n + 1]
           /\ Head(q) = "handler" <=> n + 1 = Base
           /\ Len(Rest(q)) = Left(n + 1)
           /\ \A i \in 1..Len(Rest(q)) : Rest(q)[i] = Chain[n + 1 + i]
<1> DEFINE rest == Rest(q)
<1>0. /\ n \in Nat /\ Base \in Nat \ {0} /\ Len(Chain) \in Nat /\ Len(After) \in Nat
      /\ Len(Chain) = Base + Len(After) /\ n <= Len(Chain)
  BY ChainFacts
<1>1. /\ Len(q) \in Nat \ {0} /\ Head(q) = q[1] /\ Tail(q) \in Seq(AllHandlers)
      /\ Len(Tail(q)) = Len(q) - 1
      /\ \A i \in 1..(Len(q) - 1) : Tail(q)[i] = q[i + 1]
  OBVIOUS
<1>2. n < Len(Chain) /\ Head(q) = Chain[n + 1]
  BY <1>0, <1>1 DEF Left
<1>3. Head(q) = "handler" <=> n + 1 = Base
  <2>1. CASE n + 1 < Base
    <3>1. n + 1 \in 1..Len(Before)
      BY <1>0, <2>1, ChainFacts
    <3>2. QED
      BY <1>2, <2>1, <3>1, <1>0, ChainFacts
  <2>2. CASE n + 1 = Base
    BY <1>2, <2>2, ChainFacts
  <2>3. CASE n + 1 > Base
    <3>1. n + 1 - Base \in 1..Len(After) /\ Base + (n + 1 - Base) = n + 1
      BY <1>0, <1>2, <2>3
    <3>2. Chain[n + 1] # "handler"
      BY <3>1, ChainFacts
    <3>3. QED
      BY <1>0, <1>2, <2>3, <3>2
  <2>4. QED
    BY <1>0, <2>1, <2>2, <2>3
<1>4. CASE n + 1 = Base
  <2>1. Len(q) = 1 /\ Len(Tail(q)) = 0
    <3>1. Len(q) = 1
      BY <1>0, <1>4, LeftFacts
    <3>2. QED
      BY <1>1, <3>1
  <2>2. Tail(q) = <<>>
    BY <1>1, <2>1, EmptySeq
  <2>3. After \in Seq(Handlers) /\ <<>> \o After = After
    BY ChainFacts, ConcatEmptySeq
  <2>4. rest = After
    BY <1>3, <1>4, <2>2, <2>3 DEF Rest
  <2>5. Len(rest) = Left(n + 1)
    BY <1>0, <1>4, <2>4, LeftFacts
  <2>6. \A i \in 1..Len(rest) : rest[i] = Chain[n + 1 + i]
    BY <1>4, <2>4, ChainFacts
  <2>7. QED
    BY <1>2, <1>3, <2>5, <2>6
<1>5. CASE n + 1 # Base
  <2>1. rest = Tail(q)
    <3>1. Tail(q) \o <<>> = Tail(q)
      BY <1>1, ConcatEmptySeq
    <3>2. QED
      BY <1>3, <1>5, <3>1 DEF Rest
  <2>2. Len(rest) = Left(n + 1)
    BY <1>0, <1>1, <1>5, <2>1, LeftFacts
  <2>3. ASSUME NEW i \in 1..Len(rest) PROVE rest[i] = Chain[n + 1 + i]
    <3>1. i \in 1..(Len(q) - 1) /\ i + 1 \in 1..Len(q) /\ n + (i + 1) = n + 1 + i
      BY <1>0, <1>1, <2>1, <2>3
    <3>2. QED
      BY <1>1, <2>1, <3>1
  <2>4. QED
    BY <1>2, <1>3, <2>2, <2>3
<1>6. QED
  BY <1>4, <1>5

(* What the chain of a request looks like to its next call. *)
LEMMA AtCall ==
    ASSUME TypeOK, MethodInv, NEW r \in Requests, Good(r), pc[r] = "chain"
    PROVE  /\ ran[r] \in Seq(Calls) /\ queue[r] \in Seq(AllHandlers)
           /\ Prefix(ran[r], Len(ran[r])) /\ Len(ran[r]) \in 0..Len(Chain)
           /\ Len(queue[r]) = Left(Len(ran[r]))
           /\ \A i \in 1..Len(queue[r]) : queue[r][i] = Chain[Len(ran[r]) + i]
           /\ ~err[r] /\ answer[r] = <<>> /\ post = After
<1>1. ran[r] \in Seq(Calls) /\ queue[r] \in Seq(AllHandlers)
  BY DEF TypeOK, Calls, AllHandlers
<1>2. /\ Prefix(ran[r], Len(ran[r])) /\ Len(ran[r]) \in 0..Len(Chain)
      /\ Len(queue[r]) = Left(Len(ran[r]))
      /\ \A i \in 1..Len(queue[r]) : queue[r][i] = Chain[Len(ran[r]) + i]
      /\ ~err[r] /\ answer[r] = <<>>
  BY DEF Good, Running, Left, Prefix
<1>3. post = After
  BY DEF MethodInv
<1>4. QED
  BY <1>1, <1>2, <1>3

LEMMA ReturnsGood ==
    ASSUME TypeOK, MethodInv, NEW r \in Requests, Good(r), NEW v \in Values,
           HandlerReturns(r, v)
    PROVE  Good(r)'
<1> DEFINE c == ran[r]
           n == Len(ran[r])
           h == Head(queue[r])
           call == [handler |-> h, value |-> v]
           rest == Rest(queue[r])
<1>1. /\ pc[r] = "chain" /\ pc'[r] = "chain" /\ queue[r] # <<>> /\ UNCHANGED <<handling, err, answer>>
  BY DEF HandlerReturns, methodVars
<1>2. /\ c \in Seq(Calls) /\ queue[r] \in Seq(AllHandlers)
      /\ Prefix(c, n) /\ n \in 0..Len(Chain) /\ Len(queue[r]) = Left(n)
      /\ \A i \in 1..Len(queue[r]) : queue[r][i] = Chain[n + i]
      /\ ~err[r] /\ answer[r] = <<>> /\ post = After
  BY <1>1, AtCall
<1>3. /\ ran'[r] = Append(c, call) /\ queue'[r] = rest /\ resp'[r] = v
      /\ methodResp'[r] = (IF h = "handler" THEN v ELSE methodResp[r])
      /\ firstResp'[r] = KeepFirst(h, v, firstResp[r])
  BY <1>2 DEF HandlerReturns, TypeOK, Rest
<1>4. /\ n < Len(Chain) /\ h = Chain[n + 1] /\ (h = "handler" <=> n + 1 = Base)
      /\ Len(rest) = Left(n + 1) /\ \A i \in 1..Len(rest) : rest[i] = Chain[n + 1 + i]
  <2>1. /\ queue[r] \in Seq(AllHandlers) /\ queue[r] # <<>> /\ n \in 0..Len(Chain)
        /\ Len(queue[r]) = Left(n) /\ \A i \in 1..Len(queue[r]) : queue[r][i] = Chain[n + i]
    BY <1>1, <1>2
  <2>2. QED
    BY <2>1, QueueNext
<1>5. call \in Calls /\ call.handler = h /\ call.value = v
  <2>1. h \in AllHandlers
    BY <1>1, <1>2
  <2>2. QED
    BY <2>1 DEF Calls
<1>6. /\ Len(ran'[r]) = n + 1 /\ ran'[r][n + 1] = call /\ n \in Nat
      /\ \A i \in 1..n : ran'[r][i] = c[i]
  BY <1>2, <1>3, <1>5, AppendCall
<1>7. Prefix(ran'[r], n + 1)
  BY <1>2, <1>3, <1>4, <1>5, PrefixAppend
<1>8. handling = "ReturnFirst" => FirstValue(ran'[r], n + 1, firstResp'[r])
  <2> SUFFICES ASSUME handling = "ReturnFirst" PROVE FirstValue(ran'[r], n + 1, firstResp'[r])
    OBVIOUS
  <2>1. FirstValue(c, n, firstResp[r])
    BY <1>1 DEF Good, Running
  <2>2. FirstValue(Append(c, call), n + 1,
                   IF call.value # Nil /\ firstResp[r] = Nil THEN call.value ELSE firstResp[r])
    BY <1>2, <1>5, <2>1, FirstAppend
  <2>3. firstResp'[r] = IF call.value # Nil /\ firstResp[r] = Nil THEN call.value ELSE firstResp[r]
    BY <1>3, <1>5 DEF KeepFirst
  <2>4. QED
    BY <1>3, <2>2, <2>3
<1>9. n + 1 >= Base => methodResp'[r] = ran'[r][Base].value
  <2>0. PICK b \in Nat \ {0} : b = Base
    BY ChainFacts
  <2>1. CASE n + 1 = Base
    BY <1>3, <1>4, <1>5, <1>6, <2>1
  <2>2. CASE n + 1 > Base
    <3>1. b \in 1..n /\ n >= b
      BY <1>6, <2>0, <2>2
    <3>2. methodResp[r] = c[Base].value
      BY <1>1, <2>0, <3>1 DEF Good, Running
    <3>3. methodResp'[r] = methodResp[r]
      BY <1>3, <1>4, <1>6, <2>0, <2>2
    <3>4. QED
      BY <1>6, <2>0, <3>1, <3>2, <3>3
  <2>3. QED
    BY <1>6, <2>0, <2>1, <2>2
<1> HIDE DEF rest, call, c, n, h
<1>10. Running(r)'
  <2>1. resp'[r] = ran'[r][n + 1].value
    BY <1>3, <1>5, <1>6
  <2>2. ~err'[r] /\ answer'[r] = <<>>
    BY <1>1, <1>2
  <2>3. /\ Len(queue'[r]) = (IF n + 1 < Base THEN Base ELSE Len(Chain)) - (n + 1)
        /\ \A i \in 1..Len(queue'[r]) : queue'[r][i] = Chain[n + 1 + i]
    BY <1>3, <1>4 DEF Left
  <2>4. handling' = "ReturnFirst" => FirstValue(ran'[r], n + 1, firstResp'[r])
    BY <1>1, <1>8
  <2>5. QED
    BY <1>6, <1>7, <1>9, <2>1, <2>2, <2>3, <2>4 DEF Running
<1>11. QED
  BY <1>1, <1>10 DEF Good, Waiting, Ending, Ended

LEMMA FailsGood ==
    ASSUME TypeOK, MethodInv, NEW r \in Requests, Good(r), HandlerFails(r)
    PROVE  Good(r)'
<1> DEFINE n == Len(ran[r])
           call == [handler |-> Head(queue[r]), value |-> "error"]
<1>1. /\ pc[r] = "chain" /\ pc'[r] = "final" /\ queue[r] # <<>> /\ answer' = answer
      /\ ran'[r] = Append(ran[r], call) /\ queue'[r] = Finals /\ err'[r]
  BY DEF HandlerFails, Goto, TypeOK
<1>2. /\ ran[r] \in Seq(Calls) /\ queue[r] \in Seq(AllHandlers)
      /\ Prefix(ran[r], n) /\ n \in 0..Len(Chain) /\ Len(queue[r]) = Left(n)
      /\ \A i \in 1..Len(queue[r]) : queue[r][i] = Chain[n + i]
      /\ answer[r] = <<>>
  BY <1>1, AtCall
<1>3. n < Len(Chain) /\ Head(queue[r]) = Chain[n + 1]
  BY <1>1, <1>2, QueueNext
<1>4. call \in Calls /\ call.handler = Chain[n + 1]
  BY <1>1, <1>2, <1>3 DEF Calls
<1>5. Prefix(ran'[r], n + 1) /\ Len(ran'[r]) = n + 1
  BY <1>1, <1>2, <1>3, <1>4, PrefixAppend, AppendCall
<1>6. Ending(r)'
  BY <1>1, <1>2, <1>5 DEF Ending
<1>7. QED
  BY <1>1, <1>6 DEF Good, Waiting, Running, Ended

LEMMA ChainEndsGood ==
    ASSUME TypeOK, MethodInv, NEW r \in Requests, Good(r), ChainEnds(r)
    PROVE  Good(r)'
<1>1. /\ pc[r] = "chain" /\ pc'[r] = "final" /\ queue[r] = <<>> /\ queue'[r] = Finals
      /\ UNCHANGED <<ran, err, answer, handling>>
  BY DEF ChainEnds, Goto, TypeOK, methodVars
<1>2. /\ Prefix(ran[r], Len(ran[r])) /\ Len(ran[r]) \in 0..Len(Chain)
      /\ Left(Len(ran[r])) = 0 /\ ~err[r] /\ answer[r] = <<>>
  BY <1>1, AtCall
<1>3. Len(ran[r]) = Len(Chain) /\ Len(Chain) >= Base /\ Len(Chain) > 0
  <2>1. PICK n \in Nat : n = Len(ran[r])
    BY <1>2, ChainFacts
  <2>2. PICK b \in Nat \ {0} : b = Base
    BY ChainFacts
  <2>3. PICK k \in Nat : k = Len(Chain)
    BY ChainFacts
  <2>4. k >= b
    BY <2>2, <2>3, ChainFacts
  <2>5. (IF n < b THEN b ELSE k) - n = 0
    BY <1>2, <2>1, <2>2, <2>3 DEF Left
  <2>6. QED
    BY <2>1, <2>2, <2>3, <2>4, <2>5
<1>4. IsPromised(ran[r], resp'[r])
  <2>1. CASE handling = "ReturnMethod"
    <3>1. resp'[r] = methodResp[r]
      BY <2>1 DEF ChainEnds, TypeOK
    <3>2. methodResp[r] = ran[r][Base].value
      BY <1>1, <1>3 DEF Good, Running
    <3>3. QED
      BY <2>1, <3>1, <3>2 DEF IsPromised
  <2>2. CASE handling = "ReturnFirst"
    <3>1. resp'[r] = firstResp[r]
      BY <2>2 DEF ChainEnds, TypeOK
    <3>2. FirstValue(ran[r], Len(Chain), firstResp[r])
      BY <1>1, <1>3, <2>2 DEF Good, Running
    <3>3. QED
      BY <2>2, <3>1, <3>2 DEF IsPromised
  <2>3. CASE handling = "ReturnLatest"
    <3>1. resp'[r] = resp[r]
      BY <2>3 DEF ChainEnds, TypeOK
    <3>2. resp[r] = ran[r][Len(Chain)].value
      BY <1>1, <1>3 DEF Good, Running
    <3>3. QED
      BY <2>3, <3>1, <3>2 DEF IsPromised
  <2>4. QED
    BY <2>1, <2>2, <2>3 DEF TypeOK
<1>5. Ending(r)'
  BY <1>1, <1>2, <1>3, <1>4 DEF Ending, IsPromised
<1>6. QED
  BY <1>1, <1>5 DEF Good, Waiting, Running, Ended

LEMMA CallFuncGood ==
    ASSUME TypeOK, MethodInv, NEW r \in Requests, Good(r), CallFunc(r)
    PROVE  Good(r)'
<1> DEFINE n == Len(ran[r])
           calls == [i \in 1..Len(Finals) |-> [handler |-> Finals[i], value |-> resp[r]]]
<1>1. /\ pc[r] = "final" /\ pc'[r] = "done" /\ UNCHANGED handling
      /\ ran'[r] = ran[r] \o [i \in 1..Len(queue[r]) |->
                               [handler |-> queue[r][i], value |-> resp[r]]]
      /\ answer'[r] = Append(answer[r], IF err[r] THEN "genericError" ELSE resp[r])
  BY DEF CallFunc, Goto, TypeOK, methodVars
<1>2. /\ queue[r] = Finals /\ answer[r] = <<>> /\ Prefix(ran[r], n) /\ n \in 0..Len(Chain)
      /\ ~err[r] => n = Len(Chain) /\ IsPromised(ran[r], resp[r])
  BY <1>1 DEF Good, Ending, Prefix
<1>3. ran'[r] = ran[r] \o calls
  BY <1>1, <1>2
<1>4. /\ ran[r] \in Seq(Calls) /\ calls \in Seq(Calls) /\ Len(calls) = Len(Finals)
      /\ Len(Finals) \in Nat /\ n \in Nat /\ resp[r] \in Values
      /\ \A i \in 1..Len(Finals) : calls[i].handler = Finals[i]
  <2>1. ran[r] \in Seq(Calls) /\ resp[r] \in Values /\ n \in Nat
    <3>1. ran[r] \in Seq(Calls)
      BY DEF TypeOK, Calls, AllHandlers
    <3>2. resp[r] \in Values
      BY DEF TypeOK
    <3>3. QED
      BY <3>1, <3>2
  <2>2. Finals \in Seq(AllHandlers) /\ Len(Finals) \in Nat
    BY ListsAreHandlers
  <2>3. ASSUME NEW i \in 1..Len(Finals)
        PROVE  [handler |-> Finals[i], value |-> resp[r]] \in Calls
    BY <2>1, <2>2 DEF Calls
  <2>4. calls \in Seq(Calls) /\ Len(calls) = Len(Finals)
    BY <2>2, <2>3
  <2>5. QED
    BY <2>1, <2>2, <2>4
<1> HIDE DEF calls
<1>5. /\ Len(ran'[r]) = n + Len(Finals) /\ \A i \in 1..n : ran'[r][i] = ran[r][i]
      /\ \A i \in 1..Len(Finals) : ran'[r][n + i].handler = Finals[i]
  <2>1. /\ Len(ran[r] \o calls) = n + Len(calls)
        /\ \A i \in 1..n : (ran[r] \o calls)[i] = ran[r][i]
        /\ \A i \in 1..Len(calls) : (ran[r] \o calls)[n + i] = calls[i]
    <3>1. ran[r] \in Seq(Calls) /\ calls \in Seq(Calls)
      BY <1>4
    <3>2. QED
      BY <3>1, ConcatCalls
  <2>2. QED
    BY <1>3, <1>4, <2>1
<1> HIDE DEF n
<1>6. Prefix(ran'[r], n)
  <2>1. n <= Len(ran'[r])
    BY <1>4, <1>5
  <2>2. \A i \in 1..n : ran[r][i].handler = Chain[i]
    BY <1>2 DEF Prefix
  <2>3. QED
    BY <1>2, <1>5, <2>1, <2>2 DEF Prefix
<1>7. \E m \in 0..Len(Chain) :
          /\ Prefix(ran'[r], m)
          /\ Len(ran'[r]) \in {m, m + Len(Finals)}
          /\ \A i \in 1..(Len(ran'[r]) - m) : ran'[r][m + i].handler = Finals[i]
  <2>1. Len(ran'[r]) - n = Len(Finals)
    BY <1>4, <1>5
  <2>2. QED
    BY <1>2, <1>5, <1>6, <2>1
<1>8. ASSUME answer'[r][1] \in Values
      PROVE  /\ Prefix(ran'[r], Len(Chain))
             /\ Len(ran'[r]) = Len(Chain) + Len(Finals)
             /\ \A i \in 1..Len(Finals) : ran'[r][Len(Chain) + i].handler = Finals[i]
             /\ IsPromised(ran[r], answer[r][1])'
  <2>1. ~err[r] /\ answer'[r][1] = resp[r]
    BY <1>1, <1>2, <1>8, ErrorsAreNoValues
  <2>2. n = Len(Chain) /\ IsPromised(ran[r], resp[r])
    BY <1>2, <2>1
  <2>3. /\ Prefix(ran'[r], Len(Chain)) /\ Len(ran'[r]) = Len(Chain) + Len(Finals)
        /\ \A i \in 1..Len(Finals) : ran'[r][Len(Chain) + i].handler = Finals[i]
        /\ \A i \in 1..Len(Chain) : ran'[r][i] = ran[r][i]
    BY <1>5, <1>6, <2>2
  <2>4. /\ Base \in 1..Len(Chain) /\ Len(Chain) \in 1..Len(Chain) /\ Len(Chain) \in Nat
    <3>1. PICK b \in Nat \ {0} : b = Base
      BY ChainFacts
    <3>2. PICK a \in Nat : a = Len(After)
      BY ChainFacts
    <3>3. Len(Chain) = b + a
      BY <3>1, <3>2, ChainFacts
    <3>4. QED
      BY <3>1, <3>2, <3>3
  <2>5. handling = "ReturnFirst" => FirstValue(ran'[r], Len(Chain), resp[r])
    <3>1. ASSUME NEW i \in 1..Len(Chain), NEW j \in 1..(i - 1) PROVE j \in 1..Len(Chain)
      BY <2>4
    <3> SUFFICES ASSUME handling = "ReturnFirst"
                 PROVE  FirstValue(ran'[r], Len(Chain), resp[r])
      OBVIOUS
    <3>2. FirstValue(ran[r], Len(Chain), resp[r])
      BY <2>2 DEF IsPromised
    <3>3. CASE resp[r] = Nil /\ \A i \in 1..Len(Chain) : ran[r][i].value = Nil
      BY <2>3, <3>3 DEF FirstValue
    <3>4. ASSUME NEW i \in 1..Len(Chain), resp[r] = ran[r][i].value, resp[r] # Nil,
                 \A j \in 1..(i - 1) : ran[r][j].value = Nil
          PROVE  FirstValue(ran'[r], Len(Chain), resp[r])
      BY <2>3, <3>1, <3>4 DEF FirstValue
    <3>5. QED
      BY <3>2, <3>3, <3>4 DEF FirstValue
  <2>6. IsPromised(ran[r], answer[r][1])'
    BY <1>1, <2>1, <2>2, <2>3, <2>4, <2>5 DEF IsPromised
  <2>7. QED
    BY <2>3, <2>6
<1>9. Ended(r)'
  <2>1. Len(answer'[r]) = 1
    BY <1>1, <1>2
  <2>2. QED
    BY <1>7, <1>8, <2>1 DEF Ended
<1>10. QED
  BY <1>1, <1>9 DEF Good, Waiting, Running, Ending

LEMMA ChainStep == TypeOK /\ MethodInv /\ ChainInv /\ [Next]_vars => ChainInv'
<1> SUFFICES ASSUME TypeOK, MethodInv, ChainInv, [Next]_vars PROVE ChainInv'
  OBVIOUS
<1>1. CASE FillBucket \/ UNCHANGED vars \/ \E k \in Keys : UpdateAuth(k) \/ CacheExpires(k)
  <2>1. UNCHANGED <<pc, chainVars, answer, handling>>
    BY <1>1 DEF FillBucket, UpdateAuth, CacheExpires, vars, methodVars
  <2>2. \A q \in Requests : Untouched(q)
    BY <2>1 DEF Untouched, chainVars
  <2>3. QED
    BY <2>1, <2>2, UntouchedGood DEF ChainInv
<1>2. ASSUME NEW r \in Requests, Receive(r) \/ ParseFails(r) \/ Step(r), Good(r)' PROVE ChainInv'
  <2>1. ASSUME NEW q \in Requests, q # r PROVE Good(q)'
    BY <1>2, <2>1, OthersUntouched, UntouchedGood DEF ChainInv
  <2>2. QED
    BY <1>2, <2>1 DEF ChainInv
<1>3. ASSUME NEW r \in Requests, Receive(r) \/ ParseFails(r) \/ Step(r) PROVE Good(r)'
  <2>0. Good(r)
    BY DEF ChainInv
  <2>1. CASE Refuses(r)
    <3>1. /\ UNCHANGED chainVars
          /\ \E from, error : /\ Refuse(r, from, error) /\ from \notin {"final", "done"}
                               /\ error \in {"authenticationError", "genericError"}
      BY <2>1 DEF Refuses, NoAuthenticator, TokenRefused, CacheRefuses, NoCachePanics,
                  HandlerPanics
    <3>2. QED
      BY <2>0, <3>1, RefuseGood, ErrorsAreNoValues
  <2>2. CASE KiteKeyRefused(r) \/ LimitExceeded(r)
    <3>1. /\ UNCHANGED chainVars
          /\ \E from, error : /\ Refuse(r, from, error) /\ from \notin {"final", "done"}
                               /\ error \in {"authenticationError", "requestLimitError"}
      BY <2>2 DEF KiteKeyRefused, LimitExceeded
    <3>2. QED
      BY <2>0, <3>1, RefuseGood, ErrorsAreNoValues
  <2>3. CASE Moves(r) \/ FirstRequest(r) \/ FirstRequestHandled(r)
    BY <2>0, <2>3, StillWaiting DEF Moves, Receive, ParseFails, LaterRequest, CacheMisses, FirstRequest,
                                    FirstRequestHandled
  <2>4. CASE Accepts(r)
    BY <2>0, <2>4, AcceptsAuth, StillWaiting
  <2>5. CASE SkipAuthentication(r) \/ SelfVerify(r) \/ KiteKeyAccepted(r)
    BY <2>0, <2>5, StillWaiting DEF SkipAuthentication, SelfVerify, KiteKeyAccepted
  <2>6. QED
    BY <1>3, <2>0, <2>1, <2>2, <2>3, <2>4, <2>5, StepKinds, ServeGood, ReturnsGood,
       FailsGood, ChainEndsGood, CallFuncGood DEF Calling
<1>4. QED
  BY <1>1, <1>2, <1>3 DEF Next

-----------------------------------------------------------------------------
LEMMA Invariance == Spec => []Inv
<1>1. Init => Inv
  <2> SUFFICES ASSUME Init PROVE Inv
    OBVIOUS
  <2>1. AuthInv /\ IdentityInv
    BY DEF Init, AuthInv, IdentityInv
  <2>2. MethodInv
    BY DEF Init, MethodInv
  <2>3. ChainInv
    BY DEF Init, ChainInv, Good, Waiting, Running, Ending, Ended
  <2>4. QED
    BY <2>1, <2>2, <2>3, TypeInit DEF Inv
<1>2. Inv /\ [Next]_vars => Inv'
  BY TypeStep, AuthStep, IdentityStep, MethodStep, ChainStep DEF Inv
<1>3. QED
  BY <1>1, <1>2, PTL DEF Spec

(* The variables of Request keep their types: only credentials that are    *)
(* there are verified, and an answer is a value of the chain or an error.  *)
THEOREM TypeCorrect == Spec => []TypeOK
<1>1. Inv => TypeOK
  BY DEF Inv
<1>2. QED
  BY <1>1, Invariance, PTL

(* Whatever requests authenticate at the same time, the key of kontrol     *)
(* changes and cached verdicts expire, a handler of a method that requires *)
(* authentication only runs for the user of a credential that has not      *)
(* expired, is signed with a key the kite has trusted and, if it is a      *)
(* token, comes from its kontrol and is meant for it (request.go:183-305). *)
THEOREM ServedIsAlwaysAuthentic == Spec => []ServedIsAuthentic
<1>1. Inv => ServedIsAuthentic
  BY DEF Inv, AuthInv, Authentic, Genuine, ServedIsAuthentic
<1>2. QED
  BY <1>1, Invariance, PTL

(* The name a client got from an authenticated request is not replaced by  *)
(* one that a concurrent request claims.                                   *)
THEOREM ClientAlwaysIdentified == Spec => []ClientIdentity
<1>1. Inv => ClientIdentity
  BY DEF Inv, IdentityInv, ClientIdentity
<1>2. QED
  BY <1>1, Invariance, PTL

-----------------------------------------------------------------------------
(* The answer. *)

LEMMA SameHandlers ==
    ASSUME NEW s \in Seq(AllHandlers), NEW t \in Seq(AllHandlers),
           Len(s) = Len(t), \A i \in 1..Len(s) : s[i] = t[i]
    PROVE  s = t
  BY SeqEqual

(* The handlers of a sequence of calls. *)
Names(c) == [i \in 1..Len(c) |-> c[i].handler]

LEMMA NamesFacts ==
    ASSUME NEW c \in Seq(Calls)
    PROVE  /\ Names(c) \in Seq(AllHandlers) /\ Len(Names(c)) = Len(c)
           /\ \A i \in 1..Len(c) : Names(c)[i] = c[i].handler
<1>1. ASSUME NEW i \in 1..Len(c) PROVE c[i].handler \in AllHandlers
  <2>1. c[i] \in Calls
    OBVIOUS
  <2>2. QED
    BY <2>1 DEF Calls
<1>2. QED
  BY <1>1 DEF Names

LEMMA CalledNames ==
    ASSUME TypeOK, NEW r \in Requests
    PROVE  /\ ran[r] \in Seq(Calls) /\ Called(r) = Names(ran[r])
           /\ Len(Chain) \in Nat /\ Len(Chain) \in 0..Len(Chain)
<1>1. ran[r] \in Seq(Calls)
  BY DEF TypeOK, Calls, AllHandlers
<1>2. Called(r) = Names(ran[r])
  BY DEF Called, Names
<1>3. Len(Chain) \in Nat
  BY ChainFacts
<1>4. QED
  BY <1>1, <1>2, <1>3

LEMMA ChainPrefix ==
    ASSUME NEW n \in 0..Len(Chain)
    PROVE  /\ SubSeq(Chain, 1, n) \in Seq(AllHandlers) /\ Len(SubSeq(Chain, 1, n)) = n
           /\ \A i \in 1..n : SubSeq(Chain, 1, n)[i] = Chain[i]
<1>1. Chain \in Seq(Handlers) /\ Len(Chain) \in Nat /\ n \in Nat /\ n <= Len(Chain)
  BY ChainFacts
<1>2. \A i \in 1..n : Chain[i] \in AllHandlers
  BY <1>1 DEF AllHandlers
<1>3. /\ SubSeq(Chain, 1, n) \in Seq(AllHandlers)
      /\ Len(SubSeq(Chain, 1, n)) = IF 1 <= n THEN n - 1 + 1 ELSE 0
      /\ \A i \in 1..(n - 1 + 1) : SubSeq(Chain, 1, n)[i] = Chain[1 + i - 1]
  BY <1>1, <1>2, SubSeqProperties
<1>4. QED
  BY <1>1, <1>3

LEMMA ConcatHandlers ==
    ASSUME NEW s \in Seq(AllHandlers), NEW t \in Seq(AllHandlers)
    PROVE  /\ s \o t \in Seq(AllHandlers) /\ Len(s \o t) = Len(s) + Len(t)
           /\ \A i \in 1..Len(s) : (s \o t)[i] = s[i]
           /\ \A i \in 1..Len(t) : (s \o t)[Len(s) + i] = t[i]
  OBVIOUS

(* A request whose chain was cut short, or has not yet come to its end. *)
LEMMA PrefixNames ==
    ASSUME NEW n \in 0..Len(Chain), NEW c \in Seq(Calls), Prefix(c, n), Len(c) = n
    PROVE  Names(c) = SubSeq(Chain, 1, n)
<1>1. \A i \in 1..n : c[i].handler = Chain[i]
  BY DEF Prefix
<1>2. QED
  BY <1>1, NamesFacts, ChainPrefix, SameHandlers

(* A request that has called the final functions too. *)
LEMMA FinalNames ==
    ASSUME NEW n \in 0..Len(Chain), NEW c \in Seq(Calls), Prefix(c, n),
           Len(c) = n + Len(Finals),
           \A i \in 1..Len(Finals) : c[n + i].handler = Finals[i]
    PROVE  Names(c) = SubSeq(Chain, 1, n) \o Finals
<1> DEFINE s == SubSeq(Chain, 1, n)
           t == s \o Finals
<1>1. s \in Seq(AllHandlers) /\ Len(s) = n /\ \A i \in 1..n : s[i] = Chain[i]
  BY ChainPrefix
<1>2. Finals \in Seq(AllHandlers) /\ Len(Finals) \in Nat
  BY ListsAreHandlers
<1> HIDE DEF s
<1>3. /\ t \in Seq(AllHandlers) /\ Len(t) = Len(s) + Len(Finals)
      /\ \A i \in 1..Len(s) : t[i] = s[i]
      /\ \A i \in 1..Len(Finals) : t[Len(s) + i] = Finals[i]
  BY <1>1, <1>2, ConcatHandlers
<1> HIDE DEF t
<1>4. \A i \in 1..n : c[i].handler = Chain[i]
  BY DEF Prefix
<1>5. n \in Nat
  BY ChainFacts
<1>6. ASSUME NEW i \in 1..Len(c) PROVE c[i].handler = t[i]
  <2>1. CASE i <= n
    BY <1>1, <1>3, <1>4, <1>5, <1>6, <2>1
  <2>2. CASE i > n
    <3>1. i - n \in 1..Len(Finals) /\ n + (i - n) = i
      BY <1>2, <1>5, <1>6, <2>2
    <3>2. QED
      BY <1>1, <1>3, <3>1
  <2>3. QED
    BY <1>5, <2>1, <2>2
<1>7. Names(c) = t
  BY <1>1, <1>3, <1>6, NamesFacts, SameHandlers
<1>8. QED
  BY <1>7 DEF t, s

LEMMA WholeChain == SubSeq(Chain, 1, Len(Chain)) = Chain
<1>1. Chain \in Seq(AllHandlers) /\ Len(Chain) \in Nat /\ Len(Chain) \in 0..Len(Chain)
  BY ChainFacts DEF AllHandlers
<1>2. QED
  BY <1>1, ChainPrefix, SameHandlers

(* The value that ReturnFirst keeps is the one of the first call with one. *)
LEMMA FirstIsMin ==
    ASSUME NEW r \in Requests, NEW v, FirstValue(ran[r], Len(Chain), v)
    PROVE  v = IF Some(r) = {} THEN Nil ELSE ran[r][Min(Some(r))].value
<1>0. Len(Chain) \in Nat
  BY ChainFacts
<1>1. CASE v = Nil /\ \A i \in 1..Len(Chain) : ran[r][i].value = Nil
  BY <1>1 DEF Some
<1>2. ASSUME NEW i \in 1..Len(Chain), v = ran[r][i].value, v # Nil,
             \A j \in 1..(i - 1) : ran[r][j].value = Nil
      PROVE  v = IF Some(r) = {} THEN Nil ELSE ran[r][Min(Some(r))].value
  <2>1. i \in Some(r) /\ Some(r) \subseteq Int
    BY <1>0, <1>2 DEF Some
  <2>2. \A y \in Some(r) : i <= y
    <3>1. ASSUME NEW y \in 1..Len(Chain), y < i PROVE y \in 1..(i - 1)
      BY <1>0, <3>1
    <3>2. QED
      BY <1>0, <1>2, <3>1 DEF Some
  <2>3. Min(Some(r)) \in Some(r) /\ \A y \in Some(r) : Min(Some(r)) <= y
    BY <2>1, <2>2 DEF Min
  <2>4. Min(Some(r)) = i
    BY <2>1, <2>2, <2>3
  <2>5. QED
    BY <1>2, <2>1, <2>4
<1>3. QED
  BY <1>1, <1>2 DEF FirstValue

LEMMA CalledInOrder ==
    ASSUME TypeOK, NEW r \in Requests, Good(r)
    PROVE  \E n \in 0..Len(Chain) :
              Called(r) \in {SubSeq(Chain, 1, n), SubSeq(Chain, 1, n) \o Finals}
<1>1. ran[r] \in Seq(Calls) /\ Called(r) = Names(ran[r]) /\ Len(Chain) \in Nat
  BY CalledNames
<1>2. \A n \in 0..Len(Chain) : Prefix(ran[r], n) /\ Len(ran[r]) = n =>
          Called(r) = SubSeq(Chain, 1, n)
  BY <1>1, PrefixNames
<1>3. CASE pc[r] \in {"chain", "final"}
  <2>1. Prefix(ran[r], Len(ran[r]))
    BY <1>3 DEF Good, Running, Ending
  <2>2. Len(ran[r]) \in 0..Len(Chain)
    BY <2>1 DEF Prefix
  <2>3. QED
    BY <1>2, <2>1, <2>2
<1>4. CASE pc[r] \notin {"chain", "final", "done"}
  <2>1. ran[r] = <<>> /\ Len(ran[r]) = 0 /\ 0 \in 0..Len(Chain)
    BY <1>1, <1>4 DEF Good, Waiting
  <2>2. Prefix(ran[r], 0)
    BY <2>1 DEF Prefix
  <2>3. QED
    BY <1>2, <2>1, <2>2
<1>5. CASE pc[r] = "done"
  <2>1. PICK n \in 0..Len(Chain) :
            /\ Prefix(ran[r], n)
            /\ Len(ran[r]) \in {n, n + Len(Finals)}
            /\ \A i \in 1..(Len(ran[r]) - n) : ran[r][n + i].handler = Finals[i]
    BY <1>5 DEF Good, Ended
  <2>2. CASE Len(ran[r]) = n
    BY <1>2, <2>1, <2>2
  <2>3. CASE Len(ran[r]) = n + Len(Finals)
    <3>1. Len(Finals) \in Nat /\ n \in Nat
      BY <1>1, ListsAreHandlers
    <3>2. Len(ran[r]) - n = Len(Finals)
      BY <2>3, <3>1
    <3>3. Called(r) = SubSeq(Chain, 1, n) \o Finals
      BY <1>1, <2>1, <2>3, <3>2, FinalNames
    <3>4. QED
      BY <3>3
  <2>4. QED
    BY <2>1, <2>2, <2>3
<1>6. QED
  BY <1>3, <1>4, <1>5

LEMMA AnswerFits ==
    ASSUME TypeOK, NEW r \in Requests, Good(r), pc[r] = "done", answer[r][1] \in Values
    PROVE  Called(r) = Chain \o Finals /\ answer[r][1] = Promised(r)
<1>1. /\ Prefix(ran[r], Len(Chain))
      /\ Len(ran[r]) = Len(Chain) + Len(Finals)
      /\ \A i \in 1..Len(Finals) : ran[r][Len(Chain) + i].handler = Finals[i]
      /\ IsPromised(ran[r], answer[r][1])
  BY DEF Good, Ended
<1>2. ran[r] \in Seq(Calls) /\ Called(r) = Names(ran[r]) /\ Len(Chain) \in 0..Len(Chain)
  BY CalledNames
<1>3. Called(r) = Chain \o Finals
  BY <1>1, <1>2, FinalNames, WholeChain
<1>4. CASE handling = "ReturnMethod"
  BY <1>1, <1>3, <1>4 DEF IsPromised, Promised
<1>5. CASE handling = "ReturnFirst"
  <2>1. FirstValue(ran[r], Len(Chain), answer[r][1])
    BY <1>1, <1>5 DEF IsPromised
  <2>2. Promised(r) = IF Some(r) = {} THEN Nil ELSE ran[r][Min(Some(r))].value
    BY <1>5 DEF Promised
  <2>3. QED
    BY <1>3, <2>1, <2>2, FirstIsMin
<1>6. CASE handling = "ReturnLatest"
  BY <1>1, <1>3, <1>6 DEF IsPromised, Promised
<1>7. QED
  BY <1>3, <1>4, <1>5, <1>6 DEF TypeOK

(* Every request runs a prefix of the chain of handlers, each once and in  *)
(* order, whoever initializes the method; a request that is answered with  *)
(* a value has run all of it and the final functions, and the value is the *)
(* one that the method's handling promises.                                *)
THEOREM AnswerAlwaysPromised == Spec => []AnswerIsPromised
<1>1. Inv => AnswerIsPromised
  BY CalledInOrder, AnswerFits DEF Inv, ChainInv, AnswerIsPromised
<1>2. QED
  BY <1>1, Invariance, PTL

-----------------------------------------------------------------------------
(* One answer. *)

(* Requests only wait for the first one while that is at work. *)
FirstInv == once = "running" => \E q \in Requests : pc[q] = "first"

LEMMA FirstStep == TypeOK /\ FirstInv /\ [Next]_vars => FirstInv'
<1> SUFFICES ASSUME TypeOK, FirstInv, [Next]_vars PROVE FirstInv'
  OBVIOUS
<1>1. CASE FillBucket \/ UNCHANGED vars \/ \E k \in Keys : UpdateAuth(k) \/ CacheExpires(k)
  BY <1>1 DEF FirstInv, FillBucket, UpdateAuth, CacheExpires, vars, connVars
<1>2. ASSUME NEW r \in Requests, Receive(r) \/ ParseFails(r) \/ Step(r) PROVE FirstInv'
  <2>1. CASE FirstRequest(r)
    BY <2>1 DEF FirstRequest, Goto, TypeOK, FirstInv
  <2>2. CASE FirstRequestHandled(r)
    BY <2>2 DEF FirstRequestHandled, FirstInv
  <2>3. ASSUME once' = once, pc[r] # "first" PROVE FirstInv'
    BY <1>2, <2>3, OthersUntouched DEF FirstInv, Untouched
  <2>4. CASE Refuses(r) \/ KiteKeyRefused(r) \/ LimitExceeded(r)
    <3>1. once' = once
      BY <2>4 DEF Refuses, NoAuthenticator, TokenRefused, CacheRefuses, NoCachePanics,
                  HandlerPanics, KiteKeyRefused, LimitExceeded, connVars
    <3>2. pc[r] # "first"
      BY <2>4 DEF Refuses, NoAuthenticator, TokenRefused, CacheRefuses, NoCachePanics,
                  HandlerPanics, KiteKeyRefused, LimitExceeded, Refuse, Goto
    <3>3. QED
      BY <2>3, <3>1, <3>2
  <2>5. CASE Moves(r)
    BY <2>3, <2>5 DEF Moves, Receive, ParseFails, LaterRequest, CacheMisses, Goto, connVars
  <2>6. CASE SkipAuthentication(r) \/ SelfVerify(r) \/ ServeKite(r)
    BY <2>3, <2>6 DEF SkipAuthentication, SelfVerify, ServeKite, Goto, connVars
  <2>7. CASE Accepts(r) \/ KiteKeyAccepted(r)
    BY <2>3, <2>7 DEF Accepts, TokenAccepted, CacheTrusts, KiteKeyAccepted, Accept, Goto,
                      connVars
  <2>8. CASE Calling(r)
    BY <2>3, <2>8 DEF Calling, HandlerReturns, HandlerFails, ChainEnds, CallFunc, Goto,
                      connVars
  <2>9. QED
    BY <1>2, <2>1, <2>2, <2>4, <2>5, <2>6, <2>7, <2>8, StepKinds
<1>3. QED
  BY <1>1, <1>2 DEF Next

(* A request has one answer when its runMethod is over and none before,    *)
(* the process only ends for a request whose argument does not parse, and  *)
(* a request that sync.Once holds up has another to wait for.              *)
OneAnswer ==
    /\ \A r \in Requests :
          /\ Len(answer[r]) = IF pc[r] = "done" THEN 1 ELSE 0
          /\ pc[r] = "crashed" => auth[r] = NoOptions
    /\ once = "running" => \E q \in Requests : pc[q] = "first"

(* runMethod answers a request exactly once (request.go:62-113, with its   *)
(* deferred recover), whether it is refused, answered by a handler or      *)
(* ended by a panic, and whatever the other requests do; the one request   *)
(* without an answer is one whose argument is no options object: it ends   *)
(* the process (request.go:75, 138), against the comment at request.go:68. *)
(* What Answered says, but for the fairness that makes every request end.  *)
THEOREM AnsweredOnce == Spec => []OneAnswer
<1>1. Init => FirstInv
  BY DEF Init, FirstInv
<1>2. Inv /\ FirstInv => OneAnswer
  <2> SUFFICES ASSUME Inv, NEW r \in Requests
               PROVE  Len(answer[r]) = IF pc[r] = "done" THEN 1 ELSE 0
    BY DEF OneAnswer, FirstInv, Inv, AuthInv
  <2>1. Good(r)
    BY DEF Inv, ChainInv
  <2>2. CASE pc[r] = "done"
    BY <2>1, <2>2 DEF Good, Ended
  <2>3. CASE pc[r] # "done"
    <3>1. answer[r] = <<>>
      BY <2>1, <2>3 DEF Good, Waiting, Running, Ending
    <3>2. QED
      BY <2>3, <3>1
  <2>4. QED
    BY <2>2, <2>3
<1>3. Inv => TypeOK
  BY DEF Inv
<1>4. QED
  BY <1>1, <1>2, <1>3, Invariance, FirstStep, PTL DEF Spec

-----------------------------------------------------------------------------
(***************************************************************************)
(* Queries: what Storage.Get finds, and the audience of the tokens that    *)
(* come with it.                                                           *)
(***************************************************************************)

(* The process under an ID that is listed has been started, with this ID. *)
RunInv ==
    /\ \A i \in IDs : running[i] # Absent => running[i].id = i
    /\ \A k \in listed \cup found : running[k.id] # Absent
    /\ client # Absent => running[client.kite.id] # Absent

(* The client's request, and the kites that have been listed since. *)
AskedInv ==
    phase # "idle" =>
        /\ request.query \in [Fields -> STRING]
        /\ request.method = "getToken" =>
              client # Absent /\ \A f \in Fields \ {"id"} : request.query[f] = NotGiven
        /\ phase # "answered" => steady \subseteq listed

Sent(q) == IF HasVersionConstraint(q) THEN NameQuery(q) ELSE q

(* The path Etcd.Get is about to read. *)
KeyedInv ==
    phase = "keyed" =>
        /\ storage = "etcd"
        /\ \/ OnlyIDQuery(request.query) /\ key = StoredUnderID
           \/ /\ GetQueryKey(request.query) # <<>>
              /\ key = GetQueryKey(Sent(request.query))

(* A kite that was found has the user, the environment and the name that   *)
(* were asked for.                                                         *)
Named(k, q) == \A f \in {"username", "environment", "name"} : q[f] \in {NotGiven, k[f]}
FoundInv == phase = "answered" => \A k \in found : Named(k, request.query)

(* An audience the kite accepts, but for a missing user. *)
Suits(k, aud) ==
    \/ aud = <<NotGiven>>
    \/ /\ Len(aud) \in 1..3
       /\ aud[1] = k.username \/ (aud[1] = NotGiven /\ Len(aud) > 1)
       /\ Len(aud) > 1 => aud[2] \in {NotGiven, k.environment}
       /\ Len(aud) > 2 => aud[3] \in {NotGiven, k.name}
SuitsInv == client # Absent => Suits(client.kite, client.audience)

QueryInv ==
    /\ QueryTypeOK /\ RunInv /\ AskedInv /\ KeyedInv /\ FoundInv /\ SuitsInv
    /\ AnswerExact

-----------------------------------------------------------------------------
(* Fields and paths. *)

Strings == [Fields -> STRING]

LEMMA FieldNames ==
    /\ DOMAIN keyOrder = 1..7
    /\ Fields = {"username", "environment", "name", "version", "region", "hostname", "id"}
    /\ \A i \in 1..7 : keyOrder[i] \in Fields
    /\ \A f \in Fields : \E i \in 1..7 : f = keyOrder[i]
<1>1. DOMAIN keyOrder = 1..7
  BY DEF keyOrder
<1>2. Fields = {keyOrder[i] : i \in 1..7}
  BY <1>1 DEF Fields, Range
<1>3. {keyOrder[i] : i \in 1..7} =
          {"username", "environment", "name", "version", "region", "hostname", "id"}
  BY DEF keyOrder
<1>4. QED
  BY <1>1, <1>2, <1>3

LEMMA PathValues ==
    ASSUME NEW q \in Strings
    PROVE  /\ Path(q) \in Seq(STRING) /\ Len(Path(q)) = 7
           /\ \A i \in 1..7 : Path(q)[i] = q[keyOrder[i]]
           /\ Path(q)[1] = q.username /\ Path(q)[2] = q.environment
           /\ Path(q)[3] = q.name /\ Path(q)[4] = q.version
           /\ Path(q)[5] = q.region /\ Path(q)[6] = q.hostname
           /\ Path(q)[7] = q.id
<1>1. Path(q) = [i \in 1..7 |-> q[keyOrder[i]]]
  BY FieldNames DEF Path
<1>2. \A i \in 1..7 : q[keyOrder[i]] \in STRING
  BY FieldNames DEF Strings
<1>3. Path(q) \in Seq(STRING) /\ Len(Path(q)) = 7
  BY <1>1, <1>2
<1>4. \A i \in 1..7 : Path(q)[i] = q[keyOrder[i]]
  BY <1>1
<1>5. QED
  BY <1>3, <1>4 DEF keyOrder

LEMMA FirstGiven ==
    ASSUME NEW s, NEW e, \A i, j \in 1..7 : i < j /\ s[j] # e => s[i] # e
    PROVE  \E n \in 0..7 : \A i \in 1..7 : s[i] # e <=> i <= n
<1> DEFINE P(n) == \A i \in 1..7 : s[i] # e <=> i <= n
<1>1. ASSUME NEW n \in 1..6, s[n] # e, s[n + 1] = e PROVE P(n)
  <2>1. ASSUME NEW i \in 1..7, i <= n PROVE s[i] # e
    BY <1>1, <2>1
  <2>2. ASSUME NEW i \in 1..7, ~(i <= n) PROVE s[i] = e
    <3>1. i = n + 1 \/ n + 1 < i
      BY <2>2
    <3>2. n + 1 \in 1..7
      OBVIOUS
    <3>3. QED
      BY <1>1, <3>1, <3>2
  <2>3. QED
    BY <2>1, <2>2
<1>2. s[1] = e => P(0)
  <2>1. ASSUME s[1] = e, NEW i \in 1..7 PROVE s[i] = e
    BY <2>1
  <2>2. QED
    BY <2>1
<1>3. s[7] # e => P(7)
  <2>1. ASSUME s[7] # e, NEW i \in 1..7 PROVE s[i] # e
    BY <2>1
  <2>2. QED
    BY <2>1
<1> HIDE DEF P
<1>4. \/ s[1] = e \/ s[7] # e \/ \E n \in 1..6 : s[n] # e /\ s[n + 1] = e
  <2>1. SUFFICES ASSUME s[1] # e, \A n \in 1..6 : s[n] # e => s[n + 1] # e PROVE s[7] # e
    OBVIOUS
  <2>2. s[2] # e
    BY <2>1
  <2>3. s[3] # e
    BY <2>1, <2>2
  <2>4. s[4] # e
    BY <2>1, <2>3
  <2>5. s[5] # e
    BY <2>1, <2>4
  <2>6. s[6] # e
    BY <2>1, <2>5
  <2>7. QED
    BY <2>1, <2>6
<1>5. \E n \in 0..7 : P(n)
  BY <1>1, <1>2, <1>3, <1>4
<1>6. QED
  BY <1>5 DEF P

(* Without a gap the fields that are given are the first ones. *)
LEMMA GivenFirst ==
    ASSUME NEW q \in Strings, ~Gap(q)
    PROVE  /\ Given(q) \in 0..7
           /\ \A i \in 1..7 : Path(q)[i] # NotGiven <=> i <= Given(q)
<1> DEFINE P(n) == \A i \in 1..7 : Path(q)[i] # NotGiven <=> i <= n
<1>0. DOMAIN keyOrder = 1..7
  BY FieldNames
<1>1. \A i, j \in 1..7 : i < j /\ Path(q)[j] # NotGiven => Path(q)[i] # NotGiven
  BY <1>0, Zenon DEF Gap
<1>2. \E n \in 0..7 : P(n)
  BY <1>1, FirstGiven, Zenon
<1>3. Given(q) = CHOOSE n \in 0..7 : P(n)
  BY <1>0 DEF Given
<1>4. QED
  BY <1>2, <1>3

LEMMA PrefixMeans ==
    ASSUME NEW k \in Strings, NEW q \in Strings, NEW n \in 0..7
    PROVE  IsPrefix(SubSeq(Path(q), 1, n), Path(k)) <=>
               \A i \in 1..n : Path(q)[i] = Path(k)[i]
<1> DEFINE a == Path(q)
           b == Path(k)
           s == SubSeq(a, 1, n)
           t == SubSeq(b, 1, n)
<1>0. ASSUME NEW c \in Seq(STRING), Len(c) = 7
      PROVE  /\ SubSeq(c, 1, n) \in Seq(STRING) /\ Len(SubSeq(c, 1, n)) = n
             /\ \A i \in 1..n : SubSeq(c, 1, n)[i] = c[i]
  <2>1. n \in Nat /\ \A i \in 1..n : i \in 1..Len(c)
    BY <1>0
  <2>2. SubSeq(c, 1, n) = [i \in 1..n |-> c[i]]
    BY <2>1
  <2>3. \A i \in 1..n : c[i] \in STRING
    BY <2>1
  <2>4. QED
    BY <2>1, <2>2, <2>3
<1>1. a \in Seq(STRING) /\ Len(a) = 7 /\ b \in Seq(STRING) /\ Len(b) = 7
  BY PathValues
<1> HIDE DEF a, b
<1>2. s \in Seq(STRING) /\ Len(s) = n /\ \A i \in 1..n : s[i] = a[i]
  BY <1>0, <1>1, Zenon
<1>3. t \in Seq(STRING) /\ Len(t) = n /\ \A i \in 1..n : t[i] = b[i]
  BY <1>0, <1>1, Zenon
<1>4. SubSeq(s, 1, Len(s)) = s
  <2> HIDE DEF s
  <2>1. QED
    BY <1>2
<1>5. IsPrefix(s, b) <=> s = t
  BY <1>1, <1>2, <1>4 DEF IsPrefix
<1>6. s = t <=> \A i \in 1..n : s[i] = t[i]
  <2> HIDE DEF s, t
  <2>1. QED
    BY <1>2, <1>3
<1>7. QED
  BY <1>2, <1>3, <1>5, <1>6 DEF a, b

LEMMA KeyGiven ==
    ASSUME NEW q \in Strings
    PROVE  GetQueryKey(q) # <<>> <=> q.username # NotGiven /\ ~Gap(q)
<1>1. ASSUME q.username # NotGiven, ~Gap(q) PROVE GetQueryKey(q) # <<>>
  <2>1. Path(q)[1] # NotGiven /\ 1 \in 1..7
    BY <1>1, PathValues
  <2>2. 1 <= Given(q) /\ Given(q) \in 0..7
    BY <1>1, <2>1, GivenFirst
  <2>3. Path(q) \in Seq(STRING) /\ Len(Path(q)) = 7
    BY PathValues
  <2>4. Len(SubSeq(Path(q), 1, Given(q))) = Given(q)
    BY <2>2, <2>3
  <2>5. SubSeq(Path(q), 1, Given(q)) # <<>>
    <3> DEFINE s == SubSeq(Path(q), 1, Given(q))
    <3>1. Len(s) # 0
      BY <2>2, <2>4
    <3> HIDE DEF s
    <3>2. s # <<>>
      BY <3>1
    <3>3. QED
      BY <3>2 DEF s
  <2>6. QED
    BY <1>1, <2>5 DEF GetQueryKey
<1>2. QED
  BY <1>1 DEF GetQueryKey

(* What a path reads are the kites with the fields that are given. *)
LEMMA KeyMeans ==
    ASSUME NEW q \in Strings, NEW k \in Strings, GetQueryKey(q) # <<>>
    PROVE  IsPrefix(GetQueryKey(q), Path(k)) <=>
               \A f \in Fields : q[f] \in {NotGiven, k[f]}
<1> DEFINE n == Given(q)
<1>1. q.username # NotGiven /\ ~Gap(q)
  BY KeyGiven
<1>2. n \in 0..7 /\ \A i \in 1..7 : Path(q)[i] # NotGiven <=> i <= n
  BY <1>1, GivenFirst
<1>3. GetQueryKey(q) = SubSeq(Path(q), 1, n)
  BY <1>1 DEF GetQueryKey
<1> HIDE DEF n
<1>4. IsPrefix(GetQueryKey(q), Path(k)) <=>
          \A i \in 1..n : Path(q)[i] = Path(k)[i]
  BY <1>2, <1>3, PrefixMeans
<1>5. (\A i \in 1..n : Path(q)[i] = Path(k)[i]) <=>
          \A i \in 1..7 : Path(q)[i] \in {NotGiven, Path(k)[i]}
  <2>1. \A i \in 1..n : i \in 1..7 /\ i <= n
    BY <1>2
  <2>2. \A i \in 1..7 : i <= n => i \in 1..n
    BY <1>2
  <2>3. QED
    BY <1>2, <2>1, <2>2, Zenon
<1>6. (\A i \in 1..7 : Path(q)[i] \in {NotGiven, Path(k)[i]}) <=>
          \A f \in Fields : q[f] \in {NotGiven, k[f]}
  <2>1. \A i \in 1..7 : /\ Path(q)[i] = q[keyOrder[i]]
                        /\ Path(k)[i] = k[keyOrder[i]]
    BY PathValues
  <2>2. /\ \A i \in 1..7 : keyOrder[i] \in Fields
        /\ \A f \in Fields : \E i \in 1..7 : f = keyOrder[i]
    BY FieldNames
  <2>3. QED
    BY <2>1, <2>2, Zenon
<1>7. QED
  BY <1>4, <1>5, <1>6, Zenon

LEMMA NameStrings ==
    ASSUME NEW q \in Strings
    PROVE  /\ NameQuery(q) \in Strings
           /\ \A f \in {"username", "environment", "name"} : NameQuery(q)[f] = q[f]
           /\ \A f \in Fields \ {"username", "environment", "name"} :
                 NameQuery(q)[f] = NotGiven
<1>1. \A f \in Fields : q[f] \in STRING
  BY DEF Strings
<1>2. QED
  BY <1>1, FieldNames, QueryAssumption DEF Strings, NameQuery

(* A query with a version constraint has the fields before the version. *)
LEMMA NameKey ==
    ASSUME NEW q \in Strings, GetQueryKey(q) # <<>>,
           HasVersionConstraint(q)
    PROVE  GetQueryKey(NameQuery(q)) # <<>>
<1> DEFINE m == NameQuery(q)
<1>1. q.username # NotGiven /\ ~Gap(q)
  BY KeyGiven
<1>2. q.version # NotGiven
  BY QueryAssumption DEF HasVersionConstraint
<1>3. q.environment # NotGiven /\ q.name # NotGiven
  <2>1. \A i \in 1..7 : i < 4 => Path(q)[i] # NotGiven
    <3>1. 4 \in 1..7 /\ Path(q)[4] # NotGiven /\ DOMAIN keyOrder = 1..7
      BY <1>2, PathValues, FieldNames
    <3>2. QED
      BY <1>1, <3>1, Zenon DEF Gap
  <2>2. Path(q)[2] # NotGiven /\ Path(q)[3] # NotGiven
    BY <2>1
  <2>3. QED
    BY <2>2, PathValues
<1>4. /\ m \in Strings
      /\ m.username = q.username /\ m.environment = q.environment /\ m.name = q.name
      /\ m.version = NotGiven /\ m.region = NotGiven
      /\ m.hostname = NotGiven /\ m.id = NotGiven
  BY NameStrings, FieldNames
<1> HIDE DEF m
<1>5. ~Gap(m)
  <2>1. /\ Path(m)[1] # NotGiven /\ Path(m)[2] # NotGiven
        /\ Path(m)[3] # NotGiven
        /\ \A i \in 1..7 : i > 3 => Path(m)[i] = NotGiven
    BY <1>1, <1>3, <1>4, PathValues
  <2>2. \A i, j \in 1..7 : i < j /\ Path(m)[i] = NotGiven
                              => Path(m)[j] = NotGiven
    BY <2>1
  <2>3. DOMAIN keyOrder = 1..7
    BY FieldNames
  <2>4. QED
    BY <2>2, <2>3, Zenon DEF Gap
<1>6. QED
  BY <1>1, <1>4, <1>5, KeyGiven DEF m

(* What is left of the fields after the version ends with one that is      *)
(* given.                                                                  *)
LEMMA LastGiven ==
    ASSUME NEW a \in Seq(STRING), Len(a) = 3, NEW e
    PROVE  \E n \in 0..3 : (\A i \in n + 1..3 : a[i] = e) /\ (n # 0 => a[n] # e)
<1>1. CASE a[3] # e
  <2>1. \A i \in 3 + 1..3 : a[i] = e
    OBVIOUS
  <2>2. QED
    BY <1>1, <2>1
<1>2. CASE a[3] = e /\ a[2] # e
  <2>1. \A i \in 2 + 1..3 : a[i] = e
    BY <1>2
  <2>2. QED
    BY <1>2, <2>1
<1>3. CASE a[3] = e /\ a[2] = e /\ a[1] # e
  <2>1. \A i \in 1 + 1..3 : a[i] = e
    BY <1>3
  <2>2. QED
    BY <1>3, <2>1
<1>4. CASE a[3] = e /\ a[2] = e /\ a[1] = e
  <2>1. \A i \in 0 + 1..3 : a[i] = e
    BY <1>4
  <2>2. QED
    BY <2>1
<1>5. QED
  BY <1>1, <1>2, <1>3, <1>4

LEMMA AfterValues ==
    ASSUME NEW q \in Strings
    PROVE  /\ AfterVersion(q) \in Seq(STRING) /\ Len(AfterVersion(q)) = 3
           /\ \A i \in 1..3 : AfterVersion(q)[i] = Path(q)[i + 4]
<1>1. ASSUME NEW c \in Seq(STRING), Len(c) = 7
      PROVE  /\ SubSeq(c, 5, 7) \in Seq(STRING) /\ Len(SubSeq(c, 5, 7)) = 3
             /\ \A i \in 1..3 : SubSeq(c, 5, 7)[i] = c[i + 4]
  <2>1. SubSeq(c, 5, 7) = [i \in 1..3 |-> c[i + 4]]
    BY <1>1
  <2>2. \A i \in 1..3 : c[i + 4] \in STRING
    <3>1. \A i \in 1..3 : i + 4 \in 1..Len(c)
      BY <1>1
    <3>2. \A j \in 1..Len(c) : c[j] \in STRING
      OBVIOUS
    <3>3. QED
      BY <3>1, <3>2, Zenon
  <2>3. QED
    BY <2>1, <2>2
<1>2. QED
  BY <1>1, PathValues, Zenon DEF AfterVersion

LEMMA PartLength ==
    ASSUME NEW a \in Seq(STRING), Len(a) = 3, NEW n \in 0..3
    PROVE  /\ Len(SubSeq(a, 1, n)) = n /\ DOMAIN SubSeq(a, 1, n) = 1..n
           /\ SubSeq(a, 1, n) # <<>> <=> n # 0
           /\ \A i \in 1..n : SubSeq(a, 1, n)[i] = a[i]
<1>1. SubSeq(a, 1, n) = [i \in 1..n |-> a[i]]
  OBVIOUS
<1>2. Len(SubSeq(a, 1, n)) = n /\ SubSeq(a, 1, n) \in Seq(STRING)
  <2>1. n \in Nat /\ \A i \in 1..n : i \in 1..Len(a)
    OBVIOUS
  <2>2. \A i \in 1..n : a[i] \in STRING
    BY <2>1
  <2>3. QED
    BY <1>1, <2>1, <2>2
<1> DEFINE s == SubSeq(a, 1, n)
<1> HIDE DEF s
<1>3. Len(s) = n /\ s \in Seq(STRING)
  BY <1>2 DEF s
<1>4. s # <<>> <=> n # 0
  BY <1>3
<1>5. QED
  BY <1>1, <1>2, <1>4 DEF s

LEMMA RestGiven ==
    ASSUME NEW q \in Strings
    PROVE  \E n \in 0..3 : /\ KeyRest(q) = SubSeq(AfterVersion(q), 1, n)
                           /\ n # 0 => AfterVersion(q)[n] # NotGiven
<1> DEFINE a == AfterVersion(q)
           P(s) == /\ \A i \in Len(s) + 1..3 : a[i] = NotGiven
                   /\ s # <<>> => Last(s) # NotGiven
<1>1. a \in Seq(STRING) /\ Len(a) = 3
  BY AfterValues
<1>2. KeyRest(q) = CHOOSE s \in {SubSeq(a, 1, n) : n \in 0..3} : P(s)
  BY DEF KeyRest
<1> HIDE DEF a
<1>3. PICK n \in 0..3 : (\A i \in n + 1..3 : a[i] = NotGiven) /\ (n # 0 => a[n] # NotGiven)
  BY <1>1, LastGiven
<1>4. P(SubSeq(a, 1, n))
  <2>1. n # 0 => n \in 1..n
    OBVIOUS
  <2>2. QED
    BY <1>1, <1>3, <2>1, PartLength DEF Last
<1>5. P(KeyRest(q)) /\ KeyRest(q) \in {SubSeq(a, 1, j) : j \in 0..3}
  <2> HIDE DEF P
  <2>1. \E s \in {SubSeq(a, 1, j) : j \in 0..3} : P(s)
    BY <1>4
  <2>2. QED
    BY <1>2, <2>1, Zenon
<1>6. PICK j \in 0..3 : KeyRest(q) = SubSeq(a, 1, j)
  BY <1>5
<1>7. j # 0 => a[j] # NotGiven
  <2>1. j # 0 => j \in 1..j
    OBVIOUS
  <2>2. QED
    BY <1>1, <1>5, <1>6, <2>1, PartLength DEF Last
<1>8. QED
  BY <1>6, <1>7 DEF a

(* The filter keeps a kite that matches. *)
LEMMA FilterKeeps ==
    ASSUME NEW q \in Strings, NEW k \in Strings, ~Gap(q),
           HasVersionConstraint(q), Matches(k, q),
           k.version \in Satisfying[q.version]
    PROVE  IsValid(k, q)
<1>1. PICK n \in 0..3 : /\ KeyRest(q) = SubSeq(AfterVersion(q), 1, n)
                        /\ n # 0 => AfterVersion(q)[n] # NotGiven
  BY RestGiven
<1>2. ASSUME NEW i \in 1..n PROVE AfterVersion(q)[i] = AfterVersion(k)[i]
  <2>1. i \in 1..3 /\ n \in 1..3 /\ i + 4 \in 1..7 /\ n + 4 \in 1..7
    OBVIOUS
  <2>2. Path(q)[n + 4] # NotGiven
    BY <1>1, <2>1, AfterValues
  <2>3. Path(q)[i + 4] # NotGiven
    <3>1. \A x, y \in 1..7 : x < y /\ Path(q)[y] # NotGiven
                                => Path(q)[x] # NotGiven
      <4>1. DOMAIN keyOrder = 1..7
        BY FieldNames
      <4>2. QED
        BY <4>1, Zenon DEF Gap
    <3>2. i + 4 = n + 4 \/ i + 4 < n + 4
      OBVIOUS
    <3>3. QED
      BY <2>1, <2>2, <3>1, <3>2
  <2>4. keyOrder[i + 4] # "version"
    BY <2>1 DEF keyOrder
  <2>5. /\ keyOrder[i + 4] \in Fields
        /\ Path(q)[i + 4] = q[keyOrder[i + 4]]
        /\ Path(k)[i + 4] = k[keyOrder[i + 4]]
    BY <2>1, PathValues, FieldNames
  <2>6. Path(q)[i + 4] = Path(k)[i + 4]
    BY <2>3, <2>4, <2>5, Zenon DEF Matches
  <2>7. QED
    BY <2>1, <2>6, AfterValues
<1>3. /\ DOMAIN KeyRest(q) = 1..n
      /\ \A i \in 1..n : KeyRest(q)[i] = AfterVersion(q)[i]
  BY <1>1, AfterValues, PartLength
<1>4. QED
  BY <1>2, <1>3 DEF IsValid, HasPrefix

-----------------------------------------------------------------------------
(* The invariant of the queries. *)

LEMMA KiteStrings ==
    /\ Kites \subseteq Strings /\ Queries \subseteq Strings
    /\ \A k \in Kites : k.id \in IDs
  BY QueryAssumption DEF Strings, IDs

LEMMA QueryInvInit == ASSUME QueryInit PROVE QueryInv
<1>1. QueryTypeOK
  BY DEF QueryInit, QueryTypeOK, NoRequest
<1>2. QED
  BY <1>1 DEF QueryInit, QueryInv, RunInv, AskedInv, KeyedInv, FoundInv, SuitsInv,
              AnswerExact

LEMMA KitesKeepQuery ==
    ASSUME QueryInv, NEW k \in Kites,
           Run(k) \/ Register(k) \/ Expire(k)
    PROVE  QueryInv'
<1> USE DEF QueryInv
<1>1. UNCHANGED <<storage, phase, request, key, found, client>>
  BY DEF Run, Register, Expire, kiteVars, requestVars
<1>2. KeyedInv' /\ FoundInv' /\ SuitsInv'
  BY <1>1 DEF KeyedInv, FoundInv, SuitsInv
<1>3. steady' \subseteq steady
  BY DEF Run, Register, Expire, kiteVars, requestVars
<1>4. AnswerExact'
  BY <1>1, <1>3 DEF AnswerExact, Answerable
<1>5. k \in Strings /\ k.id \in IDs /\ k # Absent
  BY KiteStrings, QueryAssumption
<1>6. running' \in [IDs -> Kites \cup {Absent}] /\ listed' \subseteq Kites
  BY <1>5 DEF Run, Register, Expire, QueryTypeOK, Upsert,
              kiteVars
<1>7. QueryTypeOK'
  BY <1>1, <1>3, <1>6 DEF QueryTypeOK
<1>8. steady \subseteq listed => steady' \subseteq listed'
  BY DEF Run, Register, Expire, Upsert
<1>9. AskedInv'
  BY <1>1, <1>8 DEF AskedInv
<1>10. /\ \A i \in IDs : running[i] # Absent => running'[i] # Absent
       /\ \A i \in IDs : running'[i] # Absent => running'[i].id = i
  <2>1. CASE Run(k)
    BY <1>5, <2>1 DEF Run, QueryTypeOK, RunInv
  <2>2. CASE Register(k) \/ Expire(k)
    BY <2>2 DEF Register, Expire, kiteVars, RunInv
  <2>3. QED
    BY <2>1, <2>2
<1>11. \A l \in listed' : running'[l.id] # Absent
  <2>1. \A l \in listed : running'[l.id] # Absent
    BY <1>10, KiteStrings DEF RunInv, QueryTypeOK
  <2>2. CASE Register(k)
    BY <1>5, <2>1, <2>2 DEF Register, Upsert, kiteVars
  <2>3. CASE Run(k) \/ Expire(k)
    BY <2>1, <2>3 DEF Run, Expire
  <2>4. QED
    BY <2>2, <2>3
<1>12. \A l \in found' : running'[l.id] # Absent
  BY <1>1, <1>10, KiteStrings DEF RunInv, QueryTypeOK
<1>13. client' # Absent => running'[client'.kite.id] # Absent
  <2>1. client # Absent => client.kite \in Kites
    BY DEF QueryTypeOK, Token
  <2>2. QED
    BY <1>1, <1>10, <2>1, KiteStrings DEF RunInv
<1>14. RunInv'
  BY <1>10, <1>11, <1>12, <1>13 DEF RunInv
<1>15. QED
  BY <1>2, <1>4, <1>7, <1>9, <1>14

LEMMA AskKeepsQuery ==
    ASSUME QueryInv,
           RenewToken \/ \E q \in Queries : GetKites(q)
    PROVE  QueryInv'
<1> USE DEF QueryInv
<1>1. ASSUME NEW q \in Strings, NEW method \in {"getKites", "getToken"},
             Ask(method, q),
             method = "getToken" =>
                 client # Absent /\ \A f \in Fields \ {"id"} : q[f] = NotGiven
      PROVE  QueryInv'
  <2>1. /\ phase' = "asked" /\ request' = [method |-> method, query |-> q]
        /\ steady' = listed
        /\ UNCHANGED <<storage, running, listed, key, found, client>>
    BY <1>1 DEF Ask, kiteVars
  <2>2. QueryTypeOK'
    BY <2>1 DEF QueryTypeOK
  <2>3. RunInv' /\ SuitsInv'
    BY <2>1 DEF RunInv, SuitsInv
  <2>4. AskedInv'
    BY <1>1, <2>1 DEF AskedInv, Strings
  <2>5. QED
    BY <2>1, <2>2, <2>3, <2>4 DEF KeyedInv, FoundInv, AnswerExact
<1>2. ASSUME NEW q \in Queries, GetKites(q) PROVE QueryInv'
  BY <1>1, <1>2, KiteStrings DEF GetKites
<1>3. CASE RenewToken
  <2> DEFINE q == [f \in Fields |-> IF f = "id" THEN client.kite.id ELSE NotGiven]
  <2>1. client # Absent /\ Ask("getToken", q)
    BY <1>3 DEF RenewToken
  <2>2. client.kite \in Strings
    BY <2>1, KiteStrings DEF QueryTypeOK, Token
  <2>3. client.kite.id \in STRING
    BY <2>2, FieldNames DEF Strings
  <2>4. q \in Strings
    BY <2>3, QueryAssumption DEF Strings
  <2>5. \A f \in Fields \ {"id"} : q[f] = NotGiven
    OBVIOUS
  <2> HIDE DEF q
  <2>6. QED
    BY <1>1, <2>1, <2>4, <2>5
<1>4. QED
  BY <1>2, <1>3

(* What an answer must be. *)
Exact(kites, q) ==
    Answerable(q) =>
        /\ {k \in steady : Matches(k, q)} \subseteq kites
        /\ ~HasVersionConstraint(q) => \A k \in kites : Matches(k, q)

LEMMA AnswerKeepsQuery ==
    ASSUME QueryInv, NEW kites, kites \subseteq listed, Answer(kites),
           phase \in {"asked", "keyed"}, Exact(kites, request.query),
           \A k \in kites : Named(k, request.query)
    PROVE  QueryInv'
<1> USE DEF QueryInv
<1>1. /\ phase' = "answered" /\ found' = kites
      /\ UNCHANGED <<storage, running, listed, request, steady, client>>
  BY DEF Answer, kiteVars
<1>2. QueryTypeOK'
  BY <1>1 DEF QueryTypeOK
<1>3. RunInv' /\ SuitsInv'
  BY <1>1 DEF RunInv, SuitsInv
<1>4. AskedInv'
  BY <1>1 DEF AskedInv
<1>5. AnswerExact'
  BY <1>1 DEF Exact, AnswerExact, Answerable
<1>6. QED
  BY <1>1, <1>2, <1>3, <1>4, <1>5 DEF KeyedInv, FoundInv

(* A query that is sent up to the name asks for the same names. *)
LEMMA SentNames ==
    ASSUME NEW q \in Strings
    PROVE  /\ Sent(q) \in Strings
           /\ \A f \in {"username", "environment", "name"} : Sent(q)[f] = q[f]
           /\ \A k : (\A f \in Fields : Sent(q)[f] \in {NotGiven, k[f]})
                        => Named(k, q)
           /\ \A k : Matches(k, q) =>
                        \A f \in Fields : Sent(q)[f] \in {NotGiven, k[f]}
<1>0. {"username", "environment", "name"} \subseteq Fields
  BY FieldNames
<1>1. CASE HasVersionConstraint(q)
  <2>1. Sent(q) = NameQuery(q)
    BY <1>1 DEF Sent
  <2>2. \A f \in {"username", "environment", "name"} : f # "version"
    OBVIOUS
  <2>3. QED
    BY <1>0, <2>1, <2>2, NameStrings DEF Named, Matches
<1>2. CASE ~HasVersionConstraint(q)
  BY <1>0, <1>2 DEF Sent, Named, Matches
<1>3. QED
  BY <1>1, <1>2

(* A kite that matches a version constraint passes the filter. *)
LEMMA MatchPasses ==
    ASSUME NEW q \in Strings, NEW k \in Kites, ~Gap(q),
           HasVersionConstraint(q), Matches(k, q)
    PROVE  IsValid(k, q)
<1>1. "version" \in Fields /\ k \in Strings
  BY FieldNames, KiteStrings
<1>2. k.version \in Satisfying[q.version]
  BY <1>1, QueryAssumption DEF HasVersionConstraint, Matches
<1>3. QED
  BY <1>1, <1>2, FilterKeeps

LEMMA NotUnderValue ==
    ASSUME NEW k \in Kites
    PROVE  ~IsPrefix(StoredUnderID, Path(k))
<1>1. k \in Strings /\ k.username # RegisterValue
  BY KiteStrings, QueryAssumption
<1>2. /\ Path(k) \in Seq(STRING) /\ Len(Path(k)) = 7
      /\ Path(k)[1] # RegisterValue
  BY <1>1, PathValues
<1> DEFINE p == Path(k)
<1> HIDE DEF p
<1>3. p \in Seq(STRING) /\ Len(p) = 7 /\ p[1] # RegisterValue
  BY <1>2 DEF p
<1>4. Len(<<RegisterValue>>) = 1 /\ SubSeq(<<RegisterValue>>, 1, 1)[1] = RegisterValue
  OBVIOUS
<1>5. SubSeq(p, 1, 1)[1] = p[1]
  BY <1>3
<1>6. ~IsPrefix(<<RegisterValue>>, p)
  BY <1>3, <1>4, <1>5 DEF IsPrefix
<1>7. QED
  BY <1>6 DEF p, StoredUnderID

LEMMA EtcdKeepsQuery ==
    ASSUME QueryInv,
           EtcdIDKey \/ EtcdQueryKey \/ EtcdGet
    PROVE  QueryInv'
<1> DEFINE q == request.query
<1>1. phase \in {"asked", "keyed"} /\ storage = "etcd"
  BY DEF EtcdIDKey, EtcdQueryKey, EtcdGet, QueryInv, KeyedInv
<1>2. q \in Strings
  BY <1>1 DEF QueryInv, AskedInv, Strings
<1>3. OnlyIDQuery(q) => GetQueryKey(q) = <<>>
  BY FieldNames DEF OnlyIDQuery, GetQueryKey
<1>4. ASSUME Answer({}), GetQueryKey(q) = <<>> \/ q.version \in Malformed
      PROVE  QueryInv'
  <2>1. Exact({}, q)
    BY <1>1, <1>4 DEF Exact, Answerable
  <2>2. QED
    BY <1>1, <1>4, <2>1, AnswerKeepsQuery
<1>5. ASSUME phase' = "keyed",
             UNCHANGED <<storage, running, listed, request, found, steady, client>>,
             \/ OnlyIDQuery(q) /\ key' = StoredUnderID
             \/ GetQueryKey(q) # <<>> /\ key' = GetQueryKey(Sent(q)),
             phase = "asked"
      PROVE  QueryInv'
  <2>1. QueryTypeOK' /\ RunInv' /\ SuitsInv'
    BY <1>5 DEF QueryInv, QueryTypeOK, RunInv, SuitsInv
  <2>2. AskedInv'
    BY <1>5 DEF QueryInv, AskedInv
  <2>3. KeyedInv'
    BY <1>1, <1>5 DEF KeyedInv
  <2>4. QED
    BY <1>5, <2>1, <2>2, <2>3 DEF QueryInv, FoundInv, AnswerExact
<1>6. CASE EtcdIDKey
  BY <1>3, <1>4, <1>5, <1>6 DEF EtcdIDKey, kiteVars
<1>7. CASE EtcdQueryKey
  BY <1>4, <1>5, <1>7 DEF EtcdQueryKey, kiteVars, Sent
<1>8. CASE EtcdGet
  <2> DEFINE under == Under(key)
             kites == IF HasVersionConstraint(q) THEN Filter(under, q) ELSE under
  <2>1. Answer(kites) /\ phase = "keyed"
    BY <1>8 DEF EtcdGet
  <2>2. listed \subseteq Kites /\ Kites \subseteq Strings /\ steady \subseteq listed
    BY <2>1, KiteStrings DEF QueryInv, QueryTypeOK, AskedInv
  <2>3. under \subseteq listed /\ kites \subseteq under
    BY DEF Under, Filter
  <2>4. CASE OnlyIDQuery(q) /\ key = StoredUnderID
    <3>1. under = {}
      BY <2>2, <2>4, NotUnderValue DEF Under
    <3>2. kites = {}
      BY <2>3, <3>1
    <3>3. QED
      BY <1>3, <1>4, <2>1, <2>4, <3>2
  <2>5. CASE GetQueryKey(q) # <<>> /\ key = GetQueryKey(Sent(q))
    <3>1. Sent(q) \in Strings /\ GetQueryKey(Sent(q)) # <<>>
      BY <1>2, <2>5, NameKey, SentNames DEF Sent
    <3>2. \A k \in listed :
              k \in under <=> \A f \in Fields : Sent(q)[f] \in {NotGiven, k[f]}
      BY <2>2, <2>5, <3>1, KeyMeans DEF Under
    <3>3. \A k \in under : Named(k, q)
      BY <1>2, <2>3, <3>2, SentNames
    <3>4. \A k \in steady : Matches(k, q) => k \in kites
      <4>1. ASSUME NEW k \in steady, Matches(k, q) PROVE k \in under /\ k \in Kites
        BY <1>2, <2>2, <3>2, <4>1, SentNames
      <4>2. ~Gap(q)
        BY <1>2, <2>5, KeyGiven
      <4>3. QED
        BY <1>2, <4>1, <4>2, MatchPasses DEF Filter
    <3>5. ~HasVersionConstraint(q) => \A k \in kites : Matches(k, q)
      BY <2>3, <3>2 DEF Sent, Matches
    <3> HIDE DEF kites, under
    <3>6. Exact(kites, q)
      BY <3>4, <3>5 DEF Exact
    <3>7. kites \subseteq listed /\ \A k \in kites : Named(k, q)
      BY <2>3, <3>3
    <3>8. QED
      BY <2>1, <3>6, <3>7, AnswerKeepsQuery
  <2>6. QED
    BY <2>1, <2>4, <2>5 DEF QueryInv, KeyedInv
<1>9. QED
  BY <1>6, <1>7, <1>8

LEMMA PostgresKeepsQuery ==
    ASSUME QueryInv, PostgresGet PROVE QueryInv'
<1> DEFINE q == request.query
           rows == SelectQuery(Sent(q))
<1>1. phase = "asked"
  BY DEF PostgresGet
<1>2. q \in Strings
  BY <1>1 DEF QueryInv, AskedInv, Strings
<1>3. listed \subseteq Kites /\ steady \subseteq listed
  BY <1>1 DEF QueryInv, QueryTypeOK, AskedInv
<1>4. /\ rows \subseteq listed
      /\ \A k \in listed :
            k \in rows <=> \A f \in Fields : Sent(q)[f] \in {NotGiven, k[f]}
  BY DEF SelectQuery
<1>5. \/ Answer({}) /\ (Empty(Sent(q)) \/ q.version \in Malformed)
      \/ Answer(Filter(rows, q)) /\ HasVersionConstraint(q)
      \/ Answer(rows)
  BY DEF PostgresGet, Sent
<1> HIDE DEF rows
<1>6. \A k \in rows : Named(k, q)
  BY <1>2, <1>4, SentNames
<1>7. \A k \in steady : Matches(k, q) => k \in rows
  BY <1>2, <1>3, <1>4, SentNames
<1>8. CASE Answer({}) /\ (Empty(Sent(q)) \/ q.version \in Malformed)
  <2>1. Empty(Sent(q)) => q.username = NotGiven
    <3>1. Sent(q)["username"] = q["username"] /\ "username" \in Fields
      BY <1>2, SentNames, FieldNames
    <3>2. QED
      BY <3>1 DEF Empty
  <2>2. ~Answerable(q)
    BY <1>8, <2>1 DEF Answerable, GetQueryKey, Sent
  <2>3. Exact({}, q)
    BY <2>2 DEF Exact
  <2>4. QED
    BY <1>1, <1>8, <2>3, AnswerKeepsQuery
<1>9. CASE Answer(Filter(rows, q)) /\ HasVersionConstraint(q)
  <2>1. Answerable(q) => ~Gap(q)
    BY <1>2, <1>9, KeyGiven DEF Answerable
  <2>2. Exact(Filter(rows, q), q)
    BY <1>2, <1>3, <1>7, <1>9, <2>1, MatchPasses DEF Exact, Filter
  <2>3. Filter(rows, q) \subseteq rows
    BY DEF Filter
  <2>4. QED
    BY <1>1, <1>4, <1>6, <1>9, <2>2, <2>3, AnswerKeepsQuery
<1>10. CASE Answer(rows)
  <2>1. ~HasVersionConstraint(q) => \A k \in rows : Matches(k, q)
    BY <1>4 DEF Sent, Matches
  <2>2. Exact(rows, q)
    BY <1>7, <2>1 DEF Exact
  <2>3. QED
    BY <1>1, <1>4, <1>6, <1>10, <2>2, AnswerKeepsQuery
<1>11. QED
  BY <1>5, <1>8, <1>9, <1>10

(* The audience of the token suits every kite that was found. *)
LEMMA AudienceSuits ==
    ASSUME NEW q \in Strings, NEW k \in Strings, Named(k, q)
    PROVE  /\ GetAudience(q) \in Seq(STRING)
           /\ Suits(k, GetAudience(q))
<1>1. /\ q.username \in STRING /\ q.environment \in STRING /\ q.name \in STRING
  BY FieldNames DEF Strings
<1>2. /\ q.username \in {NotGiven, k.username}
      /\ q.environment \in {NotGiven, k.environment}
      /\ q.name \in {NotGiven, k.name}
  BY DEF Named
<1>3. CASE q.name # NotGiven
  <2>1. GetAudience(q) = <<q.username, q.environment, q.name>>
    BY <1>3 DEF GetAudience
  <2>2. QED
    BY <1>1, <1>2, <2>1 DEF Suits
<1>4. CASE q.name = NotGiven /\ q.environment # NotGiven
  <2>1. GetAudience(q) = <<q.username, q.environment>>
    BY <1>4 DEF GetAudience
  <2>2. QED
    BY <1>1, <1>2, <2>1 DEF Suits
<1>5. CASE q.name = NotGiven /\ q.environment = NotGiven
  <2>1. GetAudience(q) = <<q.username>>
    BY <1>5 DEF GetAudience
  <2>2. QED
    BY <1>1, <1>2, <2>1 DEF Suits
<1>6. QED
  BY <1>3, <1>4, <1>5

LEMMA ClientKeepsQuery ==
    ASSUME QueryInv,
           TakeKite \/ TakeToken \/ CloseClient
    PROVE  QueryInv'
<1>1. phase' = "idle" /\ UNCHANGED <<storage, running, listed>>
  BY DEF TakeKite, TakeToken, CloseClient, Done, kiteVars,
         requestVars
<1>2. AskedInv' /\ KeyedInv' /\ FoundInv' /\ AnswerExact'
  BY <1>1 DEF AskedInv, KeyedInv, FoundInv, AnswerExact
<1>3. /\ found' \subseteq found /\ steady' \subseteq steady
      /\ request'.method \in {"none", "getKites", "getToken"}
  BY DEF TakeKite, TakeToken, CloseClient, Done, NoRequest,
         requestVars, QueryInv, QueryTypeOK
<1>4. ASSUME \/ client' = Absent \/ client' = client
             \/ /\ client' \in Token /\ Suits(client'.kite, client'.audience)
                /\ running[client'.kite.id] # Absent
      PROVE  QueryInv'
  <2>1. QueryTypeOK'
    BY <1>1, <1>3, <1>4 DEF QueryInv, QueryTypeOK
  <2>2. RunInv' /\ SuitsInv'
    BY <1>1, <1>3, <1>4 DEF QueryInv, RunInv, SuitsInv
  <2>3. QED
    BY <1>2, <2>1, <2>2 DEF QueryInv
<1>5. CASE CloseClient
  BY <1>4, <1>5 DEF CloseClient
<1>6. CASE TakeKite
  <2>1. CASE found = {}
    BY <1>4, <1>6, <2>1 DEF TakeKite
  <2>2. CASE found # {}
    <3>1. PICK k \in found :
              client' = [kite |-> k, audience |-> GetAudience(request.query)]
      BY <1>6, <2>2 DEF TakeKite
    <3>2. phase = "answered" /\ request.query \in Strings
      BY <1>6 DEF TakeKite, QueryInv, AskedInv, Strings
    <3>3. k \in Kites /\ k \in Strings /\ Named(k, request.query) /\ running[k.id] # Absent
      BY <3>2, KiteStrings DEF QueryInv, FoundInv, QueryTypeOK, RunInv
    <3>4. /\ GetAudience(request.query) \in Seq(STRING)
          /\ Suits(k, GetAudience(request.query))
      BY <3>2, <3>3, AudienceSuits
    <3>5. client' \in Token /\ client'.kite = k
          /\ client'.audience = GetAudience(request.query)
      BY <3>1, <3>3, <3>4 DEF Token
    <3>6. QED
      BY <1>4, <3>3, <3>4, <3>5
  <2>3. QED
    BY <2>1, <2>2
<1>7. CASE TakeToken
  <2>1. CASE client' = client
    BY <1>4, <2>1
  <2>2. CASE client' = [client EXCEPT !.audience = GetAudience(request.query)]
    <3>1. /\ client # Absent /\ request.query \in Strings
          /\ \A f \in Fields \ {"id"} : request.query[f] = NotGiven
      BY <1>7 DEF TakeToken, QueryInv, AskedInv, Strings
    <3>2. client \in Token /\ running[client.kite.id] # Absent
      BY <3>1 DEF QueryInv, QueryTypeOK, RunInv
    <3>3. client.kite \in Strings
      BY <3>2, KiteStrings DEF Token
    <3>4. Named(client.kite, request.query)
      BY <3>1, FieldNames DEF Named
    <3>5. /\ GetAudience(request.query) \in Seq(STRING)
          /\ Suits(client.kite, GetAudience(request.query))
      BY <3>1, <3>3, <3>4, AudienceSuits
    <3>6. /\ client' \in Token /\ client'.kite = client.kite
          /\ client'.audience = GetAudience(request.query)
      BY <2>2, <3>2, <3>5 DEF Token
    <3>7. QED
      BY <1>4, <3>2, <3>5, <3>6
  <2>3. QED
    BY <1>7, <2>1, <2>2 DEF TakeToken
<1>8. QED
  BY <1>5, <1>6, <1>7

LEMMA QueryInvariance == QuerySpec => []QueryInv
<1>1. QueryInit => QueryInv
  BY QueryInvInit
<1>2. QueryInv /\ UNCHANGED queryVars => QueryInv'
  BY DEF QueryInv, queryVars, kiteVars, requestVars, QueryTypeOK, RunInv,
         AskedInv, KeyedInv, FoundInv, SuitsInv, AnswerExact, Answerable
<1>3. QueryInv /\ QueryNext => QueryInv'
  BY KitesKeepQuery, AskKeepsQuery, EtcdKeepsQuery, PostgresKeepsQuery, ClientKeepsQuery
     DEF QueryNext
<1>4. QED
  BY <1>1, <1>2, <1>3, PTL DEF QuerySpec

(* Storage.Get of either storage finds the kites that match an answerable  *)
(* query and were listed all along, for every set of kites and of queries, *)
(* whatever registers or expires meanwhile (kontrol/etcd.go, postgres.go). *)
THEOREM AnswerAlwaysExact ==
    QuerySpec => []AnswerExact
<1>1. QueryInv => AnswerExact
  BY DEF QueryInv
<1>2. QED
  BY <1>1, QueryInvariance, PTL

(* getAudience and verifyAudience agree for every set of kites and of      *)
(* queries: the process that runs under the ID of the client's kite, which *)
(* may have been started again with another version, accepts the audience  *)
(* of the client's token (kontrol/handlers.go, request.go).                *)
THEOREM TokenAlwaysFitsKite ==
    QuerySpec => []TokenFits
<1>1. QueryInv => TokenFits
  <2> SUFFICES ASSUME QueryInv, client # Absent,
                      Len(client.audience) > 1 => client.audience[1] # NotGiven
               PROVE  verifyAudience(running[client.kite.id], client.audience)
    BY DEF TokenFits, Fits
  <2> DEFINE k == client.kite
             r == running[k.id]
             aud == client.audience
  <2>1. k \in Kites /\ aud \in Seq(STRING)
    BY DEF QueryInv, QueryTypeOK, Token
  <2>2. r \in Kites /\ r.id = k.id
    BY <2>1, KiteStrings DEF QueryInv, QueryTypeOK, RunInv
  <2>3. r.username = k.username /\ r.environment = k.environment /\ r.name = k.name
    BY <2>1, <2>2, QueryAssumption
  <2>4. Suits(k, aud)
    BY DEF QueryInv, SuitsInv
  <2> HIDE DEF k, r
  <2>5. QED
    BY <2>1, <2>3, <2>4 DEF Suits, verifyAudience, r, k
<1>2. QED
  BY <1>1, QueryInvariance, PTL
=============================================================================
