------------------------------- MODULE Request -------------------------------
(***************************************************************************)
(* How a kite serves the method calls of one connection (request.go,       *)
(* method.go): runMethod in a goroutine per request, the first-request     *)
(* handlers, authentication by token or kite key with the cache of         *)
(* verified kontrol keys, the throttle, and the chain of pre-handlers,     *)
(* handler, post-handlers and final functions.                             *)
(*                                                                         *)
(* A key is a kontrol key.  A token, or a kite key, which names its key,   *)
(* has an RSA signature made with it or not (signed).  Handlers are the    *)
(* environment: each call returns nil, a value or an error, or panics; the *)
(* final functions pass the result on.  A request whose argument is no     *)
(* options object (NoOptions in place of its credential) ends the process. *)
(***************************************************************************)
EXTENDS Naturals, Sequences, SequencesExt

CONSTANTS
    Requests, Keys, None,
    NoOptions,      \* in place of a credential: the argument does not parse
    Auths,          \* the credentials there are (records, None or NoOptions)
    FirstKey,       \* the kontrol key of the configuration
    KontrolUser,    \* Config.KontrolUser, the issuer of tokens
    Settings,       \* sessions, settings of the method and credentials to start from
    Me,             \* k.Kite(): username, environment and name
    MethodPre, KitePre, MethodPost, KitePost, Finals,  \* handlers, in order
    Capacity,       \* of the method's bucket
    MaxFills,       \* bound: tokens added to the bucket
    MaxRotations    \* bound: changes of the kontrol key

NoAuth == {None, NoOptions}

ASSUME RequestAssumption ==
    /\ Capacity \in Nat /\ MaxFills \in Nat /\ MaxRotations \in Nat
    /\ FirstKey \in Keys
    /\ \A a \in Auths \ NoAuth : a.key \in Keys
    /\ Settings \subseteq [session : {"accepted", "websocket", "xhr"},
                           authenticate : BOOLEAN, caching : BOOLEAN,
                           handling : {"ReturnMethod", "ReturnFirst", "ReturnLatest"},
                           auths : SUBSET Auths]

(* Handlers go by names that no result and no error has; the base handler  *)
(* is "handler".                                                           *)
ASSUME HandlersAssumption ==
    /\ \A hs \in {MethodPre, KitePre, MethodPost, KitePost, Finals} : hs \in Seq(ToSet(hs))
    /\ \A hs \in {MethodPre, KitePre, MethodPost, KitePost} :
          ToSet(hs) \cap {"handler", "nil", "error", "genericError",
                         "authenticationError", "requestLimitError"} = {}

VARIABLES
    session,      \* "accepted", or dialed by us: "websocket" or "xhr"
    authenticate, \* method.authenticate
    handling,     \* method.handling
    caching,      \* k.verifyCache is not nil (VerifyTTL is not negative)
    KontrolKey,   \* Config.KontrolKey, and k.kontrolKey parsed from it
    rotations,    \* changes of the kontrol key so far
    trusted,      \* history: the keys that have been KontrolKey
    verifyCache,  \* what the cache holds for every key: TRUE, FALSE or None
    once,         \* firstRequestHandlersNotified: "no", "running", "done"
    clientUser,   \* c.Kite.Username
    users,        \* history: users authenticated on this connection
    pre, post, initialized, bucket, fills,  \* the method
    pc, auth, verdict, user,                \* the request
    queue,        \* handlers the request still has to call
    ran,          \* history: the handlers called and what they returned
    firstResp, methodResp, resp, err, answer

keyVars == <<caching, KontrolKey, rotations, trusted, verifyCache>>
connVars == <<session, once, clientUser, users>>
methodVars == <<authenticate, handling, pre, post, initialized, bucket, fills>>
chainVars == <<queue, ran, firstResp, methodResp, resp, err>>
reqVars == <<auth, verdict, user>>
vars == <<keyVars, connVars, methodVars, chainVars, reqVars, pc, answer>>

Nil == "nil"
Subjects == {a.user : a \in Auths \ NoAuth}
Handlers == ToSet(MethodPre) \cup ToSet(KitePre) \cup ToSet(MethodPost)
                \cup ToSet(KitePost) \cup {"handler"}
Values == Handlers \cup {Nil}
Errors == {"authenticationError", "requestLimitError", "genericError"}

TypeOK ==
    /\ session \in {"accepted", "websocket", "xhr"}
    /\ authenticate \in BOOLEAN /\ caching \in BOOLEAN
    /\ handling \in {"ReturnMethod", "ReturnFirst", "ReturnLatest"}
    /\ KontrolKey \in Keys /\ trusted \subseteq Keys /\ rotations \in 0..MaxRotations
    /\ verifyCache \in [Keys -> {"true", "false", "none"}]
    /\ once \in {"no", "running", "done"}
    /\ clientUser \in Subjects \cup {"claimed", "dialed", ""} /\ users \subseteq Subjects
    /\ pre \in Seq(Handlers) /\ post \in Seq(Handlers) /\ initialized \in BOOLEAN
    /\ bucket \in 0..Capacity /\ fills \in 0..MaxFills
    /\ pc \in [Requests -> {"idle", "new", "first", "auth", "verify", "cache",
                            "init", "chain", "final", "done", "crashed"}]
    /\ auth \in [Requests -> Auths]
    /\ verdict \in [Requests -> BOOLEAN]
    /\ user \in [Requests -> Subjects \cup {"claimed", "dialed", ""}]
    /\ \A f \in {firstResp, methodResp, resp} : f \in [Requests -> Values]
    /\ err \in [Requests -> BOOLEAN]
    /\ queue \in [Requests -> Seq(Handlers \cup ToSet(Finals))]
    /\ ran \in [Requests -> Seq([handler : Handlers \cup ToSet(Finals),
                                value : Values \cup {"error"}])]
    /\ answer \in [Requests -> Seq(Values \cup Errors)]

(* NewWithConfig, addHandle and the Method's own settings; sockjsHandler   *)
(* or dial made the client.                                                *)
Init ==
    /\ \E s \in Settings :
          /\ session = s.session /\ authenticate = s.authenticate
          /\ handling = s.handling /\ caching = s.caching
          /\ auth \in [Requests -> s.auths]
    /\ KontrolKey = FirstKey /\ trusted = {FirstKey} /\ rotations = 0
    /\ verifyCache = [k \in Keys |-> "none"]
    /\ once = "no" /\ users = {}
    /\ clientUser = IF session = "accepted" THEN "" ELSE "dialed"
    /\ pre = MethodPre /\ post = MethodPost /\ initialized = FALSE
    /\ bucket = Capacity /\ fills = 0
    /\ pc = [r \in Requests |-> "idle"]
    /\ verdict = [r \in Requests |-> FALSE]
    /\ user = [r \in Requests |-> ""]
    /\ queue = [r \in Requests |-> <<>>] /\ ran = [r \in Requests |-> <<>>]
    /\ firstResp = [r \in Requests |-> Nil] /\ methodResp = [r \in Requests |-> Nil]
    /\ resp = [r \in Requests |-> Nil] /\ err = [r \in Requests |-> FALSE]
    /\ answer = [r \in Requests |-> <<>>]

-----------------------------------------------------------------------------
Goto(r, from, to) == pc[r] = from /\ pc' = [pc EXCEPT ![r] = to]

(* callFunc(nil, err), after which runMethod returns. *)
Refuse(r, from, error) ==
    /\ Goto(r, from, "done")
    /\ answer' = [answer EXCEPT ![r] = Append(@, error)]

(* readLoop starts runMethod, and newRequest unmarshals the options. *)
Receive(r) ==
    /\ auth[r] # NoOptions
    /\ Goto(r, "idle", "new")
    /\ UNCHANGED <<keyVars, connVars, methodVars, chainVars, reqVars, answer>>

(* MustUnmarshal panics, and so does the deferred function that recovers:  *)
(* its callFunc is nil until newRequest has returned.  The process ends.   *)
ParseFails(r) ==
    /\ auth[r] = NoOptions
    /\ Goto(r, "idle", "crashed")
    /\ UNCHANGED <<keyVars, connVars, methodVars, chainVars, reqVars, answer>>

Alive == \A r \in Requests : pc[r] # "crashed"

(* Mutant: c.Kite is taken from every request. *)
EveryRequest(r) ==
    /\ session # "websocket"
    /\ Goto(r, "new", "first")
    /\ once' = "running" /\ clientUser' = "claimed"
    /\ UNCHANGED <<keyVars, session, users, methodVars, chainVars, reqVars, answer>>

(* newRequest: the first request of a connection identifies the client by  *)
(* what it claims; the others wait for its handlers (sync.Once).           *)
FirstRequest(r) ==
    /\ session # "websocket" /\ once = "no"
    /\ Goto(r, "new", "first")
    /\ once' = "running" /\ clientUser' = "claimed"
    /\ UNCHANGED <<keyVars, session, users, methodVars, chainVars, reqVars, answer>>

FirstRequestHandled(r) ==
    /\ Goto(r, "first", "auth")
    /\ once' = "done"
    /\ UNCHANGED <<keyVars, session, clientUser, users, methodVars, chainVars,
                   reqVars, answer>>

LaterRequest(r) ==
    /\ session = "websocket" \/ once = "done"
    /\ Goto(r, "new", "auth")
    /\ UNCHANGED <<keyVars, connVars, methodVars, chainVars, reqVars, answer>>

-----------------------------------------------------------------------------
(* Authentication. *)

(* verifyAudience: "/" is anything, an empty field (but the username) too. *)
VerifyAudience(kite, aud) ==
    \/ aud.root
    \/ /\ kite.username = aud.username
       /\ aud.environment \in {kite.environment, ""}
       /\ aud.name \in {kite.name, ""}

(* RSAKey gives the kontrol key for an RSA signature of a token that the   *)
(* kontrol user has issued (there is a kontrol key: without one it panics, *)
(* which runMethod recovers).                                              *)
RSAKey(a) == a.signed /\ a.issuer = KontrolUser /\ a.key = KontrolKey

(* AuthenticateFromToken. *)
TokenValid(a) ==
    RSAKey(a) /\ ~a.expired /\ a.user # "" /\ VerifyAudience(Me, a.audience)

Accept(r) ==
    /\ user' = [user EXCEPT ![r] = auth[r].user]
    /\ clientUser' = auth[r].user
    /\ users' = users \cup {auth[r].user}
    /\ UNCHANGED <<session, once, auth>>

(* runMethod and authenticate, up to where a kite key has to be verified:  *)
(* no authentication for this method, or a session this kite has dialed.   *)
SkipAuthentication(r) ==
    /\ ~authenticate \/ session # "accepted"
    /\ Goto(r, "auth", "init")
    /\ user' = [user EXCEPT ![r] = IF authenticate THEN "" ELSE clientUser]
    /\ UNCHANGED <<keyVars, connVars, methodVars, chainVars, auth, verdict, answer>>

MustAuthenticate(r) == authenticate /\ session = "accepted" /\ pc[r] = "auth"

HasAuth(r, type) == auth[r] \notin NoAuth /\ auth[r].type = type

NoAuthenticator(r) ==
    /\ MustAuthenticate(r)
    /\ ~HasAuth(r, "token") /\ ~HasAuth(r, "kiteKey")
    /\ Refuse(r, "auth", "authenticationError")
    /\ UNCHANGED <<keyVars, connVars, methodVars, chainVars, reqVars>>

TokenAccepted(r) ==
    /\ MustAuthenticate(r) /\ HasAuth(r, "token") /\ TokenValid(auth[r])
    /\ Accept(r)
    /\ Goto(r, "auth", "init")
    /\ UNCHANGED <<keyVars, methodVars, chainVars, verdict, answer>>

TokenRefused(r) ==
    /\ MustAuthenticate(r) /\ HasAuth(r, "token") /\ ~TokenValid(auth[r])
    /\ Refuse(r, "auth", "authenticationError")
    /\ UNCHANGED <<keyVars, connVars, methodVars, chainVars, reqVars>>

(* AuthenticateFromKiteKey, once verify has returned the key it names.     *)
KiteKeyValid(a) == a.signed /\ ~a.expired /\ a.user # ""

(* verify: a cached result decides, otherwise verifyFunc is asked. *)
CacheSays(r, result) ==
    /\ MustAuthenticate(r) /\ HasAuth(r, "kiteKey")
    /\ (IF caching THEN verifyCache[auth[r].key] ELSE "none") = result

CacheTrusts(r) ==
    /\ CacheSays(r, "true") /\ KiteKeyValid(auth[r])
    /\ Accept(r)
    /\ Goto(r, "auth", "init")
    /\ UNCHANGED <<keyVars, methodVars, chainVars, verdict, answer>>

CacheRefuses(r) ==
    /\ CacheSays(r, "false") \/ (CacheSays(r, "true") /\ ~KiteKeyValid(auth[r]))
    /\ Refuse(r, "auth", "authenticationError")
    /\ UNCHANGED <<keyVars, connVars, methodVars, chainVars, reqVars>>

CacheMisses(r) ==
    /\ CacheSays(r, "none")
    /\ Goto(r, "auth", "verify")
    /\ UNCHANGED <<keyVars, connVars, methodVars, chainVars, reqVars, answer>>

(* Mutant: any kontrol key is trusted. *)
VerifyAny(r) ==
    /\ Goto(r, "verify", "cache")
    /\ verdict' = [verdict EXCEPT ![r] = TRUE]
    /\ UNCHANGED <<keyVars, connVars, methodVars, chainVars, auth, user, answer>>

(* verifyFunc: selfVerify. *)
SelfVerify(r) ==
    /\ Goto(r, "verify", "cache")
    /\ verdict' = [verdict EXCEPT ![r] = auth[r].key = KontrolKey]
    /\ UNCHANGED <<keyVars, connVars, methodVars, chainVars, auth, user, answer>>

Cache(r) ==
    verifyCache' = [verifyCache EXCEPT ![auth[r].key] = IF verdict[r] THEN "true" ELSE "false"]

KiteKeyAccepted(r) ==
    /\ caching /\ verdict[r] /\ KiteKeyValid(auth[r])
    /\ Goto(r, "cache", "init")
    /\ Cache(r) /\ Accept(r)
    /\ UNCHANGED <<caching, KontrolKey, rotations, trusted, methodVars,
                   chainVars, verdict, answer>>

KiteKeyRefused(r) ==
    /\ caching /\ ~(verdict[r] /\ KiteKeyValid(auth[r]))
    /\ Refuse(r, "cache", "authenticationError")
    /\ Cache(r)
    /\ UNCHANGED <<caching, KontrolKey, rotations, trusted, connVars,
                   methodVars, chainVars, reqVars>>

(* Without a cache, storing the result panics; runMethod recovers.         *)
NoCachePanics(r) ==
    /\ ~caching
    /\ Refuse(r, "cache", "genericError")
    /\ UNCHANGED <<keyVars, connVars, methodVars, chainVars, reqVars>>

-----------------------------------------------------------------------------
(* The method. *)

(* The kite's handlers follow the method's own, once (method.mu). *)
InitMethod ==
    /\ pre' = IF initialized THEN pre ELSE pre \o KitePre
    /\ post' = IF initialized THEN post ELSE post \o KitePost
    /\ initialized' = TRUE

(* bucket.TakeAvailable(1). *)
TakeAvailable == bucket > 0 /\ bucket' = bucket - 1

LimitExceeded(r) ==
    /\ InitMethod
    /\ bucket = 0
    /\ Refuse(r, "init", "requestLimitError")
    /\ UNCHANGED <<keyVars, connVars, authenticate, handling, bucket, fills,
                   chainVars, reqVars>>

(* Method.ServeKite copies the pre-handlers. *)
ServeKite(r) ==
    /\ InitMethod
    /\ TakeAvailable
    /\ Goto(r, "init", "chain")
    /\ queue' = [queue EXCEPT ![r] = Append(pre', "handler")]
    /\ UNCHANGED <<keyVars, connVars, authenticate, handling, fills, ran,
                   firstResp, methodResp, resp, err, reqVars, answer>>

(* Mutant: ReturnFirst keeps the latest value that is not nil. *)
KeepLatest(h, v, first) ==
    IF handling = "ReturnFirst" /\ v # Nil THEN v ELSE first

KeepFirst(h, v, first) ==
    IF handling = "ReturnFirst" /\ v # Nil /\ first = Nil THEN v ELSE first

(* A handler returns v; the base handler is followed by the post-handlers. *)
HandlerReturns(r, v) ==
    LET h == Head(queue[r])
        rest == Tail(queue[r]) \o (IF h = "handler" THEN post ELSE <<>>)
    IN  /\ pc[r] = "chain" /\ queue[r] # <<>>
        /\ v \in {h, Nil}
        /\ ran' = [ran EXCEPT ![r] = Append(@, [handler |-> h, value |-> v])]
        /\ resp' = [resp EXCEPT ![r] = v]
        /\ methodResp' = [methodResp EXCEPT ![r] = IF h = "handler" THEN v ELSE @]
        /\ firstResp' = [firstResp EXCEPT ![r] = KeepFirst(h, v, @)]
        /\ queue' = [queue EXCEPT ![r] = rest]
        /\ UNCHANGED <<keyVars, connVars, methodVars, err, reqVars, pc, answer>>

HandlerFails(r) ==
    /\ queue[r] # <<>>
    /\ Goto(r, "chain", "final")
    /\ ran' = [ran EXCEPT ![r] = Append(@, [handler |-> Head(queue[r]), value |-> "error"])]
    /\ resp' = [resp EXCEPT ![r] = Nil] /\ err' = [err EXCEPT ![r] = TRUE]
    /\ queue' = [queue EXCEPT ![r] = Finals]
    /\ UNCHANGED <<keyVars, connVars, methodVars, firstResp, methodResp,
                   reqVars, answer>>

HandlerPanics(r) ==
    /\ queue[r] # <<>>
    /\ Refuse(r, "chain", "genericError")
    /\ UNCHANGED <<keyVars, connVars, methodVars, chainVars, reqVars>>

ChainEnds(r) ==
    /\ queue[r] = <<>>
    /\ Goto(r, "chain", "final")
    /\ resp' = [resp EXCEPT ![r] =
                  CASE handling = "ReturnMethod" -> methodResp[r]
                    [] handling = "ReturnFirst"  -> firstResp[r]
                    [] OTHER                     -> @]
    /\ queue' = [queue EXCEPT ![r] = Finals]
    /\ UNCHANGED <<keyVars, connVars, methodVars, ran, firstResp, methodResp,
                   err, reqVars, answer>>

(* Mutant: the answer is sent before the final functions, and after them. *)
CallFuncEarly(r) ==
    /\ pc[r] = "final"
    /\ answer' = [answer EXCEPT ![r] = Append(@, IF err[r] THEN "genericError" ELSE resp[r])]
    /\ IF queue[r] = <<>> THEN Goto(r, "final", "done") ELSE UNCHANGED pc
    /\ queue' = [queue EXCEPT ![r] = <<>>]
    /\ UNCHANGED <<keyVars, connVars, methodVars, ran, firstResp, methodResp,
                   resp, err, reqVars>>

(* final: every final function gets the result, and callFunc sends it. *)
CallFunc(r) ==
    /\ Goto(r, "final", "done")
    /\ ran' = [ran EXCEPT ![r] = @ \o [i \in 1..Len(queue[r]) |->
                                        [handler |-> queue[r][i], value |-> resp[r]]]]
    /\ queue' = [queue EXCEPT ![r] = <<>>]
    /\ answer' = [answer EXCEPT ![r] = Append(@, IF err[r] THEN "genericError" ELSE resp[r])]
    /\ UNCHANGED <<keyVars, connVars, methodVars, firstResp, methodResp, resp,
                   err, reqVars>>

-----------------------------------------------------------------------------
(* updateAuth: kontrol has sent another key. *)
UpdateAuth(k) ==
    /\ rotations < MaxRotations /\ k # KontrolKey
    /\ rotations' = rotations + 1
    /\ KontrolKey' = k /\ trusted' = trusted \cup {k}
    /\ UNCHANGED <<caching, verifyCache, connVars, methodVars, chainVars,
                   reqVars, pc, answer>>

(* The TTL of a cached result passes. *)
CacheExpires(k) ==
    /\ verifyCache[k] # "none"
    /\ verifyCache' = [verifyCache EXCEPT ![k] = "none"]
    /\ UNCHANGED <<caching, KontrolKey, rotations, trusted, connVars,
                   methodVars, chainVars, reqVars, pc, answer>>

FillBucket ==
    /\ fills < MaxFills /\ bucket < Capacity
    /\ bucket' = bucket + 1 /\ fills' = fills + 1
    /\ UNCHANGED <<keyVars, connVars, authenticate, handling, pre, post,
                   initialized, chainVars, reqVars, pc, answer>>

Step(r) ==
    \/ FirstRequest(r) \/ FirstRequestHandled(r) \/ LaterRequest(r)
    \/ SkipAuthentication(r) \/ NoAuthenticator(r) \/ TokenAccepted(r)
    \/ TokenRefused(r) \/ CacheTrusts(r) \/ CacheRefuses(r) \/ CacheMisses(r)
    \/ SelfVerify(r) \/ KiteKeyAccepted(r) \/ KiteKeyRefused(r) \/ NoCachePanics(r)
    \/ ServeKite(r) \/ LimitExceeded(r)
    \/ \E v \in Values : HandlerReturns(r, v)
    \/ HandlerFails(r) \/ HandlerPanics(r) \/ ChainEnds(r) \/ CallFunc(r)

Next ==
    /\ Alive
    /\ \/ \E r \in Requests : Receive(r) \/ ParseFails(r) \/ Step(r)
       \/ \E k \in Keys : UpdateAuth(k) \/ CacheExpires(k)
       \/ FillBucket

Spec == Init /\ [][Next]_vars

(* While the process lives every goroutine runs, and handlers return. *)
Fairness == \A r \in Requests : WF_vars(Alive /\ Step(r))

FairSpec == Spec /\ Fairness

-----------------------------------------------------------------------------
(* Where the arguments of all requests parse, a request is answered        *)
(* exactly once, also when it is refused, a handler fails or panics, or    *)
(* the first request holds up the others.                                  *)
Answered ==
    \A r \in Requests :
        pc[r] = "new" /\ (\A q \in Requests : auth[q] # NoOptions)
            ~> [](Len(answer[r]) = 1)

(* On a connection from outside, the handlers of a method that requires    *)
(* authentication only run for the user of a credential that has not       *)
(* expired and has the signature of a key this kite has trusted; a token   *)
(* was also issued by its kontrol, for this kite.                          *)
ServedIsAuthentic ==
    \A r \in Requests : ran[r] # <<>> /\ authenticate /\ session = "accepted" =>
        /\ auth[r] \notin NoAuth /\ auth[r].user = user[r]
        /\ auth[r].key \in trusted /\ auth[r].signed /\ ~auth[r].expired
        /\ auth[r].type = "token" =>
              auth[r].issuer = KontrolUser /\ VerifyAudience(Me, auth[r].audience)

(* Once somebody has been authenticated on a connection, the client's name *)
(* is one that was: what a later request claims does not replace it.       *)
ClientIdentity == users # {} => clientUser \in users

(* Whatever concurrent first requests do to the method, every request runs *)
(* a prefix of the chain (the method's handlers before the kite's, each    *)
(* once), and a result is the one the handling mode promises of all of it. *)
Called(r) == [i \in 1..Len(ran[r]) |-> ran[r][i].handler]
Chain == MethodPre \o KitePre \o <<"handler">> \o MethodPost \o KitePost
Base == Len(MethodPre) + Len(KitePre) + 1
Some(r) == {i \in 1..Len(Chain) : ran[r][i].value # Nil}
Promised(r) ==
    CASE handling = "ReturnMethod" -> ran[r][Base].value
      [] handling = "ReturnFirst"  -> IF Some(r) = {} THEN Nil ELSE ran[r][Min(Some(r))].value
      [] OTHER                     -> ran[r][Len(Chain)].value
AnswerIsPromised ==
    \A r \in Requests :
        /\ \E n \in 0..Len(Chain) :
              Called(r) \in {SubSeq(Chain, 1, n), SubSeq(Chain, 1, n) \o Finals}
        /\ pc[r] = "done" /\ answer[r] # <<>> /\ answer[r][1] \in Values
             => Called(r) = Chain \o Finals /\ answer[r][1] = Promised(r)

-----------------------------------------------------------------------------
(* What a comment promises and the code does not keep. *)

(* Every request is answered: errors in a dnode argument are recovered and *)
(* sent back (request.go:68).  Not when the argument is no options object. *)
ArgumentErrorsAnswered ==
    \A r \in Requests : pc[r] # "idle" ~> Len(answer[r]) = 1
=============================================================================
