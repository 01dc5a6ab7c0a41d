------------------------------ MODULE MCRequest ------------------------------
(***************************************************************************)
(* TLC instance of Request: two concurrent requests, two kontrol keys, and *)
(* credentials of every kind: a kite key under either kontrol key or with  *)
(* a bad signature, a good token, one for another kite, an expired one,    *)
(* one of another issuer, none, and a request that does not parse.         *)
(***************************************************************************)
EXTENDS Request

CONSTANTS k1, k2

MCMe == [username |-> "me", environment |-> "prod", name |-> "math"]
MCKiteKey(k, good) ==
    [type |-> "kiteKey", key |-> k, user |-> "me", signed |-> good, expired |-> FALSE]
MCToken(kite) ==
    [type |-> "token", key |-> k1, user |-> "you", signed |-> TRUE, expired |-> FALSE,
     issuer |-> "kontrol",
     audience |-> [root |-> FALSE, username |-> "me", environment |-> "", name |-> kite]]
MCExpired == [MCToken("math") EXCEPT !.expired = TRUE]
MCForeign == [MCToken("math") EXCEPT !.issuer = "other"]
MCAuths ==
    {None, NoOptions, MCKiteKey(k1, TRUE), MCKiteKey(k2, TRUE), MCKiteKey(k1, FALSE),
     MCToken("math"), MCToken("other"), MCExpired, MCForeign}
MCSetting(s, a, h, c, auths) ==
    [session |-> s, authenticate |-> a, handling |-> h, caching |-> c, auths |-> auths]
MCSettings ==
    {MCSetting("accepted", TRUE, "ReturnFirst", TRUE, {MCKiteKey(k1, TRUE), MCKiteKey(k2, TRUE)}),
     MCSetting("accepted", TRUE, "ReturnMethod", TRUE, {MCKiteKey(k1, FALSE), MCToken("math")}),
     MCSetting("accepted", TRUE, "ReturnMethod", TRUE, {None, MCToken("other")}),
     MCSetting("accepted", TRUE, "ReturnMethod", TRUE, {MCExpired, MCForeign}),
     MCSetting("accepted", TRUE, "ReturnMethod", FALSE, {MCKiteKey(k1, TRUE)}),
     MCSetting("accepted", FALSE, "ReturnMethod", TRUE, {None, NoOptions}),
     MCSetting("websocket", TRUE, "ReturnLatest", TRUE, {None}),
     MCSetting("xhr", TRUE, "ReturnMethod", TRUE, {None})}
MCMethodPre == <<"methodPre">>
MCKitePre == <<>>
MCMethodPost == <<>>
MCKitePost == <<"kitePost">>
MCFinals == <<"final">>
=============================================================================
