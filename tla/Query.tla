------------------------------- MODULE Query -------------------------------
(***************************************************************************)
(* Queries for kites (kontrol/etcd.go, kontrol/postgres.go, kontrol/       *)
(* kites.go, kontrol/node.go, protocol/protocol.go), the audience of the   *)
(* token that comes with the answer (kontrol/handlers.go, etcd.go) and the *)
(* audience check of the kite that is dialled with it (request.go).        *)
(*                                                                         *)
(* Kites start, register under their seven fields, expire, and start again *)
(* with other fields under the same ID (which the owner may fix).          *)
(* Meanwhile a client queries kontrol, takes one of the kites it is told   *)
(* of, and later renews its token by the kite's ID, as the token renewer   *)
(* does.                                                                   *)
(*                                                                         *)
(* A field is a string, "" when it is not given.  A path (Kite.String, an  *)
(* Etcd key) is the sequence of the fields in keyOrder, a shorter one the  *)
(* path of a directory; an audience is a sequence of one to three fields.  *)
(* An error of Get and an answer without kites are the same to the caller  *)
(* (GetKites makes an error of the latter, getToken too), so both are the  *)
(* empty set.  Shuffle makes the order arbitrary: an answer is a set.      *)
(***************************************************************************)
EXTENDS Naturals, Sequences, FiniteSets, SequencesExt

CONSTANTS
    Storages,      \* the storages kontrol may run with
    Kites,         \* the fields kites may start with
    Queries,       \* the queries the client may make
    Satisfying,    \* for every version constraint, the versions that satisfy it
    Malformed,     \* versions that are neither a version nor a constraint
    StringPrefixes, \* pairs of different fields, the first a prefix of the second
    RegisterValue,  \* the JSON value Etcd stores under a kite's path and ID
    Absent

NotGiven == ""     \* the value of a field that is not given

keyOrder == <<"username", "environment", "name", "version", "region", "hostname", "id">>

Fields == Range(keyOrder)
IDs == {k.id : k \in Kites}

ASSUME QueryAssumption ==
    /\ Storages \subseteq {"etcd", "postgres"}
    /\ Kites \subseteq [Fields -> STRING] /\ Queries \subseteq [Fields -> STRING]
    /\ \A k \in Kites, f \in Fields : k[f] # NotGiven
    /\ \A k \in Kites : k.username # RegisterValue /\ k.id # RegisterValue
    /\ \A k \in Kites : k.version \notin DOMAIN Satisfying  \* kite.go:160
    /\ \A k, l \in Kites : k.id = l.id =>
          <<k.username, k.environment, k.name>> = <<l.username, l.environment, l.name>>
    /\ NotGiven \in STRING /\ NotGiven \notin DOMAIN Satisfying /\ Absent \notin Kites

VARIABLES
    storage, \* the storage kontrol was started with
    running, \* the fields of the process that runs with each ID
    listed,  \* the paths in Etcd, or the rows of kite.kite
    phase,   \* the client's request: "idle", "asked", "keyed" or "answered"
    request, \* its method and query
    key,     \* the path Etcd.Get is about to read
    found,   \* the kites Get has returned
    steady,  \* the kites that have been listed since the client asked
    client   \* the kite the client has chosen, and the audience of its token

kiteVars == <<storage, running>>
requestVars == <<phase, request, key, found>>
queryVars == <<kiteVars, listed, requestVars, steady, client>>

NoRequest == [method |-> "none", query |-> Absent]

QueryInit ==
    /\ storage \in Storages
    /\ running = [i \in IDs |-> Absent]
    /\ listed = {} /\ steady = {} /\ found = {} /\ key = <<>>
    /\ phase = "idle" /\ request = NoRequest
    /\ client = Absent

----------------------------------------------------------------------------
(* Paths and queries. *)

Path(k) == [i \in DOMAIN keyOrder |-> k[keyOrder[i]]]

Empty(q) == \A f \in Fields : q[f] = NotGiven

OnlyIDQuery(q) == q.id # NotGiven /\ \A f \in Fields \ {"id"} : q[f] = NotGiven

(* A field is missing in front of one that is given. *)
Gap(q) == \E i, j \in DOMAIN keyOrder : i < j /\ Path(q)[i] = NotGiven /\ Path(q)[j] # NotGiven

(* How many fields are given, when they are the first ones. *)
Given(q) == CHOOSE n \in 0..7 : \A i \in DOMAIN keyOrder : Path(q)[i] # NotGiven <=> i <= n

(* A mutant: a path that ends with the version. *)
QueryKeyToVersion(q) ==
    IF q.username = NotGiven \/ Gap(q) THEN <<>> ELSE SubSeq(Path(q), 1, IF Given(q) > 4 THEN 4 ELSE Given(q))

(* GetQueryKey: the fields that are given; <<>> stands for its error. *)
GetQueryKey(q) ==
    IF q.username = NotGiven \/ Gap(q) THEN <<>> ELSE SubSeq(Path(q), 1, Given(q))

NameQuery(q) == [f \in Fields |-> IF f \in {"username", "environment", "name"} THEN q[f] ELSE NotGiven]

HasVersionConstraint(q) == q.version \in DOMAIN Satisfying

AfterVersion(k) == SubSeq(Path(k), 5, 7)

(* TrimRight of the fields after the version. *)
KeyRest(q) ==
    CHOOSE s \in {SubSeq(AfterVersion(q), 1, n) : n \in 0..3} :
        /\ \A i \in Len(s) + 1..3 : AfterVersion(q)[i] = NotGiven
        /\ s # <<>> => Last(s) # NotGiven

HasPrefix(a, b) == a = b \/ <<a, b>> \in StringPrefixes

(* Only the last field of the rest may be cut short. *)
IsValid(k, q) ==
    LET rest == KeyRest(q) IN
    /\ k.version \in Satisfying[q.version]
    /\ \A i \in DOMAIN rest :
          IF i = Len(rest) THEN HasPrefix(rest[i], AfterVersion(k)[i]) ELSE rest[i] = AfterVersion(k)[i]

Filter(kites, q) == {k \in kites : IsValid(k, q)}

----------------------------------------------------------------------------
(* The kites. *)

Run(k) ==
    /\ running' = [running EXCEPT ![k.id] = k]
    /\ UNCHANGED <<storage, listed, requestVars, steady, client>>

(* Etcd adds the path of the kite; Postgres inserts a row unless the ID has one, of
   which it leaves the fields alone.  *)
Upsert(k) ==
    IF storage = "postgres" /\ \E l \in listed : l.id = k.id THEN listed ELSE listed \cup {k}

Register(k) ==
    /\ running[k.id] = k
    /\ listed' = Upsert(k)
    /\ UNCHANGED <<kiteVars, requestVars, steady, client>>

(* The TTL of a path, or Postgres' cleaner. *)
Expire(k) ==
    /\ k \in listed
    /\ listed' = listed \ {k}
    /\ steady' = steady \ {k}
    /\ UNCHANGED <<kiteVars, requestVars, client>>

----------------------------------------------------------------------------
(* Storage.Get. *)

(* Flatten: the kites in a directory, or the one whose path it is. *)
Under(path) == {k \in listed : IsPrefix(path, Path(k))}

Answer(kites) ==
    /\ phase' = "answered"
    /\ found' = kites
    /\ key' = <<>>
    /\ UNCHANGED <<kiteVars, listed, request, steady, client>>

(* What Etcd holds under an ID is the kite's value, not its path. *)
StoredUnderID == <<RegisterValue>>

EtcdIDKey ==
    /\ storage = "etcd" /\ phase = "asked"
    /\ OnlyIDQuery(request.query)
    /\ IF \E k \in listed : k.id = request.query.id
          THEN /\ phase' = "keyed"
               /\ key' = StoredUnderID
               /\ UNCHANGED <<kiteVars, listed, request, found, steady, client>>
          ELSE Answer({})

EtcdQueryKey ==
    LET q == request.query IN
    /\ storage = "etcd" /\ phase = "asked"
    /\ ~OnlyIDQuery(q)
    /\ IF GetQueryKey(q) = <<>> \/ q.version \in Malformed
          THEN Answer({})
          ELSE /\ phase' = "keyed"
               /\ key' = GetQueryKey(IF HasVersionConstraint(q) THEN NameQuery(q) ELSE q)
               /\ UNCHANGED <<kiteVars, listed, request, found, steady, client>>

EtcdGet ==
    /\ phase = "keyed"
    /\ Answer(IF HasVersionConstraint(request.query) THEN Filter(Under(key), request.query) ELSE Under(key))

(* The WHERE clause: every field that is given. *)
SelectQuery(q) == {k \in listed : \A f \in Fields : q[f] \in {NotGiven, k[f]}}

(* A single row is returned without a look at the version. *)
PostgresGet ==
    LET q == request.query
        sent == IF HasVersionConstraint(q) THEN NameQuery(q) ELSE q
        rows == SelectQuery(sent)
    IN
    /\ storage = "postgres" /\ phase = "asked"
    /\ Answer(CASE Empty(sent) \/ q.version \in Malformed -> {}
                [] Cardinality(rows) # 1 /\ HasVersionConstraint(q) -> Filter(rows, q)
                [] OTHER -> rows)

----------------------------------------------------------------------------
(* The handlers, and the client. *)

(* A mutant: an audience without the fields that are not given. *)
AudienceWithoutGaps(q) == SelectSeq(SubSeq(Path(q), 1, 3), LAMBDA v : v # NotGiven)

GetAudience(q) ==
    CASE q.name # NotGiven -> <<q.username, q.environment, q.name>>
      [] q.name = NotGiven /\ q.environment # NotGiven -> <<q.username, q.environment>>
      [] OTHER -> <<q.username>>

Ask(method, q) ==
    /\ phase = "idle"
    /\ phase' = "asked"
    /\ request' = [method |-> method, query |-> q]
    /\ steady' = listed
    /\ UNCHANGED <<kiteVars, listed, key, found, client>>

GetKites(q) == client = Absent /\ Ask("getKites", q)

(* renewToken asks for the kite's ID only. *)
RenewToken ==
    /\ client # Absent
    /\ Ask("getToken", [f \in Fields |-> IF f = "id" THEN client.kite.id ELSE NotGiven])

Done ==
    /\ phase' = "idle" /\ request' = NoRequest
    /\ found' = {} /\ steady' = {}
    /\ UNCHANGED <<kiteVars, listed, key>>

(* HandleGetKites gives every kite the same audience; the client takes one of them. *)
TakeKite ==
    /\ phase = "answered" /\ request.method = "getKites"
    /\ IF found = {}
          THEN UNCHANGED client
          ELSE \E k \in found : client' = [kite |-> k, audience |-> GetAudience(request.query)]
    /\ Done

(* HandleGetToken: an error unless the query matches one kite. *)
TakeToken ==
    /\ phase = "answered" /\ request.method = "getToken"
    /\ client' = IF Cardinality(found) = 1
                    THEN [client EXCEPT !.audience = GetAudience(request.query)] ELSE client
    /\ Done

CloseClient ==
    /\ client # Absent /\ phase = "idle"
    /\ client' = Absent
    /\ UNCHANGED <<kiteVars, listed, requestVars, steady>>

QueryNext ==
    \/ \E k \in Kites : Run(k) \/ Register(k) \/ Expire(k)
    \/ \E q \in Queries : GetKites(q)
    \/ RenewToken
    \/ EtcdIDKey \/ EtcdQueryKey \/ EtcdGet \/ PostgresGet
    \/ TakeKite \/ TakeToken \/ CloseClient

QuerySpec == QueryInit /\ [][QueryNext]_queryVars

----------------------------------------------------------------------------
(* Properties. *)

Token == [kite : Kites, audience : Seq(STRING)]

QueryTypeOK ==
    /\ storage \in Storages
    /\ running \in [IDs -> Kites \cup {Absent}]
    /\ listed \subseteq Kites /\ found \subseteq Kites /\ steady \subseteq Kites
    /\ phase \in {"idle", "asked", "keyed", "answered"}
    /\ request.method \in {"none", "getKites", "getToken"}
    /\ client \in Token \cup {Absent}

(* What a query asks for, read off its fields: KontrolQuery's comment says that
   "missing fields are not counted". *)
Matches(k, q) ==
    \A f \in Fields :
        \/ q[f] \in {NotGiven, k[f]}
        \/ f = "version" /\ HasVersionConstraint(q) /\ k.version \in Satisfying[q.version]

(* The queries Get promises to answer: "order of the fields is from general to specific";
   Postgres also takes fields in any combination, as long as the version is not a
   constraint. *)
Answerable(q) ==
    /\ q.version \notin Malformed
    /\ \/ GetQueryKey(q) # <<>>
       \/ storage = "postgres" /\ ~HasVersionConstraint(q) /\ ~Empty(q)

(* Storage.Get: an answerable query finds every kite that matches it and was listed all
   along, whatever registers or expires meanwhile, and, unless it carries a version
   constraint, no kite that does not match. *)
AnswerExact ==
    phase = "answered" /\ Answerable(request.query) =>
        /\ {k \in steady : Matches(k, request.query)} \subseteq found
        /\ ~HasVersionConstraint(request.query) =>
              \A k \in found : Matches(k, request.query)

(* verifyAudience: the root audience "/" fits every kite, and an empty field after the
   user name any value. *)
verifyAudience(k, audience) ==
    \/ audience = <<NotGiven>>
    \/ /\ audience[1] = k.username
       /\ Len(audience) > 1 => audience[2] \in {NotGiven, k.environment}
       /\ Len(audience) > 2 => audience[3] \in {NotGiven, k.name}

Fits == client # Absent => verifyAudience(running[client.kite.id], client.audience)

(* getAudience and verifyAudience agree: whichever query the client came from, and after
   every renewal, the process that runs under the kite's ID accepts the audience of the
   client's token, also when it was started again with another version.  Only a token for
   an environment or a name without a user does not fit. *)
TokenFits ==
    client # Absent /\ (Len(client.audience) > 1 => client.audience[1] # NotGiven) => Fits

(* The example in the comment of GetKites (kontrolclient.go) queries by name only: the
   client could use the token it gets.  Violated with Postgres, whose Get does not ask for
   a user name although its comment says so. *)
TokenAlwaysFits == Fits

(* A kite that is listed is found by its ID, so its token can be renewed: etcd.go stores
   the ID "for easy lookup".  Violated with Etcd. *)
FoundByID ==
    phase = "answered" /\ OnlyIDQuery(request.query) =>
        {k \in steady : k.id = request.query.id} \subseteq found

(* A version constraint holds of every kite found: Get "filters the results after getting
   all versions".  Violated with Postgres when the name has one row. *)
ConstraintHolds ==
    phase = "answered" /\ HasVersionConstraint(request.query) =>
        \A k \in found : k.version \in Satisfying[request.query.version]
=============================================================================
