------------------------------ MODULE KeyPairs ------------------------------
(***************************************************************************)
(* Key pairs and tokens (kontrol/keypair.go, kontrol/kontrol.go, the       *)
(* handlers of kontrol/handlers.go, the key pairs of kontrol/postgres.go,  *)
(* and the kite's side in kite.go and kontrolclient.go).                   *)
(*                                                                         *)
(* Kontrol's operator adds and retires key pairs.  Every kite holds a kite *)
(* key, which names the public key of one pair, and verifies tokens with   *)
(* the public key it holds; kontrol records with which pair it registered. *)
(* A client asks kontrol for a token to every kite, signed with that pair, *)
(* and asks again when the kite refuses the token or it has expired.       *)
(*                                                                         *)
(* A pair stands for its public and private key and the ID it is stored    *)
(* under; a listing of kontrol's may name it by another ID, which the      *)
(* storage does not know.  One user and one audience: a cached token is    *)
(* told apart by the pair it is signed with.                               *)
(***************************************************************************)
EXTENDS Naturals, FiniteSets, SequencesExt

CONSTANTS
    Pairs, Kites, None,
    Self,             \* the pair kontrol's own kite key was signed with
    Retired,          \* the pairs the operator may delete
    MachineKeyPicker, \* what the owner's picker returns; None: no picker set
    TTL, Leeway,      \* tokenTTL() and tokenLeeway()
    MaxAdds,          \* bound: calls of AddKeyPair
    MaxRestarts       \* bound: restarts of kites and of kontrol

ASSUME KeyPairsAssumption ==
    /\ Self \in Pairs /\ Retired \subseteq Pairs /\ None \notin Pairs
    /\ MachineKeyPicker \in Pairs \cup {None}
    /\ TTL \in Nat /\ Leeway \in Nat /\ 0 < Leeway /\ Leeway < TTL
    /\ MaxAdds \in Nat \ {0} /\ MaxRestarts \in Nat

VARIABLES
    storage,     \* k.keyPair: in memory, Postgres, or Postgres with a cache
    last,        \* lastIDs, lastPublic, lastPrivate: the pairs, and whether
                 \* the storage knows the ID they are listed with
    id, public,  \* the two maps of the MemKeyPairStorage (storage or cache)
    rows,        \* the table kite.key (unused in memory): every pair is "none", "valid" or "deleted"
    selfKeyPair, \* k.selfKeyPair
    record,      \* the KeyID kontrol recorded for every kite
    file,        \* the kite key in every kite's kite.key file
    kiteKey,     \* the pair the kite key of every kite names
    configKey,   \* Config.KontrolKey of every kite
    kontrolKey,  \* k.kontrolKey of every kite, which RSAKey verifies with
    cached,      \* tokenCache: the age of the token signed with a pair
    orphans,     \* timers of tokens no longer in the cache: time left
    asks,        \* the pair found for the client's request, while it runs
    restarts,    \* restarts so far
    tokens        \* the client's token for every kite, and its time left

storeVars == <<storage, last, id, public, rows, selfKeyPair>>
kiteVars == <<record, file, kiteKey, configKey, kontrolKey, restarts>>
cacheVars == <<cached, orphans>>
keysVars == <<storeVars, kiteVars, cacheVars, asks, tokens>>

Listing == [pair : Pairs, known : BOOLEAN]
NoListing == [pair |-> None, known |-> FALSE]
Known(p) == [pair |-> p, known |-> TRUE]

(* Mutant: a token is cached until it expires. *)
CacheForLifetime == TTL + Leeway

CacheFor == TTL - Leeway     \* how long a token stays in the cache
Lifetime == TTL + Leeway     \* how long a token is valid
NoToken == [pair |-> None, left |-> 0]

KeysTypeOK ==
    /\ storage \in {"mem", "postgres", "cached"}
    /\ last \in Seq(Listing) /\ Len(last) <= MaxAdds
    /\ id \subseteq Pairs /\ public \subseteq Pairs
    /\ rows \in [Pairs -> {"none", "valid", "deleted"}]
    /\ selfKeyPair \in Listing \cup {NoListing}
    /\ \A f \in {record, file, kiteKey, configKey, kontrolKey, asks} :
        f \in [Kites -> Pairs \cup {None}]
    /\ cached \in [Pairs -> 0..CacheFor \cup {None}]
    /\ orphans \in [Pairs -> SUBSET (0..CacheFor)]
    /\ tokens \in [Kites -> [pair : Pairs \cup {None}, left : 0..Lifetime]]
    /\ restarts \in 0..MaxRestarts

(* NewWithoutHandlers; every kite has yet to get its key (kitectl). *)
KeysInit ==
    /\ storage \in {"mem", "postgres", "cached"}
    /\ last = <<>> /\ id = {} /\ public = {}
    /\ rows = [p \in Pairs |-> "none"]
    /\ selfKeyPair = NoListing
    /\ record = [k \in Kites |-> None] /\ file = [k \in Kites |-> None]
    /\ kiteKey = [k \in Kites |-> None] /\ restarts = 0
    /\ configKey = [k \in Kites |-> None] /\ kontrolKey = [k \in Kites |-> None]
    /\ cached = [p \in Pairs |-> None] /\ orphans = [p \in Pairs |-> {}]
    /\ asks = [k \in Kites |-> None]
    /\ tokens = [k \in Kites |-> NoToken]

-----------------------------------------------------------------------------
(* KeyPairStorage: what a lookup returns in a map of the in-memory storage *)
(* and in the table.                                                       *)

Lookup(map, p) ==
    IF storage # "postgres" /\ p \in map THEN "valid" ELSE rows[p]

GetKeyFromID(p) == Lookup(id, p)
GetKeyFromPublic(p) == Lookup(public, p)
IsValid(p) == Lookup(public, p)

(* CachedStorage puts what it found in the table in its cache. *)
Fill(p, found) ==
    IF storage = "cached" /\ found = "valid"
    THEN id' = id \cup {p} /\ public' = public \cup {p}
    ELSE UNCHANGED <<storage, id, public>>

(* AddKey: into the table, then into the maps. *)
AddKey(p) ==
    /\ rows' = IF storage = "mem" THEN rows ELSE [rows EXCEPT ![p] = "valid"]
    /\ IF storage = "postgres" THEN UNCHANGED <<storage, id, public>>
       ELSE id' = id \cup {p} /\ public' = public \cup {p}

(* DeleteKey, given both the ID and the public key: the in-memory storage  *)
(* deletes from its second map only when the public key is not given.      *)
DeleteKey(p) ==
    /\ rows' = [q \in Pairs |-> IF q = p /\ rows[q] = "valid" THEN "deleted" ELSE rows[q]]
    /\ id' = id \ {p}

-----------------------------------------------------------------------------
(* AddKeyPair: the slices first, then the storage. *)
AddKeyPair(p) ==
    /\ Len(last) < MaxAdds /\ rows[p] = "none" /\ p \notin id
    /\ last' = Append(last, Known(p))
    /\ AddKey(p)
    /\ UNCHANGED <<storage, selfKeyPair, kiteVars, cacheVars, asks, tokens>>

(* The table refuses a public key it has (kontrol adds its pair under a    *)
(* new ID whenever it starts), or the database fails: the pair is listed.  *)
AddKeyPairFails(p) ==
    /\ Len(last) < MaxAdds /\ storage # "mem"
    /\ last' = Append(last, [pair |-> p, known |-> FALSE])
    /\ UNCHANGED <<storage, id, public, rows, selfKeyPair, kiteVars, cacheVars, asks,
                   tokens>>

(* Kontrol restarts: what it kept in memory is gone, and main adds its own *)
(* pair, which the table refuses when it has it.                           *)
KontrolRestart ==
    LET added == storage = "mem" \/ rows[Self] = "none"
    IN  /\ restarts < MaxRestarts
        /\ restarts' = restarts + 1
        /\ last' = <<[pair |-> Self, known |-> added]>>
        /\ id' = (IF added /\ storage # "postgres" THEN {Self} ELSE {}) /\ public' = id'
        /\ rows' = IF added /\ storage # "mem" THEN [rows EXCEPT ![Self] = "valid"] ELSE rows
        /\ selfKeyPair' = NoListing
        /\ cached' = [p \in Pairs |-> None] /\ orphans' = [p \in Pairs |-> {}]
        /\ asks' = [k \in Kites |-> None]
        /\ UNCHANGED <<storage, record, file, kiteKey, configKey, kontrolKey, tokens>>

(* DeleteKeyPair: the pair is looked up by its ID or its public key (which *)
(* may fill the cache), then deleted from the storage and, where it is     *)
(* first listed, from the slices.                                          *)
DeleteKeyPair(p) ==
    /\ p \in Retired
    /\ \E map \in {id, public} :
        /\ Lookup(map, p) = "valid"
        /\ public' = IF storage = "cached" /\ p \notin map
                     THEN public \cup {p} ELSE public
    /\ DeleteKey(p)
    /\ last' = RemoveFirstMatch(last, LAMBDA l : l.pair = p)
    /\ UNCHANGED <<storage, selfKeyPair, kiteVars, cacheVars, asks, tokens>>

(* An entry of the cache's TTL maps goes. *)
CacheExpires(p) ==
    /\ storage = "cached"
    /\ \/ p \in id /\ id' = id \ {p} /\ UNCHANGED public
       \/ p \in public /\ public' = public \ {p} /\ UNCHANGED id
    /\ UNCHANGED <<storage, last, rows, selfKeyPair, kiteVars, cacheVars, asks, tokens>>

(* Kontrol.KeyPair: the latest listing kontrol's kite key verifies with,   *)
(* remembered for ever.                                                    *)
KeyPair ==
    LET i == SelectLastInSeq(last, LAMBDA l : l.pair = Self)
    IN  IF selfKeyPair # NoListing THEN selfKeyPair
        ELSE IF i = 0 THEN NoListing ELSE last[i]

(* pickKey, nothing when no picker is set; an owner's picker is taken to hand *)
(* out its pair only until that is retired.                                *)
PickKey ==
    IF MachineKeyPicker # None /\ Lookup(id, MachineKeyPicker) = "valid"
    THEN Known(MachineKeyPicker) ELSE NoListing

-----------------------------------------------------------------------------
(* The kite's requests to kontrol. *)

(* updateAuth, when kontrol's answer carries a key. *)
UpdateAuth(k, p) ==
    /\ kiteKey' = [kiteKey EXCEPT ![k] = p]
    /\ configKey' = [configKey EXCEPT ![k] = p]
    /\ kontrolKey' = [kontrolKey EXCEPT ![k] = p]

(* HandleMachine: the first kite key of a machine, by KeyPair when kontrol *)
(* authenticates machines and else by pickKey.                             *)
HandleMachine(k) ==
    /\ kiteKey[k] = None
    /\ \/ /\ KeyPair # NoListing /\ selfKeyPair' = KeyPair
          /\ file' = [file EXCEPT ![k] = KeyPair.pair]
       \/ /\ PickKey # NoListing /\ UNCHANGED selfKeyPair
          /\ file' = [file EXCEPT ![k] = PickKey.pair]
    /\ kiteKey' = [kiteKey EXCEPT ![k] = file'[k]]
    /\ configKey' = [configKey EXCEPT ![k] = file'[k]]
    /\ UNCHANGED <<storage, last, id, public, rows, record, kontrolKey, restarts,
                   cacheVars, asks, tokens>>

(* The kite process restarts and reads its kite.key file again. *)
Restart(k) ==
    /\ restarts < MaxRestarts /\ kiteKey[k] # None
    /\ restarts' = restarts + 1
    /\ kiteKey' = [kiteKey EXCEPT ![k] = file[k]]
    /\ configKey' = [configKey EXCEPT ![k] = file[k]]
    /\ kontrolKey' = [kontrolKey EXCEPT ![k] = None]
    /\ UNCHANGED <<storeVars, record, file, cacheVars, asks, tokens>>

(* verifyInit, on the first use of the key. *)
VerifyInit(k) ==
    /\ kontrolKey[k] = None /\ configKey[k] # None
    /\ kontrolKey' = [kontrolKey EXCEPT ![k] = configKey[k]]
    /\ UNCHANGED <<storeVars, record, file, kiteKey, configKey, restarts,
                   cacheVars, asks, tokens>>

(* Mutant: a deleted pair will do. *)
KeepKey(p, found) == Known(p)

(* getOrUpdateKeyPub and getOrUpdateKeyID: the pair kontrol registers a    *)
(* kite with, and the one it signs with, given what the lookup returned.   *)
GetOrUpdateKey(p, found) ==
    CASE found = "valid" -> Known(p)
      [] found = "deleted" /\ KeyPair # NoListing -> KeyPair
      [] OTHER -> PickKey

(* KeyPair remembers its result when a deleted pair is looked up. *)
Remember(found) ==
    selfKeyPair' = IF found = "deleted" THEN KeyPair ELSE selfKeyPair

(* HandleRegister[HTTP]: kontrol verifies the kite key (Verify allows      *)
(* deleted pairs), finds the pair, records its ID and sends it when it is  *)
(* new.  Postgres refuses a record with an ID its key table does not have, *)
(* but Upsert returns the nil of the rollback and kontrol answers as if it *)
(* had recorded it.                                                        *)
HandleRegister(k) ==
    LET p == kiteKey[k]
        found == GetKeyFromPublic(p)
        kp == GetOrUpdateKey(p, found)
    IN  /\ p # None /\ found # "none"
        /\ kp # NoListing
        /\ record' = IF storage = "mem" \/ kp.known
                     THEN [record EXCEPT ![k] = kp.pair] ELSE record
        /\ IF kp.pair # p THEN UpdateAuth(k, kp.pair)
           ELSE UNCHANGED <<kiteKey, configKey, kontrolKey>>
        /\ Remember(found)
        /\ Fill(p, found)
        /\ UNCHANGED <<storage, last, rows, file, restarts, cacheVars, asks, tokens>>

(* HandleGetKey and the kite's GetKey, which stores the answer in          *)
(* Config.KontrolKey and nowhere else.                                     *)
GetKey(k) ==
    LET p == kiteKey[k]
        found == IsValid(p)
        new == GetOrUpdateKey(p, found)
    IN  /\ p # None /\ found # "none" /\ new # NoListing
        /\ configKey' = [configKey EXCEPT ![k] = new.pair]
        /\ Remember(found)
        /\ UNCHANGED <<storage, last, id, public, rows, record, file, kiteKey,
                       kontrolKey, restarts, cacheVars, asks, tokens>>

-----------------------------------------------------------------------------
(* The client's requests for tokens. *)

(* HandleGetToken and HandleGetKites up to the signing. *)
FindKeyPair(k) ==
    LET found == GetKeyFromID(record[k])
        kp == GetOrUpdateKey(record[k], found)
    IN  /\ asks[k] = None /\ record[k] # None /\ kp # NoListing
        /\ asks' = [asks EXCEPT ![k] = kp.pair]
        /\ Remember(found)
        /\ Fill(record[k], found)
        /\ UNCHANGED <<storage, last, rows, kiteVars, cacheVars, tokens>>

AnswerToken(k, p, left) ==
    /\ asks' = [asks EXCEPT ![k] = None]
    /\ tokens' = [tokens EXCEPT ![k] = [pair |-> p, left |-> left]]
    /\ UNCHANGED <<storeVars, kiteVars>>

(* Mutant: the key of the cache leaves the pair out. *)
CachedForAnyPair(k) ==
    /\ asks[k] # None
    /\ \E p \in Pairs : cached[p] # None /\ AnswerToken(k, p, Lifetime - cached[p])
    /\ UNCHANGED cacheVars

(* generateToken finds the token in the cache. *)
CachedToken(k) ==
    LET p == asks[k]
    IN  /\ p # None /\ cached[p] # None
        /\ AnswerToken(k, p, Lifetime - cached[p])
        /\ UNCHANGED cacheVars

(* generateToken signs, and cacheToken replaces the cached token (args.Force) *)
(* and stops its timer, unless it is already waiting for tokenCacheMu.     *)
GenerateToken(k) ==
    LET p == asks[k]
    IN  /\ p # None
        /\ AnswerToken(k, p, Lifetime)
        /\ cached' = [cached EXCEPT ![p] = 0]
        /\ orphans' = [orphans EXCEPT ![p] =
                         IF cached[p] = CacheFor THEN @ \cup {0} ELSE @]

(* The timer deletes by key: it may hit a later token than its own. *)
CacheTimerFires(p) ==
    /\ \/ /\ cached[p] = CacheFor
          /\ cached' = [cached EXCEPT ![p] = None]
          /\ UNCHANGED orphans
       \/ /\ 0 \in orphans[p]
          /\ cached' = [cached EXCEPT ![p] = None]
          /\ orphans' = [orphans EXCEPT ![p] =
               (@ \ {0}) \cup (IF cached[p] = None THEN {} ELSE {CacheFor - cached[p]})]
    /\ UNCHANGED <<storeVars, kiteVars, asks, tokens>>

(* Timers fire before time goes on. *)
TimersDone == \A p \in Pairs : cached[p] # CacheFor /\ 0 \notin orphans[p]

Tick ==
    /\ TimersDone
    /\ \E k \in Kites : tokens[k].left > 0
    /\ cached' = [p \in Pairs |-> IF cached[p] = None THEN None ELSE cached[p] + 1]
    /\ orphans' = [p \in Pairs |-> {t - 1 : t \in orphans[p]}]
    /\ tokens' = [k \in Kites |-> [tokens[k] EXCEPT !.left = IF @ = 0 THEN 0 ELSE @ - 1]]
    /\ UNCHANGED <<storeVars, kiteVars, asks>>

-----------------------------------------------------------------------------
KeysNext ==
    \/ \E p \in Pairs : AddKeyPair(p) \/ AddKeyPairFails(p) \/ DeleteKeyPair(p)
                            \/ CacheExpires(p) \/ CacheTimerFires(p)
    \/ KontrolRestart
    \/ \E k \in Kites : HandleMachine(k) \/ Restart(k) \/ VerifyInit(k)
                            \/ HandleRegister(k) \/ GetKey(k) \/ FindKeyPair(k) \/ CachedToken(k) \/ GenerateToken(k)
    \/ Tick

KeysSpec == KeysInit /\ [][KeysNext]_keysVars

(* AuthenticateFromToken at the kite: the signature and the expiry. *)
VerifiesWith(k) == IF kontrolKey[k] = None THEN configKey[k] ELSE kontrolKey[k]
Accepts(k) == tokens[k].pair = VerifiesWith(k) /\ tokens[k].left > 0

(* A request is answered, and the renewer asks again when the kite refuses *)
(* the token (callOnTokenExpireHandlers).                                  *)
KeysFairness ==
    \A k \in Kites :
        /\ WF_keysVars(~Accepts(k) /\ FindKeyPair(k))
        /\ WF_keysVars(CachedToken(k) \/ GenerateToken(k))

KeysFairSpec == KeysSpec /\ KeysFairness

-----------------------------------------------------------------------------
(* With Postgres and kontrol's own pair live in its table, a registration  *)
(* that is answered leaves the kite with a key of a live pair, which it    *)
(* verifies tokens with, and a kite that came with such a key is recorded  *)
(* with it, however keys were added, retired and fetched.  (A kite that    *)
(* was moved is only sure to be recorded when it registers again; and the  *)
(* other storages keep finding a retired pair by its public key.)          *)
LiveRegistration ==
    [][\A k \in Kites :
          storage = "postgres" /\ rows[Self] = "valid" /\ HandleRegister(k) =>
            /\ rows'[kiteKey'[k]] = "valid"
            /\ VerifiesWith(k)' = kiteKey'[k]
            /\ rows[kiteKey[k]] = "valid" => record'[k] = kiteKey[k]]_keysVars

(* A token that is handed out, from the cache or not, is good for another  *)
(* two leeways at least, whichever timers cleared the cache.               *)
TokenLives ==
    [][\A k \in Kites : CachedToken(k) \/ GenerateToken(k)
            => tokens'[k].left >= 2 * Leeway]_keysVars

(* The kite is registered with the live pair it verifies tokens with. *)
Settled(k) ==
    record[k] # None /\ GetKeyFromID(record[k]) = "valid" /\ VerifiesWith(k) = record[k]

(* A client whose token is refused, or was signed with a pair retired      *)
(* while kontrol answered, ends up with one the kite accepts.              *)
ClientRecovers == \A k \in Kites : Settled(k) ~> Accepts(k) \/ ~Settled(k)

(* A kite that goes on registering, as RegisterForever does after every    *)
(* reconnection, gets off a retired pair and is recorded with a live one,  *)
(* also where the record of its move was lost in Postgres.                 *)
RotationSpec == KeysFairSpec /\ \A k \in Kites : WF_keysVars(HandleRegister(k))
RotationCompletes ==
    \A k \in Kites :
        storage = "postgres" /\ kiteKey[k] # None /\ rows[Self] = "valid"
            ~> /\ kiteKey[k] # None /\ rows[kiteKey[k]] = "valid"
               /\ record[k] = kiteKey[k]

(* "Return if there is any error" (kontrol/handlers.go:82-83): a kite that *)
(* is answered is recorded with the pair of the key it then has.  Not so   *)
(* when the rollback has swallowed the error (kontrol/postgres.go:261-268).*)
RegistrationRecorded ==
    [][\A k \in Kites : HandleRegister(k) => record'[k] = kiteKey'[k]]_keysVars
=============================================================================
