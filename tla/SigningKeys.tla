------------------------------ MODULE SigningKeys ------------------------------
(***************************************************************************)
(* The keys that sign access tokens: how identity instances find or make   *)
(* theirs at start-up (services/identity/internal/app), and how a service  *)
(* checks a token against its cache of the published keys                  *)
(* (libs/go/ident).  Keys are numbered in the order they are made.  Every  *)
(* instance has the master key.                                            *)
(***************************************************************************)
EXTENDS Integers, FiniteSets, FiniteSetsExt

CONSTANTS
    Instances,   \* identity processes
    Requests,    \* requests a service authenticates at the same time
    Refresher,   \* the service's background refresh
    MaxKeys,     \* bound: signing keys ever made
    Legacy,      \* keys stored in the clear before there was a master key
    MaxFaults    \* bound: crashes, and fetches that fail

ASSUME KeysAreNumbered ==
    /\ MaxKeys \in Nat \ {0} /\ MaxFaults \in Nat
    /\ Legacy \in 0..MaxKeys
    /\ Refresher \notin Requests

VARIABLES
    table,      \* signing_keys: "none", "plain" or "sealed"
    instance,   \* each instance's progress through EnsureSigningKey, and its key
    signed,     \* keys that have signed a token
    cache,      \* jwksCache.keys
    fresh,      \* fetchedAt is less than refreshEvery ago
    started,    \* once.Do has started the refresher
    call,       \* each authentication, and the refresher's fetch
    faults

vars == <<table, instance, signed, cache, fresh, started, call, faults>>

Kids == 1..MaxKeys
Callers == Requests \cup {Refresher}
Down == [at |-> "down", kid |-> 0, todo |-> {}]
Call(at) == [at |-> at, kid |-> 0, known |-> FALSE, doc |-> {}]

(* The table is empty or holds keys of before encryption at rest. *)
Init ==
    /\ \E n \in {0, Legacy} : table = [k \in Kids |-> IF k =< n THEN "plain" ELSE "none"]
    /\ instance = [i \in Instances |-> Down]
    /\ signed = {}
    /\ cache = {}
    /\ fresh = FALSE
    /\ started = FALSE
    /\ call = [c \in Callers |-> Call("idle")]
    /\ faults = 0

-----------------------------------------------------------------------------
(***************************************************************************)
(* EnsureSigningKey                                                        *)
(***************************************************************************)

ActiveKeys == {k \in Kids : table[k] /= "none"}
Made == ActiveKeys \cup {instance[i].kid : i \in Instances} \cup {0}

\* Mutant: only the key that will sign is sealed.
ListActiveSigningKeys_SealsFirst(i) ==
    /\ instance[i].at = "down"
    /\ \/ /\ ActiveKeys /= {}
          /\ instance' = [instance EXCEPT ![i] =
                 [at |-> "sealing", kid |-> Max(ActiveKeys),
                  todo |-> {k \in {Max(ActiveKeys)} : table[k] = "plain"}]]
       \/ /\ ActiveKeys = {}
          /\ Max(Made) < MaxKeys
          /\ instance' = [instance EXCEPT ![i] =
                 [at |-> "inserting", kid |-> Max(Made) + 1, todo |-> {}]]
    /\ UNCHANGED <<table, signed, cache, fresh, started, call, faults>>

(* The newest active key signs; those in the clear are sealed first.  With *)
(* no key at all the instance makes one.                                   *)
ListActiveSigningKeys(i) ==
    /\ instance[i].at = "down"
    /\ \/ /\ ActiveKeys /= {}
          /\ instance' = [instance EXCEPT ![i] =
                 [at |-> "sealing", kid |-> Max(ActiveKeys),
                  todo |-> {k \in ActiveKeys : table[k] = "plain"}]]
       \/ /\ ActiveKeys = {}
          /\ Max(Made) < MaxKeys
          /\ instance' = [instance EXCEPT ![i] =
                 [at |-> "inserting", kid |-> Max(Made) + 1, todo |-> {}]]
    /\ UNCHANGED <<table, signed, cache, fresh, started, call, faults>>

UpdateSigningKeyPrivatePEM(i) ==
    /\ instance[i].at = "sealing" /\ instance[i].todo /= {}
    /\ LET k == Max(instance[i].todo) IN
       /\ table' = [table EXCEPT ![k] = "sealed"]
       /\ instance' = [instance EXCEPT ![i].todo = @ \ {k}]
    /\ UNCHANGED <<signed, cache, fresh, started, call, faults>>

UseExisting(i) ==
    /\ instance[i].at = "sealing" /\ instance[i].todo = {}
    /\ instance' = [instance EXCEPT ![i].at = "up"]
    /\ UNCHANGED <<table, signed, cache, fresh, started, call, faults>>

InsertSigningKey(i) ==
    /\ instance[i].at = "inserting"
    /\ instance' = [instance EXCEPT ![i].at = "up"]
    /\ table' = [table EXCEPT ![instance[i].kid] = "sealed"]
    /\ UNCHANGED <<signed, cache, fresh, started, call, faults>>

(* The process dies, or a query fails and run() returns the error.         *)
Crash(i) ==
    /\ instance[i].at /= "down"
    /\ faults < MaxFaults
    /\ faults' = faults + 1
    /\ instance' = [instance EXCEPT ![i] = Down]
    /\ UNCHANGED <<table, signed, cache, fresh, started, call>>

Issue(i) ==
    /\ instance[i].at = "up"
    /\ signed' = signed \cup {instance[i].kid}
    /\ UNCHANGED <<table, instance, cache, fresh, started, call, faults>>

-----------------------------------------------------------------------------
(***************************************************************************)
(* RequireAuth's key lookup                                                *)
(***************************************************************************)

Settled == {"idle", "accepted", "failed", "overtaken", "refused"}

\* Mutant: a fresh cache is trusted to be complete.
Lookup_TrustsFresh(r, k) ==
    /\ call[r].at \in Settled
    /\ started' = TRUE
    /\ call' = [call EXCEPT ![r] =
           IF fresh THEN Call(IF k \in cache THEN "accepted" ELSE "refused")
           ELSE [at |-> "fetching", kid |-> k, known |-> k \in cache, doc |-> {}]]
    /\ UNCHANGED <<table, instance, signed, cache, fresh, faults>>

(* A request brings a token of key k: the cached key serves while the      *)
(* cache is fresh, anything else is a fetch.                               *)
Lookup(r, k) ==
    /\ call[r].at \in Settled
    /\ started' = TRUE
    /\ call' = [call EXCEPT ![r] =
           IF fresh /\ k \in cache THEN Call("accepted")
           ELSE [at |-> "fetching", kid |-> k, known |-> k \in cache, doc |-> {}]]
    /\ UNCHANGED <<table, instance, signed, cache, fresh, faults>>

(* refreshLoop's ticker. *)
Refresh ==
    /\ started
    /\ call[Refresher].at = "idle"
    /\ call' = [call EXCEPT ![Refresher].at = "fetching"]
    /\ UNCHANGED <<table, instance, signed, cache, fresh, started, faults>>

(* refreshEvery has passed since the last fetch. *)
Stale ==
    /\ fresh
    /\ fresh' = FALSE
    /\ UNCHANGED <<table, instance, signed, cache, started, call, faults>>

(* An instance reads the table and answers GET /.well-known/jwks.json; a   *)
(* document without keys is an error to the caller.                        *)
JWKS(c) ==
    /\ call[c].at = "fetching"
    /\ \E i \in Instances : instance[i].at = "up"
    /\ ActiveKeys /= {}
    /\ call' = [call EXCEPT ![c].at = "answered", ![c].doc = ActiveKeys]
    /\ UNCHANGED <<table, instance, signed, cache, fresh, started, faults>>

(* No instance answers in time: a request falls back on the stale key.     *)
FetchFails(c) ==
    /\ call[c].at = "fetching"
    /\ faults < MaxFaults
    /\ faults' = faults + 1
    /\ call' = [call EXCEPT ![c] =
           Call(IF c = Refresher THEN "idle" ELSE IF @.known THEN "accepted" ELSE "failed")]
    /\ UNCHANGED <<table, instance, signed, cache, fresh, started>>

\* Mutant: an answer is stored only in an empty cache.
Store_KeepsOld(c) ==
    /\ call[c].at = "answered"
    /\ cache' = IF cache = {} THEN call[c].doc ELSE cache
    /\ fresh' = TRUE
    /\ call' = [call EXCEPT ![c] = IF c = Refresher THEN Call("idle")
                                   ELSE [@ EXCEPT !.at = "stored"]]
    /\ UNCHANGED <<table, instance, signed, started, faults>>

(* The answer replaces the cache, however long it has been on its way.     *)
Store(c) ==
    /\ call[c].at = "answered"
    /\ cache' = call[c].doc
    /\ fresh' = TRUE
    /\ call' = [call EXCEPT ![c] = IF c = Refresher THEN Call("idle")
                                   ELSE [@ EXCEPT !.at = "stored"]]
    /\ UNCHANGED <<table, instance, signed, started, faults>>

(* After its fetch the request looks again.                                *)
Recheck(r) ==
    /\ call[r].at = "stored"
    /\ call' = [call EXCEPT ![r] = Call(
           IF @.kid \in cache THEN "accepted" ELSE IF @.kid \in @.doc THEN "overtaken"
           ELSE "refused")]
    /\ UNCHANGED <<table, instance, signed, cache, fresh, started, faults>>

Next ==
    \/ \E i \in Instances :
           \/ ListActiveSigningKeys(i) \/ UpdateSigningKeyPrivatePEM(i) \/ UseExisting(i)
           \/ InsertSigningKey(i) \/ Crash(i) \/ Issue(i)
    \/ \E r \in Requests : Recheck(r) \/ \E k \in signed : Lookup(r, k)
    \/ Refresh \/ Stale
    \/ \E c \in Callers : JWKS(c) \/ FetchFails(c) \/ Store(c)

Spec == Init /\ [][Next]_vars

(***************************************************************************)
(* Instances are restarted and the refresher's ticker and its requests run *)
(* on.                                                                     *)
(***************************************************************************)
StartUp(i) ==
    \/ ListActiveSigningKeys(i) \/ UpdateSigningKeyPrivatePEM(i) \/ UseExisting(i)
    \/ InsertSigningKey(i)

FairSpec ==
    /\ Spec
    /\ \A i \in Instances : WF_vars(StartUp(i))
    /\ WF_vars(Refresh)
    /\ \A c \in Callers : WF_vars(JWKS(c)) /\ WF_vars(Store(c))

-----------------------------------------------------------------------------

(* Tables, documents and calls keep their shapes, and no key is made twice. *)
TypeOK ==
    /\ table \in [Kids -> {"none", "plain", "sealed"}]
    /\ instance \in [Instances -> [at : {"down", "sealing", "inserting", "up"},
                                   kid : 0..MaxKeys, todo : SUBSET Kids]]
    /\ signed \in SUBSET Kids
    /\ cache \in SUBSET Kids
    /\ {fresh, started} \subseteq BOOLEAN
    /\ call \in [Callers -> [at : Settled \cup {"fetching", "answered", "stored"},
                             kid : 0..MaxKeys, known : BOOLEAN, doc : SUBSET Kids]]
    /\ faults \in 0..MaxFaults

(***************************************************************************)
(* Every key that has signed a token is published, also when instances     *)
(* start together on an empty table and each makes its own, or die half    *)
(* way (EnsureSigningKey persists a key before it returns it).             *)
(***************************************************************************)
SignersArePublished == signed \subseteq ActiveKeys

(***************************************************************************)
(* Once an instance is up no key is stored in the clear, the older keys it *)
(* does not sign with included (EnsureSigningKey).                         *)
(***************************************************************************)
SealedOnceUp ==
    (\E i \in Instances : instance[i].at = "up") => \A k \in Kids : table[k] /= "plain"

(***************************************************************************)
(* A token of a published key is turned away only when its request's own   *)
(* fetch failed, or when an answer that had been on its way for longer     *)
(* replaced the cache between the request's fetch and its second look      *)
(* (jwksCache.key).                                                        *)
(***************************************************************************)
NoValidTokenIsUnknown == \A r \in Requests : call[r].at /= "refused"

(***************************************************************************)
(* A cached key is never forgotten for good: the cache ends up holding     *)
(* every key that has signed, whatever answers arrive late (refreshLoop).  *)
(***************************************************************************)
CacheConverges == \A k \in Kids : (started /\ k \in signed) ~> [](k \in cache)

\* An instance that is past its first look at the table has a published key or is about
\* to publish one, and has every key in the clear on its list.
StartUpSealsAll ==
    \A i \in Instances :
        /\ instance[i].at = "sealing" => {k \in Kids : table[k] = "plain"} \subseteq instance[i].todo
        /\ instance[i].at = "inserting" =>
               instance[i].kid \in Kids /\ \A k \in Kids : table[k] /= "plain"
        /\ instance[i].at \in {"sealing", "up"} => instance[i].kid \in ActiveKeys

\* A request asks for a key that has signed, and the answer it got holds that key.
AnswersHoldTheKey ==
    \A r \in Requests :
        /\ call[r].at \in {"fetching", "answered", "stored"} => call[r].kid \in signed
        /\ call[r].at \in {"answered", "stored"} => call[r].kid \in call[r].doc

(***************************************************************************)
(* However instances start together and die half way through their start-  *)
(* up, a key signs only once it is published, no key is left in the clear  *)
(* behind an instance that is up, and every answer to a request holds the  *)
(* key of its token (EnsureSigningKey, jwksCache.key).                     *)
(***************************************************************************)
KeysInvariant ==
    /\ TypeOK /\ SignersArePublished /\ SealedOnceUp
    /\ StartUpSealsAll /\ AnswersHoldTheKey
=============================================================================
