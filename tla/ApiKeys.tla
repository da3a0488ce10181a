------------------------------- MODULE ApiKeys -------------------------------
(***************************************************************************)
(* API keys of one client (clients share nothing): ApiKeyService and the   *)
(* part of ClientService that changes who may use them, with ApiKeyCache   *)
(* in Redis in front of the collections apikeys and clients.  Every ingest *)
(* request is a lookup through validateApiKey; a lookup that misses the    *)
(* cache reads the key, then the client, and fills the cache with what it  *)
(* read, while keys are revoked and the client is switched off and on.     *)
(*                                                                         *)
(* One action runs from one await to the next.  Redis executes the         *)
(* commands of the process in the order they are issued, so a command that *)
(* nobody awaits takes effect in the action that issues it.                *)
(***************************************************************************)
EXTENDS Naturals

CONSTANTS
    Keys,           \* API keys ever created
    Lookups,        \* ingest requests that may overlap
    MaxSwitches,    \* bound: deactivations of the client
    MongoMayFail,   \* may a query of a lookup or a revocation fail?
    RedisMayFail    \* may a command of the cache fail?

ASSUME ApiKeysAssumption ==
    /\ MaxSwitches \in Nat
    /\ MongoMayFail \in BOOLEAN /\ RedisMayFail \in BOOLEAN

VARIABLES
    keys,        \* the documents of apikeys
    active,      \* isActive of the client
    cache,       \* cache:apikey:*, by the isActive of the answer
    lookup,      \* the requests
    revoking,    \* revokeApiKey, by key
    switching,   \* setClientActive(false): the update has not returned
    evictions,   \* invalidateApiKeyCacheForClient calls under way
    switches,    \* deactivations so far
    leaky        \* history: keys whose revocation left a way back to the cache

vars == <<keys, active, cache, lookup, revoking, switching, evictions, switches, leaky>>

KeyState == {"absent", "valid", "expired", "deleted"}

Entry == {"none", "active", "inactive"}

\* `late': the request arrived when the key had been revoked and revokeApiKey
\* had returned.
Lookup == [pc : {"idle", "get", "key", "client", "fill", "accepted", "rejected"},
           key : Keys,
           seen : BOOLEAN,       \* isActive, as the client was read
           late : BOOLEAN]

TypeOK ==
    /\ keys \in [Keys -> KeyState]
    /\ active \in BOOLEAN
    /\ cache \in [Keys -> Entry]
    /\ lookup \in [Lookups -> Lookup]
    /\ revoking \in [Keys -> {"no", "hashed", "deleted"}]
    /\ switching \in BOOLEAN
    /\ evictions \in Nat
    /\ switches \in 0..MaxSwitches
    /\ leaky \in [Keys -> BOOLEAN]

Init ==
    /\ keys = [k \in Keys |-> "absent"]
    /\ active = TRUE
    /\ cache = [k \in Keys |-> "none"]
    /\ lookup \in [Lookups -> [pc : {"idle"}, key : Keys, seen : {FALSE},
                            late : {FALSE}]]
    /\ revoking = [k \in Keys |-> "no"]
    /\ switching = FALSE
    /\ evictions = 0
    /\ switches = 0
    /\ leaky = [k \in Keys |-> FALSE]

\* An ApiKeyCache command on key k: done, or failed and logged.
Command(k, entry) ==
    \/ cache' = [cache EXCEPT ![k] = entry]
    \/ RedisMayFail /\ UNCHANGED cache

-----------------------------------------------------------------------------
(* validateApiKey and getClientFromApiKey.                                  *)

At(l, pc) == lookup[l].pc = pc

Move(l, pc) == lookup' = [lookup EXCEPT ![l].pc = pc]

Revoked(k) == keys[k] = "deleted" /\ revoking[k] = "no"

Arrive(l, k) ==
    /\ lookup[l].pc \in {"idle", "accepted", "rejected"}
    /\ keys[k] # "absent"
    /\ lookup' = [lookup EXCEPT ![l] =
                    [pc |-> "get", key |-> k, seen |-> FALSE,
                     late |-> Revoked(k)]]
    /\ UNCHANGED <<keys, active, cache, revoking, switching, evictions, switches, leaky>>

\* validateApiKey's verdict on a client's isActive.
Verdict(entry) == IF entry = "active" THEN "accepted" ELSE "rejected"

CacheHit(l) ==
    LET entry == cache[lookup[l].key]
    IN  /\ At(l, "get") /\ entry # "none"
        /\ Move(l, Verdict(entry))
        /\ UNCHANGED <<keys, active, cache, revoking, switching, evictions, switches, leaky>>

CacheMiss(l) ==
    /\ At(l, "get")
    /\ cache[lookup[l].key] = "none" \/ RedisMayFail
    /\ Move(l, "key")
    /\ UNCHANGED <<keys, active, cache, revoking, switching, evictions, switches, leaky>>

\* A query without the condition on expiresAt.
FindableExpired(k) == keys[k] \in {"valid", "expired"}

Findable(k) == keys[k] = "valid"

\* findByKeyValue
FindKey(l) ==
    /\ At(l, "key")
    /\ \/ Findable(lookup[l].key) /\ Move(l, "client")
       \/ ~Findable(lookup[l].key) /\ Move(l, "rejected")
       \/ MongoMayFail /\ Move(l, "rejected")
    /\ UNCHANGED <<keys, active, cache, revoking, switching, evictions, switches, leaky>>

\* clientRepo.findById
FindClient(l) ==
    /\ At(l, "client")
    /\ \/ lookup' = [lookup EXCEPT ![l].pc = "fill", ![l].seen = active]
       \/ MongoMayFail /\ Move(l, "rejected")
    /\ UNCHANGED <<keys, active, cache, revoking, switching, evictions, switches, leaky>>

\* The answer goes to the cache and to validateApiKey.
FillCache(l) ==
    LET entry == IF lookup[l].seen THEN "active" ELSE "inactive"
    IN  /\ At(l, "fill")
        /\ Command(lookup[l].key, entry)
        /\ lookup' = [lookup EXCEPT ![l].pc = Verdict(entry), ![l].seen = FALSE]
        /\ UNCHANGED <<keys, active, revoking, switching, evictions, switches, leaky>>

LookupStep(l) ==
    CacheHit(l) \/ CacheMiss(l) \/ FindKey(l) \/ FindClient(l) \/ FillCache(l)

-----------------------------------------------------------------------------
(* ApiKeyService: create and revoke.                                        *)

CreateKey(k) ==
    /\ keys[k] = "absent"
    /\ keys' = [keys EXCEPT ![k] = "valid"]
    /\ UNCHANGED <<active, cache, lookup, revoking, switching, evictions, switches, leaky>>

\* expiresAt passes.
ExpireKey(k) ==
    /\ keys[k] = "valid"
    /\ keys' = [keys EXCEPT ![k] = "expired"]
    /\ UNCHANGED <<active, cache, lookup, revoking, switching, evictions, switches, leaky>>

\* The checks of revokeApiKey, and the hash.
StartRevoke(k) ==
    /\ revoking[k] = "no" /\ keys[k] \in {"valid", "expired"}
    /\ revoking' = [revoking EXCEPT ![k] = "hashed"]
    /\ UNCHANGED <<keys, active, cache, lookup, switching, evictions, switches, leaky>>

\* A lookup has read the key and not yet filled the cache.
MayStillFill(k) == \E l \in Lookups : lookup[l].pc \in {"client", "fill"} /\ lookup[l].key = k

\* A service that deletes without evicting.
DeleteOnly(k) ==
    /\ revoking[k] = "hashed"
    /\ keys' = [keys EXCEPT ![k] = "deleted"]
    /\ leaky' = [leaky EXCEPT ![k] = MayStillFill(k)]
    /\ revoking' = [revoking EXCEPT ![k] = "no"]
    /\ UNCHANGED <<active, cache, lookup, switching, evictions, switches>>

\* The query may fail, or its reply be lost after the document is gone; then
\* revokeApiKey throws and evicts nothing.
DeleteKey(k) ==
    /\ revoking[k] = "hashed"
    /\ \/ /\ keys' = [keys EXCEPT ![k] = "deleted"]
          /\ leaky' = [leaky EXCEPT ![k] = MayStillFill(k)]
          /\ revoking' = [revoking EXCEPT ![k] = "deleted"]
       \/ /\ MongoMayFail
          /\ keys' \in {keys, [keys EXCEPT ![k] = "deleted"]}
          /\ leaky' = [leaky EXCEPT ![k] = TRUE]
          /\ revoking' = [revoking EXCEPT ![k] = "no"]
    /\ UNCHANGED <<active, cache, lookup, switching, evictions, switches>>

EvictKey(k) ==
    /\ revoking[k] = "deleted"
    /\ \/ /\ cache' = [cache EXCEPT ![k] = "none"]
          /\ UNCHANGED leaky
       \/ /\ RedisMayFail
          /\ leaky' = [leaky EXCEPT ![k] = TRUE]
          /\ UNCHANGED cache
    /\ revoking' = [revoking EXCEPT ![k] = "no"]
    /\ UNCHANGED <<keys, active, lookup, switching, evictions, switches>>

-----------------------------------------------------------------------------
(* ClientService.setClientActive.                                           *)

Deactivate ==
    /\ ~switching
    /\ switches < MaxSwitches /\ switches' = switches + 1
    /\ active' = FALSE
    /\ switching' = TRUE
    /\ UNCHANGED <<keys, cache, lookup, revoking, evictions, leaky>>

\* The update returns, and so does setClientActive; the eviction has begun.
DeactivateReturns ==
    /\ switching
    /\ switching' = FALSE
    /\ evictions' = evictions + 1
    /\ UNCHANGED <<keys, active, cache, lookup, revoking, switches, leaky>>

\* An eviction that nobody asked for.
EvictUnasked ==
    /\ cache' = [k \in Keys |-> "none"]
    /\ evictions' = evictions - 1
    /\ UNCHANGED <<keys, active, lookup, revoking, switching, switches, leaky>>

\* invalidateApiKeyCacheForClient: the keys that are still there, deleted from
\* the cache one by one as far as Redis and Mongo let it.
EvictClient ==
    /\ evictions > 0
    /\ evictions' = evictions - 1
    /\ \E failed \in SUBSET Keys :
         /\ failed # {} => RedisMayFail \/ MongoMayFail
         /\ cache' = [k \in Keys |->
                        IF keys[k] \in {"valid", "expired"} /\ k \notin failed
                        THEN "none" ELSE cache[k]]
    /\ UNCHANGED <<keys, active, lookup, revoking, switching, switches, leaky>>

\* Activation evicts nothing.
Activate ==
    /\ ~active /\ ~switching
    /\ active' = TRUE
    /\ UNCHANGED <<keys, cache, lookup, revoking, switching, evictions, switches, leaky>>

\* A cache without a TTL.
NeverExpires(k) == FALSE /\ UNCHANGED vars

\* The TTL of an entry passes.
ExpireEntry(k) ==
    /\ cache[k] # "none"
    /\ cache' = [cache EXCEPT ![k] = "none"]
    /\ UNCHANGED <<keys, active, lookup, revoking, switching, evictions, switches, leaky>>

Next ==
    \/ \E l \in Lookups : LookupStep(l) \/ \E k \in Keys : Arrive(l, k)
    \/ \E k \in Keys :
         \/ CreateKey(k) \/ ExpireKey(k)
         \/ StartRevoke(k) \/ DeleteKey(k) \/ EvictKey(k)
         \/ ExpireEntry(k)
    \/ Deactivate \/ DeactivateReturns \/ EvictClient \/ Activate

\* Queries return and the TTL passes.
Fairness ==
    /\ \A l \in Lookups : WF_vars(LookupStep(l))
    /\ \A k \in Keys : WF_vars(DeleteKey(k)) /\ WF_vars(EvictKey(k)) /\ WF_vars(ExpireEntry(k))
    /\ WF_vars(DeactivateReturns) /\ WF_vars(EvictClient)

Spec == Init /\ [][Next]_vars /\ Fairness

-----------------------------------------------------------------------------
(* Properties.                                                              *)

\* The key is there, unexpired, and its client is active.
Usable(k) == keys[k] = "valid" /\ active

Accepts(k) == \E l \in Lookups :
    lookup[l].key = k /\ lookup[l].pc \in {"get", "fill"} /\ lookup'[l].pc = "accepted"

\* A rejection by what the cache or the client's document said.
Rejects(k) == \E l \in Lookups :
    lookup[l].key = k /\ lookup[l].pc \in {"get", "fill"} /\ lookup'[l].pc = "rejected"

\* When no lookup was between its query for the key and its fill at the moment
\* of the delete, and neither the delete nor the eviction failed, a revoked key
\* is out of the cache and stays out: no fill, switch or expiry brings it back.
QuietRevokeIsFinal ==
    \A k \in Keys : Revoked(k) /\ ~leaky[k] => cache[k] = "none"

\* global.config.ts:241: the TTL "bounds how long a revoked/deactivated key can
\* keep working through the cache": a key that is not usable any more, be it
\* revoked, expired or its client's, is in the end accepted no more.
StaleKeysDieOut ==
    \A k \in Keys : <>[]~Usable(k) => <>[][~Accepts(k)]_vars

\* A key that stays usable is in the end not rejected any more, but for a query
\* that fails, whatever the cache remembers of the time when it was not usable.
UsableKeysRecover ==
    \A k \in Keys : <>[]Usable(k) => <>[][~Rejects(k)]_vars

\* apiKey.service.ts:172: revoke "must not leave a cached copy of the key
\* working until TTL expiry": a request that arrives after revokeApiKey has
\* returned is not accepted.  The code does not keep this: a lookup that has read
\* the key before it was deleted fills the cache after the eviction.
RevokedKeyStopsAtOnce ==
    \A l \in Lookups : lookup[l].late => ~At(l, "accepted")
=============================================================================
