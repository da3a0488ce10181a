---------------------------- MODULE ApiKeys_proofs ----------------------------
(***************************************************************************)
(* Proofs about ApiKeys: its types, and that a revocation that left no way *)
(* back takes effect for good, for every set of keys and of requests.      *)
(***************************************************************************)
EXTENDS ApiKeys, TLAPS

\* A key is not deleted while a revocation has yet to delete it.
HashedNotDeleted == \A k \in Keys : revoking[k] = "hashed" => keys[k] # "deleted"

\* A key deleted with nobody between query and fill gets no filler later: only
\* a document that is there sends a lookup on to its second query.
NoLateFiller ==
    \A k \in Keys : keys[k] = "deleted" /\ ~leaky[k] => ~MayStillFill(k)

KInv == TypeOK /\ HashedNotDeleted /\ NoLateFiller /\ QuietRevokeIsFinal

\* The inductive invariant holds initially.
LEMMA KInvInit == Init => KInv
<1> SUFFICES ASSUME Init PROVE KInv
  OBVIOUS
<1>1. lookup \in [Lookups -> Lookup]
  <2>1. [pc : {"idle"}, key : Keys, seen : {FALSE}, late : {FALSE}] \subseteq Lookup
    BY DEF Lookup
  <2> QED
    BY <2>1 DEF Init
<1>2. TypeOK
  <2>1. /\ keys \in [Keys -> KeyState]
        /\ cache \in [Keys -> Entry]
        /\ revoking \in [Keys -> {"no", "hashed", "deleted"}]
        /\ leaky \in [Keys -> BOOLEAN]
    BY DEF Init, Entry, KeyState
  <2>2. active \in BOOLEAN /\ switching \in BOOLEAN /\ evictions \in Nat
    BY DEF Init
  <2>3. switches \in 0..MaxSwitches
    BY ApiKeysAssumption DEF Init
  <2> QED
    BY <1>1, <2>1, <2>2, <2>3 DEF TypeOK
<1> QED
  BY <1>2 DEF Init, KInv, HashedNotDeleted, NoLateFiller, QuietRevokeIsFinal, Revoked

\* Moving a request keeps the requests typed.
LEMMA MoveTyped ==
  ASSUME lookup \in [Lookups -> Lookup], NEW l \in Lookups,
         NEW pc \in {"key", "client", "fill", "accepted", "rejected"}, Move(l, pc)
  PROVE  lookup' \in [Lookups -> Lookup]
<1>1. [lookup[l] EXCEPT !.pc = pc] \in Lookup
  BY DEF Lookup
<1> QED
  BY <1>1 DEF Move

\* The same, with what was read of the client.
LEMMA ReadTyped ==
  ASSUME lookup \in [Lookups -> Lookup], NEW l \in Lookups, NEW b \in BOOLEAN,
         NEW pc \in {"key", "client", "fill", "accepted", "rejected"},
         lookup' = [lookup EXCEPT ![l].pc = pc, ![l].seen = b]
  PROVE  lookup' \in [Lookups -> Lookup]
<1>1. [lookup[l] EXCEPT !.pc = pc] \in Lookup
  BY DEF Lookup
<1>2. [[lookup[l] EXCEPT !.pc = pc] EXCEPT !.seen = b] \in Lookup
  BY <1>1 DEF Lookup
<1> QED
  BY <1>2

\* Every step preserves the types.
LEMMA TypeStep == ASSUME TypeOK, [Next]_vars PROVE TypeOK'
<1> USE ApiKeysAssumption DEF TypeOK, Entry, KeyState
<1>1. ASSUME NEW l \in Lookups, NEW k \in Keys, Arrive(l, k) PROVE TypeOK'
  <2>1. Revoked(k) \in BOOLEAN
    BY DEF Revoked
  <2>2. [pc |-> "get", key |-> k, seen |-> FALSE, late |-> Revoked(k)] \in Lookup
    BY <2>1 DEF Lookup
  <2> QED
    BY <1>1, <2>2 DEF Arrive
<1>2. ASSUME NEW l \in Lookups, CacheHit(l) PROVE TypeOK'
  <2>1. PICK pc \in {"accepted", "rejected"} : Move(l, pc)
    BY <1>2 DEF CacheHit, Verdict
  <2>2. lookup' \in [Lookups -> Lookup]
    BY <2>1, MoveTyped
  <2> QED
    BY <1>2, <2>2 DEF CacheHit
<1>3. ASSUME NEW l \in Lookups, CacheMiss(l) PROVE TypeOK'
  <2>1. lookup' \in [Lookups -> Lookup]
    BY <1>3, MoveTyped DEF CacheMiss
  <2> QED
    BY <1>3, <2>1 DEF CacheMiss
<1>4. ASSUME NEW l \in Lookups, FindKey(l) PROVE TypeOK'
  <2>1. PICK pc \in {"client", "rejected"} : Move(l, pc)
    BY <1>4 DEF FindKey
  <2>2. lookup' \in [Lookups -> Lookup]
    BY <2>1, MoveTyped
  <2> QED
    BY <1>4, <2>2 DEF FindKey
<1>5. ASSUME NEW l \in Lookups, FindClient(l) PROVE TypeOK'
  <2>1. lookup' \in [Lookups -> Lookup]
    <3>1. CASE lookup' = [lookup EXCEPT ![l].pc = "fill", ![l].seen = active]
      BY <3>1, ReadTyped
    <3>2. CASE Move(l, "rejected")
      BY <3>2, MoveTyped
    <3> QED
      BY <1>5, <3>1, <3>2 DEF FindClient
  <2> QED
    BY <1>5, <2>1 DEF FindClient
<1>6. ASSUME NEW l \in Lookups, FillCache(l) PROVE TypeOK'
  <2>1. PICK entry \in {"active", "inactive"} :
            /\ lookup' = [lookup EXCEPT ![l].pc = Verdict(entry), ![l].seen = FALSE]
            /\ Command(lookup[l].key, entry)
    BY <1>6 DEF FillCache
  <2>2. lookup' \in [Lookups -> Lookup]
    <3>1. Verdict(entry) \in {"accepted", "rejected"}
      BY DEF Verdict
    <3> QED
      BY <2>1, <3>1, ReadTyped
  <2>3. cache' \in [Keys -> Entry]
    BY <2>1 DEF Command
  <2> QED
    BY <1>6, <2>2, <2>3 DEF FillCache
<1>7. ASSUME NEW k \in Keys, CreateKey(k) \/ ExpireKey(k) \/ StartRevoke(k) PROVE TypeOK'
  BY <1>7 DEF CreateKey, ExpireKey, StartRevoke
<1>8. ASSUME NEW k \in Keys, DeleteKey(k) PROVE TypeOK'
  BY <1>8 DEF DeleteKey, MayStillFill
<1>9. ASSUME NEW k \in Keys, EvictKey(k) \/ ExpireEntry(k) PROVE TypeOK'
  BY <1>9 DEF EvictKey, ExpireEntry, Command
<1>10. CASE Deactivate \/ DeactivateReturns
  <2>1. CASE Deactivate
    <3>1. switches' \in 0..MaxSwitches
      BY <2>1 DEF Deactivate
    <3> QED
      BY <2>1, <3>1 DEF Deactivate
  <2>2. CASE DeactivateReturns
    <3>1. evictions' \in Nat
      BY <2>2, SMT DEF DeactivateReturns
    <3>2. switching' \in BOOLEAN
      BY <2>2, Zenon DEF DeactivateReturns
    <3>3. UNCHANGED <<keys, active, cache, lookup, revoking, switches, leaky>>
      BY <2>2, Zenon DEF DeactivateReturns
    <3> QED
      BY <3>1, <3>2, <3>3, Zenon
  <2> QED
    BY <1>10, <2>1, <2>2
<1>11. CASE EvictClient
  <2>1. cache' \in [Keys -> Entry]
    BY <1>11 DEF EvictClient
  <2>2. evictions' \in Nat
    BY <1>11 DEF EvictClient
  <2> QED
    BY <1>11, <2>1, <2>2 DEF EvictClient
<1>12. CASE Activate
  BY <1>12 DEF Activate, Lookup
<1>13. CASE UNCHANGED vars
  BY <1>13 DEF vars
<1> QED
  BY <1>1, <1>2, <1>3, <1>4, <1>5, <1>6, <1>7, <1>8, <1>9, <1>10, <1>11, <1>12, <1>13
  DEF Next, LookupStep

\* Every step preserves the rest of the invariant.
LEMMA RevokeStep == ASSUME KInv, [Next]_vars
                    PROVE HashedNotDeleted' /\ NoLateFiller' /\ QuietRevokeIsFinal'
<1> DEFINE Goal == HashedNotDeleted' /\ NoLateFiller' /\ QuietRevokeIsFinal'
<1> USE ApiKeysAssumption
    DEF KInv, TypeOK, Lookup, Entry, KeyState, HashedNotDeleted, NoLateFiller, MayStillFill,
        QuietRevokeIsFinal, Revoked
<1>1. ASSUME NEW l \in Lookups, NEW k \in Keys, Arrive(l, k) PROVE Goal
  BY <1>1 DEF Arrive
<1>2. ASSUME NEW l \in Lookups, CacheHit(l) \/ CacheMiss(l) PROVE Goal
  BY <1>2 DEF CacheHit, CacheMiss, Move, At, Verdict
<1>4. ASSUME NEW l \in Lookups, FindKey(l) PROVE Goal
  BY <1>4 DEF FindKey, Findable, Move, At
<1>5. ASSUME NEW l \in Lookups, FindClient(l) PROVE Goal
  BY <1>5 DEF FindClient, Move, At
<1>6. ASSUME NEW l \in Lookups, FillCache(l) PROVE Goal
  BY <1>6 DEF FillCache, Command, At, Verdict
<1>7. ASSUME NEW k \in Keys, CreateKey(k) \/ ExpireKey(k) \/ StartRevoke(k) PROVE Goal
  BY <1>7 DEF CreateKey, ExpireKey, StartRevoke
<1>8. ASSUME NEW k \in Keys, DeleteKey(k) PROVE Goal
  BY <1>8 DEF DeleteKey
<1>9. ASSUME NEW k \in Keys, EvictKey(k) \/ ExpireEntry(k) PROVE Goal
  BY <1>9 DEF EvictKey, ExpireEntry, Command
<1>10. CASE Deactivate \/ DeactivateReturns
  BY <1>10 DEF Deactivate, DeactivateReturns
<1>11. CASE EvictClient
  BY <1>11 DEF EvictClient
<1>12. CASE Activate
  BY <1>12 DEF Activate
<1>13. CASE UNCHANGED vars
  BY <1>13 DEF vars
<1> QED
  BY <1>1, <1>2, <1>4, <1>5, <1>6, <1>7, <1>8, <1>9, <1>10, <1>11, <1>12, <1>13
  DEF Next, LookupStep

\* The inductive invariant holds in every reachable state.
THEOREM KInvAlways == Spec => []KInv
<1>1. KInv /\ [Next]_vars => KInv'
  BY TypeStep, RevokeStep DEF KInv
<1> QED
  BY KInvInit, <1>1, PTL DEF Spec

\* The state of keys, cache and requests is well typed (TypeOK).
THEOREM ApiKeysTypeCorrect == Spec => []TypeOK
  BY KInvAlways, PTL DEF KInv

\* revokeApiKey (apiKey.service.ts:172-177) keeps its word whenever no lookup
\* was under way between the two reads and the fill, and nothing failed.
THEOREM ApiKeysQuietRevokeIsFinal == Spec => []QuietRevokeIsFinal
  BY KInvAlways, PTL DEF KInv
=============================================================================
