------------------------- MODULE BreakerCalls_proofs ------------------------
(***************************************************************************)
(* What holds of the circuit breaker for every threshold, every number of  *)
(* probes and every finite set of concurrent calls.                        *)
(***************************************************************************)
EXTENDS BreakerCalls, FiniteSetTheorems, TLAPS

-----------------------------------------------------------------------------
(* What each method of the circuit breaker preserves: the type of the record *)
(* and the sanity of its counters, and how it moves the state.               *)

\* A new breaker is closed with clean counters.
LEMMA NewBreakerSane == NewBreaker \in Breaker /\ CountersSane(NewBreaker)
  BY ThresholdAssumption, HalfOpenAssumption
  DEF NewBreaker, Breaker, CircuitBreakerState, CountersSane

\* openCircuit and closeCircuit leave clean counters, whatever they were.
LEMMA ResetSane ==
  ASSUME NEW b \in Breaker
  PROVE  /\ OpenCircuit(b) \in Breaker /\ CountersSane(OpenCircuit(b))
         /\ OpenCircuit(b).state = "OPEN"
         /\ CloseCircuit(b) \in Breaker /\ CountersSane(CloseCircuit(b))
         /\ CloseCircuit(b).state = "CLOSED"
  <1> DEFINE r == ResetCounters(b)
  <1>1. /\ r \in Breaker
        /\ r.failureCount = 0
        /\ r.halfOpenStateAttempts = 0
        /\ r.halfOpenSuccessCount = 0
    BY DEF ResetCounters, Breaker
  <1> HIDE DEF r
  <1> DEFINE q == [r EXCEPT !.cooled = FALSE]
  <1>2. /\ [q EXCEPT !.state = "OPEN"] \in Breaker
        /\ CountersSane([q EXCEPT !.state = "OPEN"])
        /\ [q EXCEPT !.state = "OPEN"].state = "OPEN"
    <2>1. /\ q \in Breaker
          /\ q.failureCount = 0
          /\ q.halfOpenStateAttempts = 0
          /\ q.halfOpenSuccessCount = 0
      BY <1>1 DEF Breaker
    <2> HIDE DEF q
    <2>2. QED
      BY <2>1, ThresholdAssumption, HalfOpenAssumption
      DEF Breaker, CircuitBreakerState, CountersSane
  <1>3. /\ [r EXCEPT !.state = "CLOSED"] \in Breaker
        /\ CountersSane([r EXCEPT !.state = "CLOSED"])
        /\ [r EXCEPT !.state = "CLOSED"].state = "CLOSED"
    BY <1>1, ThresholdAssumption, HalfOpenAssumption
    DEF Breaker, CircuitBreakerState, CountersSane
  <1>4. OpenCircuit(b) = [q EXCEPT !.state = "OPEN"]
    BY DEF r, OpenCircuit
  <1>5. QED
    BY <1>2, <1>3, <1>4 DEF r, CloseCircuit

\* isRequestAllowed keeps the counters sane: a probe is spent only when one
\* is left, and only in HALF_OPEN.
LEMMA AskingSane ==
  ASSUME NEW b \in Breaker, CountersSane(b)
  PROVE  /\ AfterAsking(b) \in Breaker
         /\ CountersSane(AfterAsking(b))
  BY ThresholdAssumption, HalfOpenAssumption
  DEF AfterAsking, MoveToHalfOpenIfReady, ProbesLeft, Breaker,
      CircuitBreakerState, CountersSane

\* The three outcomes of isRequestAllowed: admitted by a closed breaker, which
\* is unchanged; admitted as a probe, which is counted; refused.
LEMMA AskingCases ==
  ASSUME NEW b \in Breaker, CountersSane(b)
  PROVE  \/ Allowed(b) /\ b.state = "CLOSED" /\ AfterAsking(b) = b
         \/ /\ Allowed(b) /\ b.state # "CLOSED"
            /\ AfterAsking(b).state = "HALF_OPEN"
            /\ AfterAsking(b).halfOpenStateAttempts = b.halfOpenStateAttempts + 1
            /\ AfterAsking(b).halfOpenSuccessCount = b.halfOpenSuccessCount
         \/ ~Allowed(b) /\ AfterAsking(b) = b
  BY HalfOpenAssumption
  DEF Allowed, AfterAsking, MoveToHalfOpenIfReady, ProbesLeft, Breaker,
      CircuitBreakerState, CountersSane

\* onSuccess keeps the counters sane: the success that reaches the limit
\* closes the breaker and clears them.
LEMMA SuccessSane ==
  ASSUME NEW b \in Breaker, CountersSane(b)
  PROVE  /\ OnSuccess(b) \in Breaker
         /\ CountersSane(OnSuccess(b))
  <1> DEFINE c == [b EXCEPT !.halfOpenSuccessCount = @ + 1]
  <1>1. CASE b.state # "HALF_OPEN"
    BY <1>1 DEF OnSuccess
  <1>2. CASE /\ b.state = "HALF_OPEN"
             /\ c.halfOpenSuccessCount >= halfOpenStateMaxAttempts
    <2>1. OnSuccess(b) = CloseCircuit(c)
      BY <1>2 DEF OnSuccess
    <2>2. c \in Breaker
      BY DEF Breaker
    <2>3. QED
      BY <2>1, <2>2, ResetSane
  <1>3. CASE /\ b.state = "HALF_OPEN"
             /\ ~(c.halfOpenSuccessCount >= halfOpenStateMaxAttempts)
    <2>1. OnSuccess(b) = c
      BY <1>3 DEF OnSuccess
    <2>2. /\ c \in Breaker
          /\ c.failureCount = b.failureCount
          /\ c.halfOpenStateAttempts = b.halfOpenStateAttempts
          /\ c.halfOpenSuccessCount \in Nat
          /\ c.state = "HALF_OPEN"
      BY <1>3 DEF Breaker
    <2>3. QED
      BY <1>3, <2>1, <2>2, HalfOpenAssumption DEF CountersSane
  <1>4. QED
    BY <1>1, <1>2, <1>3

\* onSuccess outside HALF_OPEN does nothing; inside, it counts or closes.
LEMMA SuccessCases ==
  ASSUME NEW b \in Breaker
  PROVE  \/ b.state # "HALF_OPEN" /\ OnSuccess(b) = b
         \/ b.state = "HALF_OPEN" /\ OnSuccess(b).state = "CLOSED"
         \/ /\ b.state = "HALF_OPEN" /\ OnSuccess(b).state = "HALF_OPEN"
            /\ OnSuccess(b).halfOpenStateAttempts = b.halfOpenStateAttempts
            /\ OnSuccess(b).halfOpenSuccessCount = b.halfOpenSuccessCount + 1
  <1> DEFINE c == [b EXCEPT !.halfOpenSuccessCount = @ + 1]
  <1>1. /\ c \in Breaker
        /\ c.state = b.state
        /\ c.halfOpenStateAttempts = b.halfOpenStateAttempts
        /\ c.halfOpenSuccessCount = b.halfOpenSuccessCount + 1
    BY DEF Breaker
  <1>2. OnSuccess(b) = IF b.state # "HALF_OPEN" THEN b
                       ELSE IF c.halfOpenSuccessCount >= halfOpenStateMaxAttempts
                            THEN CloseCircuit(c) ELSE c
    BY DEF OnSuccess
  <1>3. CloseCircuit(c).state = "CLOSED"
    BY <1>1, ResetSane
  <1> HIDE DEF c
  <1>4. QED
    BY <1>1, <1>2, <1>3

\* onFailure keeps the counters sane: the failure that reaches the threshold,
\* or any failure in HALF_OPEN, opens the breaker and clears them.
LEMMA FailureSane ==
  ASSUME NEW b \in Breaker, CountersSane(b)
  PROVE  /\ OnFailure(b) \in Breaker
         /\ CountersSane(OnFailure(b))
  <1> DEFINE c == [b EXCEPT !.failureCount = @ + 1, !.cooled = FALSE]
  <1> DEFINE d == [b EXCEPT !.failureCount = @ + 1]
  <1>0. c = [d EXCEPT !.cooled = FALSE] /\ d \in Breaker
    BY DEF Breaker
  <1>1. /\ c \in Breaker
        /\ c.failureCount \in Nat
        /\ c.state = b.state
        /\ c.halfOpenStateAttempts = b.halfOpenStateAttempts
        /\ c.halfOpenSuccessCount = b.halfOpenSuccessCount
    BY <1>0 DEF Breaker
  <1>2. CASE b.state = "HALF_OPEN"
    BY <1>2, ResetSane DEF OnFailure
  <1>3. CASE b.state # "HALF_OPEN" /\ c.failureCount >= failureThreshold
    <2>1. OnFailure(b) = OpenCircuit(c)
      BY <1>3 DEF OnFailure
    <2>2. QED
      BY <1>1, <2>1, ResetSane
  <1>4. CASE b.state # "HALF_OPEN" /\ ~(c.failureCount >= failureThreshold)
    <2>1. OnFailure(b) = c
      BY <1>4 DEF OnFailure
    <2>2. QED
      BY <1>1, <1>4, <2>1, ThresholdAssumption DEF CountersSane
  <1>5. QED
    BY <1>2, <1>3, <1>4

\* onFailure never leaves the breaker half-open, and what it does not open
\* stays in its state.
LEMMA FailureCases ==
  ASSUME NEW b \in Breaker
  PROVE  \/ OnFailure(b).state = "OPEN"
         \/ b.state # "HALF_OPEN" /\ OnFailure(b).state = b.state
  <1> DEFINE d == [b EXCEPT !.failureCount = @ + 1]
             c == [b EXCEPT !.failureCount = @ + 1, !.cooled = FALSE]
  <1>0. c = [d EXCEPT !.cooled = FALSE] /\ d \in Breaker
    BY DEF Breaker
  <1>1. c \in Breaker /\ c.state = b.state
    BY <1>0 DEF Breaker
  <1>2. OnFailure(b) = IF b.state = "HALF_OPEN" THEN OpenCircuit(b)
                       ELSE IF c.failureCount >= failureThreshold
                            THEN OpenCircuit(c) ELSE c
    BY DEF OnFailure
  <1>3. OpenCircuit(b).state = "OPEN" /\ OpenCircuit(c).state = "OPEN"
    BY <1>1, ResetSane
  <1> HIDE DEF c
  <1>4. QED
    BY <1>1, <1>2, <1>3

\* Time changes no counter.
LEMMA CooldownSane ==
  ASSUME NEW b \in Breaker, CountersSane(b)
  PROVE  /\ Cooldown(b) \in Breaker
         /\ CountersSane(Cooldown(b))
         /\ Cooldown(b).state = b.state
         /\ Cooldown(b).halfOpenStateAttempts = b.halfOpenStateAttempts
         /\ Cooldown(b).halfOpenSuccessCount = b.halfOpenSuccessCount
  BY DEF Cooldown, Breaker, CircuitBreakerState, CountersSane

-----------------------------------------------------------------------------
(* The calls.                                                                *)

\* Half-open probes: every probe in flight was counted when it was admitted.
ProbesCounted == Cardinality(Probes) <= breaker.halfOpenStateAttempts

\* The inductive invariant behind CountersOK, AtMostMaxProbes and
\* ProbesAccounted.
BInv ==
    /\ TypeOK
    /\ CountersOK
    /\ ProbesCounted
    /\ breaker.state # "HALF_OPEN" => Probes = {}
    /\ ProbesAccounted

\* There are finitely many probes in flight.
LEMMA ProbesFinite == IsFiniteSet(Probes) /\ Cardinality(Probes) \in Nat
  <1>1. Probes \subseteq Calls
    BY DEF Probes
  <1>2. QED
    BY <1>1, CallsAssumption, FS_Subset, FS_CardinalityType

\* Taking one call away takes at most one off the number of probes.
LEMMA ProbesWithout ==
  ASSUME NEW c
  PROVE  /\ Cardinality(Probes \ {c}) \in Nat
         /\ Cardinality(Probes \ {c}) <= Cardinality(Probes)
         /\ Cardinality(Probes) <= Cardinality(Probes \ {c}) + 1
  <1>1. IsFiniteSet(Probes) /\ Cardinality(Probes) \in Nat
    BY ProbesFinite
  <1>2. /\ IsFiniteSet(Probes \ {c})
        /\ Cardinality(Probes \ {c}) =
             IF c \in Probes THEN Cardinality(Probes) - 1 ELSE Cardinality(Probes)
    BY <1>1, FS_RemoveElement, Zenon
  <1>3. Cardinality(Probes \ {c}) \in Nat
    BY <1>2, FS_CardinalityType
  <1>4. QED
    BY <1>1, <1>2, <1>3

\* The program starts in a state of the invariant.
LEMMA BInvInit == Init => BInv
  <1> SUFFICES ASSUME Init PROVE BInv
    OBVIOUS
  <1>1. Probes = {}
    BY DEF Init, Probes
  <1>2. Cardinality(Probes) = 0
    BY <1>1, FS_EmptySet
  <1>3. QED
    BY <1>1, <1>2, ThresholdAssumption, HalfOpenAssumption
    DEF Init, BInv, TypeOK, CountersOK, CountersSane, ProbesCounted,
        ProbesAccounted, NewBreaker, Breaker, CircuitBreakerState, CallState

\* When call c ends, the probes in flight lose c, or all of them if the period
\* ended with it.
LEMMA EndCallProbes ==
  ASSUME TypeOK, NEW c \in Calls, call' = EndCall(c, breaker')
  PROVE  /\ call' \in [Calls -> CallState]
         /\ Probes' = IF PeriodEnds(breaker') THEN {} ELSE Probes \ {c}
  BY DEF TypeOK, EndCall, PeriodEnds, Probes, CallState

LEMMA AskKeepsBInv ==
  ASSUME BInv, NEW c \in Calls, Ask(c)
  PROVE  BInv'
  <1>1. breaker \in Breaker /\ CountersSane(breaker) /\ c \notin Probes
    BY DEF BInv, TypeOK, CountersOK, Ask, InFlight, Probes
  <1>2. breaker' = AfterAsking(breaker)
    BY DEF Ask
  <1>3. breaker' \in Breaker /\ CountersSane(breaker')
    BY <1>1, <1>2, AskingSane
  <1>4. TypeOK' /\ CountersOK'
    BY <1>3 DEF Ask, BInv, TypeOK, CountersOK, CallState
  <1>5. CASE /\ Allowed(breaker) /\ breaker.state # "CLOSED"
             /\ breaker'.state = "HALF_OPEN"
             /\ breaker'.halfOpenStateAttempts = breaker.halfOpenStateAttempts + 1
             /\ breaker'.halfOpenSuccessCount = breaker.halfOpenSuccessCount
    <2>1. Probes' = Probes \union {c}
      BY <1>5 DEF Ask, Probes, BInv, TypeOK
    <2>2. Cardinality(Probes') = Cardinality(Probes) + 1
      BY <1>1, <2>1, ProbesFinite, FS_AddElement
    <2>3. breaker.state # "HALF_OPEN" =>
            /\ Cardinality(Probes) = 0
            /\ breaker.halfOpenStateAttempts = 0
            /\ breaker.halfOpenSuccessCount = 0
      BY FS_EmptySet DEF BInv, CountersOK, CountersSane
    <2>4. /\ breaker.halfOpenStateAttempts \in Nat
          /\ breaker.halfOpenSuccessCount \in Nat
          /\ lostProbes \in Nat /\ lostProbes' = lostProbes
      BY <1>1 DEF Breaker, BInv, TypeOK, Ask
    <2>5. QED
      BY <1>4, <1>5, <2>2, <2>3, <2>4, ProbesFinite
      DEF BInv, ProbesCounted, ProbesAccounted
  <1>6. CASE /\ ~Allowed(breaker) \/ breaker.state = "CLOSED"
             /\ breaker' = breaker
    <2>1. Probes' = Probes
      BY <1>1, <1>6 DEF Ask, Probes, BInv, TypeOK
    <2>2. lostProbes' = lostProbes
      BY DEF Ask
    <2>3. QED
      BY <1>4, <1>6, <2>1, <2>2 DEF BInv, ProbesCounted, ProbesAccounted
  <1>7. QED
    BY <1>1, <1>2, <1>5, <1>6, AskingCases

LEMMA SucceedKeepsBInv ==
  ASSUME BInv, NEW c \in Calls, Succeed(c)
  PROVE  BInv'
  <1>1. /\ breaker \in Breaker /\ CountersSane(breaker)
        /\ breaker.halfOpenStateAttempts \in Nat
        /\ breaker.halfOpenSuccessCount \in Nat
        /\ breaker' = OnSuccess(breaker)
        /\ lostProbes \in Nat
        /\ lostProbes' = IF PeriodEnds(breaker') THEN 0 ELSE lostProbes
    BY DEF BInv, TypeOK, CountersOK, Succeed, Breaker
  <1>2. breaker' \in Breaker /\ CountersSane(breaker')
    BY <1>1, SuccessSane
  <1>3. /\ call' \in [Calls -> CallState]
        /\ Probes' = IF PeriodEnds(breaker') THEN {} ELSE Probes \ {c}
    BY EndCallProbes DEF Succeed, BInv
  <1>4. TypeOK' /\ CountersOK'
    BY <1>2, <1>3 DEF Succeed, BInv, TypeOK, CountersOK
  <1>5. /\ Cardinality(Probes \ {c}) \in Nat
        /\ Cardinality(Probes \ {c}) <= Cardinality(Probes)
        /\ Cardinality(Probes) <= Cardinality(Probes \ {c}) + 1
    BY ProbesWithout
  <1>6. CASE breaker.state # "HALF_OPEN" /\ breaker' = breaker
    BY <1>1, <1>3, <1>4, <1>6, <1>5, ProbesFinite
    DEF BInv, PeriodEnds, ProbesCounted, ProbesAccounted
  <1>7. CASE breaker.state = "HALF_OPEN" /\ breaker'.state = "CLOSED"
    <2>1. Probes' = {} /\ Cardinality(Probes') = 0
      BY <1>3, <1>7, FS_EmptySet DEF PeriodEnds
    <2>2. breaker'.halfOpenStateAttempts \in Nat
      BY <1>2 DEF Breaker
    <2>3. QED
      BY <1>4, <1>7, <2>1, <2>2 DEF BInv, ProbesCounted, ProbesAccounted
  <1>8. CASE /\ breaker.state = "HALF_OPEN" /\ breaker'.state = "HALF_OPEN"
             /\ breaker'.halfOpenStateAttempts = breaker.halfOpenStateAttempts
             /\ breaker'.halfOpenSuccessCount = breaker.halfOpenSuccessCount + 1
    <2>1. Probes' = Probes \ {c} /\ lostProbes' = lostProbes
      BY <1>1, <1>3, <1>8 DEF PeriodEnds
    <2>2. QED
      BY <1>1, <1>4, <1>5, <1>8, <2>1, ProbesFinite
      DEF BInv, ProbesCounted, ProbesAccounted
  <1>9. QED
    BY <1>1, <1>6, <1>7, <1>8, SuccessCases

LEMMA FailKeepsBInv ==
  ASSUME BInv, NEW c \in Calls, Fail(c)
  PROVE  BInv'
  <1>1. /\ breaker \in Breaker /\ CountersSane(breaker)
        /\ breaker' = OnFailure(breaker)
    BY DEF BInv, TypeOK, CountersOK, Fail
  <1>2. breaker' \in Breaker /\ CountersSane(breaker')
    BY <1>1, FailureSane
  <1>3. /\ call' \in [Calls -> CallState]
        /\ Probes' = IF PeriodEnds(breaker') THEN {} ELSE Probes \ {c}
    BY EndCallProbes DEF Fail, BInv
  <1>4. TypeOK' /\ CountersOK'
    BY <1>2, <1>3 DEF Fail, BInv, TypeOK, CountersOK
  <1>5. breaker'.state # "HALF_OPEN" /\ Probes' = {}
    BY <1>1, <1>3, FailureCases DEF BInv, PeriodEnds
  <1>6. Cardinality(Probes') = 0 /\ breaker'.halfOpenStateAttempts \in Nat
    BY <1>2, <1>5, FS_EmptySet DEF Breaker
  <1>7. QED
    BY <1>4, <1>5, <1>6 DEF BInv, ProbesCounted, ProbesAccounted

LEMMA EndSilentlyKeepsBInv ==
  ASSUME BInv, NEW c \in Calls, EndSilently(c)
  PROVE  BInv'
  <1>1. Probes' = Probes \ {c}
    BY DEF EndSilently, Probes, BInv, TypeOK
  <1>2. /\ Cardinality(Probes') \in Nat
        /\ Cardinality(Probes') <= Cardinality(Probes)
        /\ Cardinality(Probes) <= Cardinality(Probes') + 1
    BY <1>1, ProbesWithout
  <1>3. c \notin Probes => Probes' = Probes
    BY <1>1
  <1>4. /\ breaker.halfOpenStateAttempts \in Nat
        /\ breaker.halfOpenSuccessCount \in Nat
        /\ lostProbes \in Nat
        /\ breaker' = breaker
    BY DEF BInv, TypeOK, Breaker, EndSilently
  <1>5. TypeOK' /\ CountersOK' /\ ProbesCounted'
    BY <1>2, <1>4, ProbesFinite
    DEF EndSilently, BInv, TypeOK, CallState, CountersOK, ProbesCounted
  <1>6. ProbesAccounted'
    <2>1. CASE c \in Probes
      <3>1. lostProbes' = lostProbes + 1
        BY <2>1 DEF EndSilently, Probes
      <3>2. QED
        BY <1>2, <1>4, <3>1, ProbesFinite DEF BInv, ProbesAccounted
    <2>2. CASE c \notin Probes
      <3>1. lostProbes' = lostProbes
        BY <2>2 DEF EndSilently, Probes
      <3>2. QED
        BY <1>3, <1>4, <2>2, <3>1 DEF BInv, ProbesAccounted
    <2>3. QED
      BY <2>1, <2>2
  <1>7. QED
    BY <1>1, <1>4, <1>5, <1>6 DEF BInv

LEMMA TimePassesKeepsBInv ==
  ASSUME BInv, TimePasses
  PROVE  BInv'
  <1>1. breaker \in Breaker /\ CountersSane(breaker)
    BY DEF BInv, TypeOK, CountersOK
  <1>2. Probes' = Probes
    BY DEF TimePasses, Probes
  <1>3. QED
    BY <1>1, <1>2, CooldownSane
    DEF TimePasses, BInv, TypeOK, CountersOK, ProbesCounted, ProbesAccounted

\* Every step of the program keeps the invariant.
LEMMA BInvStep == BInv /\ [Next]_vars => BInv'
  <1> SUFFICES ASSUME BInv, [Next]_vars PROVE BInv'
    OBVIOUS
  <1>1. ASSUME NEW c \in Calls, Ask(c) PROVE BInv'
    BY <1>1, AskKeepsBInv
  <1>2. ASSUME NEW c \in Calls, Succeed(c) PROVE BInv'
    BY <1>2, SucceedKeepsBInv
  <1>3. ASSUME NEW c \in Calls, Fail(c) PROVE BInv'
    BY <1>3, FailKeepsBInv
  <1>4. ASSUME NEW c \in Calls, EndSilently(c) PROVE BInv'
    BY <1>4, EndSilentlyKeepsBInv
  <1>5. CASE TimePasses
    BY <1>5, TimePassesKeepsBInv
  <1>6. CASE ServiceFlips
    BY <1>6 DEF ServiceFlips, BInv, TypeOK, CountersOK, Probes, ProbesCounted,
                ProbesAccounted
  <1>7. CASE UNCHANGED vars
    BY <1>7 DEF vars, BInv, TypeOK, CountersOK, Probes, ProbesCounted,
                ProbesAccounted
  <1>8. QED
    BY <1>1, <1>2, <1>3, <1>4, <1>5, <1>6, <1>7 DEF Next

LEMMA BInvAlways == Spec => []BInv
  BY BInvInit, BInvStep, PTL DEF Spec

-----------------------------------------------------------------------------
\* Every variable keeps its type.
THEOREM BreakerTypeCorrect == Spec => []TypeOK
  <1>1. BInv => TypeOK
    BY DEF BInv
  <1>2. QED
    BY <1>1, BInvAlways, PTL

\* The counters of the breaker stay below their limits, and no probe count
\* survives its half-open period, however the calls overlap.
THEOREM BreakerCountersOK == Spec => []CountersOK
  <1>1. BInv => CountersOK
    BY DEF BInv
  <1>2. QED
    BY <1>1, BInvAlways, PTL

\* Never more than halfOpenStateMaxAttempts concurrent probes, and none outside
\* HALF_OPEN.
THEOREM BreakerProbesBounded == Spec => []AtMostMaxProbes
  <1>1. BInv => AtMostMaxProbes
    <2> SUFFICES ASSUME BInv PROVE AtMostMaxProbes
      OBVIOUS
    <2>1. /\ breaker.halfOpenStateAttempts \in Nat
          /\ breaker.halfOpenStateAttempts <= halfOpenStateMaxAttempts
      BY DEF BInv, TypeOK, Breaker, CountersOK, CountersSane
    <2>2. QED
      BY <2>1, ProbesFinite, HalfOpenAssumption
      DEF BInv, ProbesCounted, AtMostMaxProbes
  <1>2. QED
    BY <1>1, BInvAlways, PTL

\* Every probe spent is in flight, has succeeded, or ended without a report:
\* only the last leaves HALF_OPEN with nobody to decide it.
THEOREM BreakerProbesAccounted == Spec => []ProbesAccounted
  <1>1. BInv => ProbesAccounted
    BY DEF BInv
  <1>2. QED
    BY <1>1, BInvAlways, PTL

\* While the breaker is open and cooling down nobody gets in, and a call that was
\* idle stays idle, whoever else ends meanwhile (isRequestAllowed).
THEOREM BreakerQuietWhileOpen == Spec => QuietWhileOpen
  <1>1. ASSUME TypeOK, [Next]_vars, breaker.state = "OPEN", ~breaker.cooled,
               NEW c \in Calls, ~InFlight(c)
        PROVE  call'[c] = "idle"
    <2>1. call \in [Calls -> CallState] /\ call[c] = "idle"
      BY <1>1 DEF TypeOK, InFlight
    <2>2. ASSUME NEW d \in Calls, Ask(d) PROVE call'[c] = "idle"
      <3>1. ~Allowed(breaker)
        BY <1>1 DEF Allowed, MoveToHalfOpenIfReady
      <3>2. QED
        BY <2>1, <2>2, <3>1 DEF Ask
    <2>3. ASSUME NEW d \in Calls, Succeed(d) \/ Fail(d) PROVE call'[c] = "idle"
      BY <2>1, <2>3 DEF Succeed, Fail, EndCall
    <2>4. ASSUME NEW d \in Calls, EndSilently(d) PROVE call'[c] = "idle"
      BY <2>1, <2>4 DEF EndSilently
    <2>5. CASE TimePasses \/ ServiceFlips \/ UNCHANGED vars
      BY <2>1, <2>5 DEF TimePasses, ServiceFlips, vars
    <2>6. QED
      BY <1>1, <2>2, <2>3, <2>4, <2>5 DEF Next
  <1>2. TypeOK /\ [Next]_vars =>
          [breaker.state = "OPEN" /\ ~breaker.cooled =>
             \A c \in Calls : ~InFlight(c) => call'[c] = "idle"]_vars
    BY <1>1
  <1>3. QED
    BY <1>2, BreakerTypeCorrect, PTL DEF Spec, QuietWhileOpen
=============================================================================
