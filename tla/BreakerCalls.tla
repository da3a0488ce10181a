---------------------------- MODULE BreakerCalls ----------------------------
(***************************************************************************)
(* A circuit breaker shared by concurrent calls.  Each caller asks         *)
(* isRequestAllowed, performs its call, and reports onSuccess or           *)
(* onFailure, as EventConsumer.handleMessage and                           *)
(* EventProducer.publishApiHits do.  Calls overlap, so a call admitted in  *)
(* one period of the breaker may report in a later one.  A call may also   *)
(* end without any report: that is what handleMessage does with a message  *)
(* it has already processed (consumer.ts:226-232).                         *)
(***************************************************************************)
EXTENDS CircuitBreaker, FiniteSets

CONSTANTS
    Calls    \* identities of the calls that may be in flight at once

ASSUME CallsAssumption == IsFiniteSet(Calls)

VARIABLES
    breaker,    \* the breaker record
    call,       \* what each call is to the breaker
    lostProbes, \* probes of this half-open period that ended silently
    healthy     \* is the service behind the breaker up?

vars == <<breaker, call, lostProbes, healthy>>

\* "normal": admitted in CLOSED, "probe": admitted in HALF_OPEN, "late": the
\* breaker has left, since, the period in which the call was admitted.
CallState == {"idle", "normal", "probe", "late"}

TypeOK ==
    /\ breaker \in Breaker
    /\ call \in [Calls -> CallState]
    /\ lostProbes \in Nat
    /\ healthy \in BOOLEAN

Init ==
    /\ breaker = NewBreaker
    /\ call = [c \in Calls |-> "idle"]
    /\ lostProbes = 0
    /\ healthy = TRUE

InFlight(c) == call[c] # "idle"

Probes == {c \in Calls : call[c] = "probe"}

\* The period of the breaker ends when it closes, or opens.
PeriodEnds(b) == breaker.state # b.state

\* The other calls when call c ends and leaves the breaker b.
EndCall(c, b) ==
    [d \in Calls |->
        IF d = c \/ call[d] = "idle" THEN "idle"
        ELSE IF PeriodEnds(b) THEN "late" ELSE call[d]]

-----------------------------------------------------------------------------
\* const allowed = this.circuitBreaker.isRequestAllowed()
Ask(c) ==
    /\ ~InFlight(c)
    /\ breaker' = AfterAsking(breaker)
    /\ call' = [call EXCEPT ![c] =
                  IF ~Allowed(breaker) THEN "idle"
                  ELSE IF breaker'.state = "CLOSED" THEN "normal" ELSE "probe"]
    /\ UNCHANGED <<lostProbes, healthy>>

Succeed(c) ==
    /\ InFlight(c)
    /\ healthy
    /\ breaker' = OnSuccess(breaker)
    /\ call' = EndCall(c, breaker')
    /\ lostProbes' = IF PeriodEnds(breaker') THEN 0 ELSE lostProbes
    /\ UNCHANGED healthy

Fail(c) ==
    /\ InFlight(c)
    /\ ~healthy
    /\ breaker' = OnFailure(breaker)
    /\ call' = EndCall(c, breaker')
    /\ lostProbes' = IF PeriodEnds(breaker') THEN 0 ELSE lostProbes
    /\ UNCHANGED healthy

EndSilently(c) ==
    /\ InFlight(c)
    /\ call' = [call EXCEPT ![c] = "idle"]
    /\ lostProbes' = IF call[c] = "probe" THEN lostProbes + 1 ELSE lostProbes
    /\ UNCHANGED <<breaker, healthy>>

\* cooldownTimeInMs goes by without a failure.
TimePasses ==
    /\ breaker' = Cooldown(breaker)
    /\ UNCHANGED <<call, lostProbes, healthy>>

\* The service goes down or comes back.
ServiceFlips ==
    /\ healthy' = ~healthy
    /\ UNCHANGED <<breaker, call, lostProbes>>

Next ==
    \/ \E c \in Calls : Ask(c) \/ Succeed(c) \/ Fail(c) \/ EndSilently(c)
    \/ TimePasses
    \/ ServiceFlips

\* Traffic never ends, every call ends, and time passes.
Fairness ==
    /\ \A c \in Calls : WF_vars(Ask(c)) /\ WF_vars(Succeed(c) \/ Fail(c))
    /\ WF_vars(TimePasses)

Spec == Init /\ [][Next]_vars /\ Fairness

-----------------------------------------------------------------------------
\* The counters never reach their limits unnoticed: below the threshold in
\* every state that does not open, at most the configured probes spent, and
\* nothing left over from an earlier half-open period (openCircuit and
\* closeCircuit reset them), however calls of different periods overlap.
CountersOK == CountersSane(breaker)

\* A recovering service is never hit by more concurrent probes than
\* halfOpenStateMaxAttempts.
AtMostMaxProbes ==
    /\ Cardinality(Probes) <= halfOpenStateMaxAttempts
    /\ Probes # {} => breaker.state = "HALF_OPEN"

\* Probe accounting: each probe spent is in flight, counted as a success, or
\* ended without a report.  HALF_OPEN runs out of probes with nobody left to
\* decide it only by the last, the duplicates of consumer.ts:226-232.
ProbesAccounted ==
    breaker.state = "HALF_OPEN" =>
        breaker.halfOpenStateAttempts
            <= Cardinality(Probes) + breaker.halfOpenSuccessCount + lostProbes

\* No call is admitted while the breaker is open and cooling down.
QuietWhileOpen ==
    [][breaker.state = "OPEN" /\ ~breaker.cooled =>
          \A c \in Calls : ~InFlight(c) => call'[c] = "idle"]_vars

\* Once the service is up for good, the breaker closes for good, unless a
\* probe of its half-open period ended without a report.
Recovers ==
    <>[]healthy => <>[](breaker.state = "CLOSED" \/ lostProbes > 0)
=============================================================================
