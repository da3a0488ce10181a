--------------------------- MODULE CircuitBreaker ---------------------------
(***************************************************************************)
(* The class CircuitBreaker (shared/infra/resilience) as operators on a    *)
(* breaker record.  A method that changes the breaker is an operator from  *)
(* the old record to the new one, so that a component that owns a breaker  *)
(* (EventConsumer, the event producer) keeps the record in a variable of   *)
(* its own and composes these operators inside its actions.                *)
(*                                                                         *)
(* Time is abstracted to the one thing the code asks of it: `cooled' says  *)
(* whether Date.now() - lastFailureTime >= cooldownTimeInMs.  Recording a  *)
(* failure time makes it FALSE, the passage of time (Cooldown) TRUE again; *)
(* it starts TRUE because lastFailureTime starts at 0.                     *)
(***************************************************************************)
EXTENDS Integers

CONSTANTS
    failureThreshold,          \* failures that open a closed breaker
    halfOpenStateMaxAttempts   \* probes admitted per half-open period

ASSUME ThresholdAssumption == failureThreshold \in Nat \ {0}
ASSUME HalfOpenAssumption == halfOpenStateMaxAttempts \in Nat \ {0}

CircuitBreakerState == {"CLOSED", "OPEN", "HALF_OPEN"}

Breaker == [state : CircuitBreakerState,
            failureCount : Nat,
            halfOpenStateAttempts : Nat,
            halfOpenSuccessCount : Nat,
            cooled : BOOLEAN]

NewBreaker == [state |-> "CLOSED",
               failureCount |-> 0,
               halfOpenStateAttempts |-> 0,
               halfOpenSuccessCount |-> 0,
               cooled |-> TRUE]

\* A breaker that keeps its probe counters when it opens.
KeepsCounters(b) == [b EXCEPT !.failureCount = 0]

\* A breaker that subtracts the threshold instead of clearing the count.
LeakyReset(b) == [b EXCEPT !.failureCount = @ - failureThreshold,
                           !.halfOpenStateAttempts = 0,
                           !.halfOpenSuccessCount = 0]

\* openCircuit and closeCircuit reset the counters the same way.
ResetCounters(b) == [b EXCEPT !.failureCount = 0,
                              !.halfOpenStateAttempts = 0,
                              !.halfOpenSuccessCount = 0]

OpenCircuit(b) == [ResetCounters(b) EXCEPT !.state = "OPEN", !.cooled = FALSE]

CloseCircuit(b) == [ResetCounters(b) EXCEPT !.state = "CLOSED"]

\* A breaker that goes half-open without waiting for the cooldown.
HalfOpenAtOnce(b) ==
    IF b.state = "OPEN" THEN [b EXCEPT !.state = "HALF_OPEN"] ELSE b

MoveToHalfOpenIfReady(b) ==
    IF b.state = "OPEN" /\ b.cooled THEN [b EXCEPT !.state = "HALF_OPEN"] ELSE b

Cooldown(b) == [b EXCEPT !.cooled = TRUE]

-----------------------------------------------------------------------------
\* isRequestAllowed returns a verdict and changes the breaker: Allowed is the
\* verdict, AfterAsking the breaker it leaves, which has spent one probe when
\* the verdict is yes in HALF_OPEN.

\* A breaker that admits one probe too many.
ProbesLeftInclusive(b) == b.halfOpenStateAttempts <= halfOpenStateMaxAttempts

ProbesLeft(b) == b.halfOpenStateAttempts < halfOpenStateMaxAttempts

Allowed(b) ==
    LET c == MoveToHalfOpenIfReady(b)
    IN  \/ c.state = "CLOSED"
        \/ c.state = "HALF_OPEN" /\ ProbesLeft(c)

AfterAsking(b) ==
    LET c == MoveToHalfOpenIfReady(b)
    IN  IF c.state = "HALF_OPEN" /\ ProbesLeft(c)
        THEN [c EXCEPT !.halfOpenStateAttempts = @ + 1]
        ELSE c

\* A breaker that never closes again.
OnSuccessNeverCloses(b) == b

\* A success counts only in HALF_OPEN; enough of them close the breaker.
OnSuccess(b) ==
    IF b.state # "HALF_OPEN" THEN b
    ELSE LET c == [b EXCEPT !.halfOpenSuccessCount = @ + 1]
         IN  IF c.halfOpenSuccessCount >= halfOpenStateMaxAttempts
             THEN CloseCircuit(c)
             ELSE c

\* A failure in HALF_OPEN opens the breaker at once.  In any other state (OPEN
\* included: a call admitted earlier may fail late) it is counted, and the
\* failure that reaches the threshold opens the breaker.
OnFailure(b) ==
    IF b.state = "HALF_OPEN" THEN OpenCircuit(b)
    ELSE LET c == [b EXCEPT !.failureCount = @ + 1, !.cooled = FALSE]
         IN  IF c.failureCount >= failureThreshold THEN OpenCircuit(c) ELSE c

-----------------------------------------------------------------------------
\* What every breaker reachable through these operators satisfies: the
\* failure count stays below the threshold, the probe counters below their
\* limit, and the probe counters are zero outside HALF_OPEN.
CountersSane(b) ==
    /\ b.failureCount < failureThreshold
    /\ b.halfOpenStateAttempts <= halfOpenStateMaxAttempts
    /\ b.halfOpenSuccessCount < halfOpenStateMaxAttempts
    /\ b.state # "HALF_OPEN" =>
         b.halfOpenStateAttempts = 0 /\ b.halfOpenSuccessCount = 0
=============================================================================
