------------------------ MODULE EventConsumer_proofs ------------------------
(***************************************************************************)
(* What holds of the consumer for every set of events, every number of     *)
(* overlapping handlers, every retry limit, and every fault the model      *)
(* allows: type correctness, that the additive metrics upsert and the      *)
(* idempotency key are both guarded by the unique raw insert, that a       *)
(* running consumer never goes deaf, that an event is lost in three ways   *)
(* only, and that a shutdown that drains leaves nothing stored behind.     *)
(***************************************************************************)
EXTENDS EventConsumer, FiniteSetTheorems, TLAPS

\* A new breaker is closed with clean counters.
LEMMA NewBreakerSane == NewBreaker \in Breaker /\ CountersSane(NewBreaker)
  BY ThresholdAssumption, HalfOpenAssumption
  DEF NewBreaker, Breaker, CircuitBreakerState, CountersSane

\* Every operation on the circuit breaker keeps the type of its record and the sanity of
\* its counters.
LEMMA BreakerStaysSane ==
  ASSUME NEW b \in Breaker, CountersSane(b)
  PROVE  /\ AfterAsking(b) \in Breaker /\ CountersSane(AfterAsking(b))
         /\ OnSuccess(b) \in Breaker /\ CountersSane(OnSuccess(b))
         /\ OnFailure(b) \in Breaker /\ CountersSane(OnFailure(b))
         /\ Cooldown(b) \in Breaker /\ CountersSane(Cooldown(b))
<1>1. ASSUME NEW c \in Breaker
      PROVE  /\ OpenCircuit(c) \in Breaker /\ CountersSane(OpenCircuit(c))
             /\ CloseCircuit(c) \in Breaker /\ CountersSane(CloseCircuit(c))
  <2> DEFINE r == ResetCounters(c)
             q == [r EXCEPT !.cooled = FALSE]
  <2>1. /\ r \in Breaker /\ r.failureCount = 0
        /\ r.halfOpenStateAttempts = 0 /\ r.halfOpenSuccessCount = 0
    BY DEF ResetCounters, Breaker
  <2>2. OpenCircuit(c) = [q EXCEPT !.state = "OPEN"] /\ CloseCircuit(c) = [r EXCEPT !.state = "CLOSED"]
    BY DEF OpenCircuit, CloseCircuit
  <2> HIDE DEF r
  <2>3. /\ q \in Breaker /\ q.failureCount = 0
        /\ q.halfOpenStateAttempts = 0 /\ q.halfOpenSuccessCount = 0
    BY <2>1 DEF Breaker
  <2> HIDE DEF q
  <2> QED
    BY <2>1, <2>2, <2>3, ThresholdAssumption, HalfOpenAssumption
    DEF Breaker, CircuitBreakerState, CountersSane
<1>2. AfterAsking(b) \in Breaker /\ CountersSane(AfterAsking(b))
  BY HalfOpenAssumption
  DEF AfterAsking, MoveToHalfOpenIfReady, ProbesLeft, Breaker, CircuitBreakerState, CountersSane
<1>3. OnSuccess(b) \in Breaker /\ CountersSane(OnSuccess(b))
  <2> DEFINE c == [b EXCEPT !.halfOpenSuccessCount = @ + 1]
  <2>1. /\ c \in Breaker /\ c.state = b.state /\ c.failureCount = b.failureCount
        /\ c.halfOpenStateAttempts = b.halfOpenStateAttempts /\ c.halfOpenSuccessCount \in Nat
    BY DEF Breaker
  <2>2. OnSuccess(b) = IF b.state # "HALF_OPEN" THEN b
                       ELSE IF c.halfOpenSuccessCount >= halfOpenStateMaxAttempts
                            THEN CloseCircuit(c) ELSE c
    BY DEF OnSuccess
  <2> HIDE DEF c
  <2> QED
    BY <1>1, <2>1, <2>2, HalfOpenAssumption DEF CountersSane
<1>4. OnFailure(b) \in Breaker /\ CountersSane(OnFailure(b))
  <2> DEFINE d == [b EXCEPT !.failureCount = @ + 1]
             c == [d EXCEPT !.cooled = FALSE]
  <2>1. OnFailure(b) = IF b.state = "HALF_OPEN" THEN OpenCircuit(b)
                       ELSE IF c.failureCount >= failureThreshold THEN OpenCircuit(c) ELSE c
    BY DEF OnFailure
  <2>2. d \in Breaker
    BY DEF Breaker
  <2>3. /\ c \in Breaker /\ c.failureCount \in Nat /\ c.state = b.state
        /\ c.halfOpenStateAttempts = b.halfOpenStateAttempts
        /\ c.halfOpenSuccessCount = b.halfOpenSuccessCount
    BY <2>2 DEF Breaker
  <2> HIDE DEF c
  <2> QED
    BY <1>1, <2>1, <2>3, ThresholdAssumption DEF CountersSane
<1>5. Cooldown(b) \in Breaker /\ CountersSane(Cooldown(b))
  BY DEF Cooldown, Breaker, CountersSane
<1> QED
  BY <1>2, <1>3, <1>4, <1>5

\* What a step does to a handler it is not about: it ends with its process, or
\* goes on, perhaps with another standing of its delivery tag.
Kept(g) ==
    \/ handler'[g] = Idle
    \/ /\ handler[g].pc # "idle"
       /\ handler'[g].pc = handler[g].pc
       /\ handler'[g].msg = handler[g].msg
       /\ handler'[g].attempt = handler[g].attempt

\* A busy handler is a record with all its fields.
LEMMA BusyHandler ==
  ASSUME TypeOK, NEW h \in Handlers, handler[h].pc # "idle"
  PROVE  handler[h] \in Handling
  BY DEF TypeOK, MachineOK, Handler, Handling, Idle

\* An idle handler is the record Idle.
LEMMA IdleHandler ==
  ASSUME TypeOK, NEW h \in Handlers, handler[h].pc = "idle"
  PROVE  handler[h] = Idle
  BY DEF TypeOK, MachineOK, Handler, Handling, Idle

\* Requeueing deliveries adds to every message a natural number of copies.
LEMMA RequeuedType ==
  ASSUME TypeOK
  PROVE  Requeued \in [Message -> Nat]
  <1> SUFFICES ASSUME NEW m \in Message
               PROVE  queue[m] + Cardinality({h \in Outstanding : handler[h].msg = m})
                        \in Nat
    BY DEF Requeued
  <1>1. {h \in Outstanding : handler[h].msg = m} \subseteq Handlers
    BY DEF Outstanding
  <1>2. Cardinality({h \in Outstanding : handler[h].msg = m}) \in Nat
    BY <1>1, ConsumerAssumption, FS_Subset, FS_CardinalityType
  <1>3. QED
    BY <1>2 DEF TypeOK, MachineOK

\* Losing its channel changes only the standing of a handler's delivery tag.
LEMMA DetachedType ==
  ASSUME NEW r \in Handler
  PROVE  /\ Detached(r) \in Handler
         /\ r = Idle => Detached(r) = Idle
         /\ r.pc # "idle" => /\ Detached(r).pc = r.pc
                             /\ Detached(r).msg = r.msg
                             /\ Detached(r).attempt = r.attempt
  <1>1. CASE r = Idle
    BY <1>1 DEF Detached, Idle, Handler
  <1>2. CASE r \in Handling
    <2>1. r.pc # "idle" /\ r # Idle
      BY <1>2 DEF Handling, Idle
    <2>2. /\ [r EXCEPT !.delivery = "stale"] \in Handling
          /\ [r EXCEPT !.delivery = "stale"].pc = r.pc
          /\ [r EXCEPT !.delivery = "stale"].msg = r.msg
          /\ [r EXCEPT !.delivery = "stale"].attempt = r.attempt
      BY <1>2 DEF Handling
    <2>3. Detached(r) = r \/ Detached(r) = [r EXCEPT !.delivery = "stale"]
      BY DEF Detached
    <2>4. QED
      BY <1>2, <2>1, <2>2, <2>3 DEF Handler
  <1>3. QED
    BY <1>1, <1>2 DEF Handler

\* Without a process there are no loops and no consumers.
LEMMA NoLinkType ==
  /\ NoLink \in Link
  /\ \A n \in Nat : [NoLink EXCEPT !.waiting = n] \in Link
  BY DEF NoLink, Link

\* The end of the process leaves every handler idle.
LEMMA ExitEffect ==
  ASSUME TypeOK, NEW how \in {"exited", "crashed"}, Exit(how)
  PROVE  MachineOK' /\ \A g \in Handlers : handler'[g] = Idle
  <1>1. forsaken' \subseteq Events
    BY DEF Exit, Message, TypeOK, MachineOK
  <1>2. QED
    BY <1>1, NoLinkType, RequeuedType, NewBreakerSane DEF Exit, TypeOK, MachineOK, Handler

\* What the broker does with a settled delivery keeps the types.
LEMMA ReceiveType ==
  ASSUME TypeOK, NEW m \in Message, NEW verdict,
         NEW sent \in SUBSET DeadLetter, Receive(m, verdict, sent)
  PROVE  queue' \in [Message -> Nat] /\ dlq' \subseteq DeadLetter
  <1>1. m.ev \in Events
    BY DEF Message
  <1>2. QED
    BY <1>1 DEF Receive, TypeOK, MachineOK, DeadLetter

\* Settling h's delivery moves h where it was told to go, and touches no other
\* handler's work.
LEMMA SettleEffect ==
  ASSUME TypeOK, NEW h \in Handlers, handler[h].pc # "idle",
         NEW after \in Handler, NEW verdict, NEW sent \in SUBSET DeadLetter,
         Settle(h, verdict, after, sent)
  PROVE  /\ chan' \in {"null", "open", "broken", "closed"}
         /\ queue' \in [Message -> Nat]
         /\ dlq' \subseteq DeadLetter
         /\ losses' \in Nat
         /\ forsaken' \subseteq Events
         /\ handler' \in [Handlers -> Handler]
         /\ handler'[h] = after
         /\ \A g \in Handlers \ {h} : Kept(g)
  <1>1. handler[h] \in Handling /\ handler[h].msg \in Message
    BY BusyHandler DEF Handling
  <1>2. \A g \in Handlers : handler[g] = Idle \/ handler[g].pc # "idle"
    BY IdleHandler
  <1>3. CASE SettleOwn(h, verdict, after, sent)
    BY <1>1, <1>2, <1>3, ReceiveType DEF SettleOwn, TypeOK, MachineOK, Kept
  <1>4. CASE SettleOther(h, verdict, after, sent)
    <2>1. PICK g \in Outstanding :
             /\ Receive(handler[g].msg, verdict, sent)
             /\ handler' = [handler EXCEPT ![h] = after, ![g].delivery = "gone"]
             /\ forsaken' \subseteq forsaken \union {handler[g].msg.ev}
      BY <1>4 DEF SettleOther
    <2>2. g \in Handlers /\ g # h /\ handler[g].pc # "idle"
      BY <1>4 DEF SettleOther, Outstanding
    <2>3. handler[g] \in Handling /\ handler[g].msg \in Message
      BY <2>2, BusyHandler DEF Handling
    <2>4. /\ [handler[g] EXCEPT !.delivery = "gone"] \in Handling
          /\ [handler[g] EXCEPT !.delivery = "gone"].pc = handler[g].pc
          /\ [handler[g] EXCEPT !.delivery = "gone"].msg = handler[g].msg
          /\ [handler[g] EXCEPT !.delivery = "gone"].attempt = handler[g].attempt
      BY <2>3 DEF Handling
    <2>5. handler' = [[handler EXCEPT ![h] = after]
                        EXCEPT ![g] = [handler[g] EXCEPT !.delivery = "gone"]]
      BY <2>1, <2>2 DEF TypeOK, MachineOK
    <2>6. queue' \in [Message -> Nat] /\ dlq' \subseteq DeadLetter
          /\ forsaken' \subseteq Events
      BY <2>1, <2>3, ReceiveType DEF Message, TypeOK, MachineOK
    <2>7. /\ handler' \in [Handlers -> Handler]
          /\ handler'[h] = after
          /\ handler'[g] = [handler[g] EXCEPT !.delivery = "gone"]
          /\ \A f \in Handlers \ {h, g} : handler'[f] = handler[f]
      BY <2>2, <2>4, <2>5 DEF TypeOK, MachineOK, Handler
    <2>8. QED
      BY <1>2, <1>4, <2>2, <2>4, <2>6, <2>7 DEF SettleOther, TypeOK, MachineOK, Kept
  <1>5. CASE SettleUnknown(h, verdict, after, sent)
    <2>1. handler' = [g \in Handlers |->
                         IF g = h THEN after ELSE Detached(handler[g])]
      BY <1>5 DEF SettleUnknown
    <2>2. \A g \in Handlers : handler[g] \in Handler
      BY DEF TypeOK, MachineOK
    <2>3. /\ handler' \in [Handlers -> Handler]
          /\ handler'[h] = after
          /\ \A g \in Handlers \ {h} : handler'[g] = Detached(handler[g])
      BY <2>1, <2>2, DetachedType
    <2>4. \A g \in Handlers \ {h} : Kept(g)
      BY <1>2, <2>2, <2>3, DetachedType DEF Kept
    <2>5. /\ queue' \in [Message -> Nat] /\ dlq' \subseteq DeadLetter
          /\ chan' = "broken" /\ losses' \in Nat /\ forsaken' \subseteq Events
      BY <1>5, RequeuedType DEF SettleUnknown, TypeOK, MachineOK
    <2>6. QED
      BY <2>3, <2>4, <2>5
  <1>6. CASE SettleLost(h, after)
    BY <1>2, <1>6 DEF SettleLost, TypeOK, MachineOK, Kept
  <1>7. QED
    BY <1>3, <1>4, <1>5, <1>6 DEF Settle

\* Dead-lettering ends the handler, one way or another.
LEMMA SendToDLQEffect ==
  ASSUME TypeOK, NEW h \in Handlers, handler[h].pc # "idle", SendToDLQ(h)
  PROVE  MachineOK' /\ handler'[h] = Idle /\ \A g \in Handlers \ {h} : Kept(g)
  <1> DEFINE wrapped == {[ev |-> handler[h].msg.ev, form |-> "wrapped"]}
  <1>1. wrapped \in SUBSET DeadLetter /\ Idle \in Handler
    BY BusyHandler DEF Handling, Message, DeadLetter, Handler
  <1>2. OnFailure(breaker) \in Breaker /\ CountersSane(OnFailure(breaker))
    BY BreakerStaysSane DEF TypeOK, MachineOK
  <1> HIDE DEF wrapped
  <1>3. CASE /\ \/ Settle(h, "ack", Idle, wrapped)
                \/ Backpressure /\ Settle(h, "reject", Idle, wrapped)
             /\ breaker' = OnFailure(breaker)
             /\ UNCHANGED <<proc, link, timers>>
    BY <1>1, <1>2, <1>3, SettleEffect DEF TypeOK, MachineOK
  <1>4. CASE chan = "closed" /\ ExitUnhandled
    BY <1>4, ExitEffect DEF ExitUnhandled, Kept
  <1>5. CASE /\ handler' = [handler EXCEPT ![h] = Idle]
             /\ breaker' = OnFailure(breaker)
             /\ UNCHANGED <<proc, link, chan, timers, queue, dlq, losses, forsaken>>
    BY <1>1, <1>2, <1>5, IdleHandler DEF TypeOK, MachineOK, Kept
  <1>6. QED
    BY <1>3, <1>4, <1>5 DEF SendToDLQ, wrapped

\* Retrying ends the handler, and arms a timer for a message within the limit.
LEMMA RetryMessageEffect ==
  ASSUME TypeOK, NEW h \in Handlers, handler[h].pc # "idle",
         handler[h].msg.retry < maxRetries, RetryMessage(h)
  PROVE  MachineOK' /\ handler'[h] = Idle /\ \A g \in Handlers \ {h} : Kept(g)
  <1> DEFINE m == [handler[h].msg EXCEPT !.retry = @ + 1]
  <1>1. m \in Message /\ Idle \in Handler /\ {} \in SUBSET DeadLetter
    BY BusyHandler, ConsumerAssumption DEF Handling, Message, Handler
  <1>2. OnFailure(breaker) \in Breaker /\ CountersSane(OnFailure(breaker))
    BY BreakerStaysSane DEF TypeOK, MachineOK
  <1>3. [timers EXCEPT ![m] = @ + 1] \in [Message -> Nat]
    BY <1>1 DEF TypeOK, MachineOK
  <1> HIDE DEF m
  <1>4. CASE /\ Settle(h, "ack", Idle, {})
             /\ timers' = [timers EXCEPT ![m] = @ + 1]
             /\ breaker' = OnFailure(breaker)
             /\ UNCHANGED <<proc, link>>
    BY <1>1, <1>2, <1>3, <1>4, SettleEffect DEF TypeOK, MachineOK
  <1>5. CASE chan = "closed" /\ ExitUnhandled
    BY <1>5, ExitEffect DEF ExitUnhandled, Kept
  <1>6. CASE /\ handler' = [handler EXCEPT ![h] = Idle]
             /\ timers' = [timers EXCEPT ![m] = @ + 1]
             /\ breaker' = OnFailure(breaker)
             /\ UNCHANGED <<proc, link, chan, queue, dlq, losses, forsaken>>
    BY <1>1, <1>2, <1>3, <1>6, IdleHandler DEF TypeOK, MachineOK, Kept
  <1>7. QED
    BY <1>4, <1>5, <1>6 DEF RetryMessage, m

\* A failing handler ends, and leaves the others to their work.
LEMMA HandleErrorEffect ==
  ASSUME TypeOK, NEW h \in Handlers, handler[h].pc # "idle",
         NEW failure, HandleError(h, failure)
  PROVE  MachineOK' /\ handler'[h] = Idle /\ \A g \in Handlers \ {h} : Kept(g)
  <1>1. CASE failure = "numeric" /\ ExitUnhandled
    BY <1>1, ExitEffect DEF ExitUnhandled, Kept
  <1>2. CASE ShouldRetry(handler[h].msg.retry) /\ RetryMessage(h)
    BY <1>2, RetryMessageEffect DEF ShouldRetry
  <1>3. CASE SendToDLQ(h)
    BY <1>3, SendToDLQEffect
  <1>4. QED
    BY <1>1, <1>2, <1>3 DEF HandleError

\* An acknowledging handler goes on as told, or fails.
LEMMA AckOrFailEffect ==
  ASSUME TypeOK, NEW h \in Handlers, handler[h].pc # "idle",
         NEW after \in Handler, NEW b \in Breaker, CountersSane(b),
         AckOrFail(h, after, b)
  PROVE  /\ MachineOK' /\ handler'[h] \in {after, Idle}
         /\ \A g \in Handlers \ {h} : Kept(g)
  <1>1. CASE Settle(h, "ack", after, {}) /\ breaker' = b /\ UNCHANGED <<proc, link, timers>>
    BY <1>1, SettleEffect DEF TypeOK, MachineOK
  <1>2. CASE HandleError(h, "permanent")
    BY <1>2, HandleErrorEffect
  <1>3. QED
    BY <1>1, <1>2 DEF AckOrFail

-----------------------------------------------------------------------------
\* A handler in the metrics upsert has saved its raw event, and the event has
\* been counted at most once per failed attempt of this very loop.
UpsertGuarded ==
    \A h \in Handlers : At(h, "upsert") =>
        /\ handler[h].msg.ev \in mongo
        /\ metrics[handler[h].msg.ev] <= handler[h].attempt
        /\ "lostReply" \notin PostgresFaults => metrics[handler[h].msg.ev] = 0

\* A handler that upserts an event is the only one that does or has done.
OneUpsertPerEvent ==
    \A g, h \in Handlers :
        At(g, "upsert") /\ handler[h].pc \in {"upsert", "mark"}
            /\ handler[g].msg.ev = handler[h].msg.ev => g = h

\* A handler about to write the idempotency key has saved its raw event.
MarkGuarded ==
    \A h \in Handlers : At(h, "mark") => handler[h].msg.ev \in mongo

\* The inductive invariant behind the theorems below.
CInv ==
    /\ TypeOK
    /\ MetricsBounded
    /\ MetricsCountedOnce
    /\ MarkedOnlyIfStored
    /\ UpsertGuarded
    /\ OneUpsertPerEvent
    /\ MarkGuarded

\* The initial states satisfy the invariant.
LEMMA CInvInit == Init => CInv
  <1> SUFFICES ASSUME Init PROVE CInv
    OBVIOUS
  <1>1. TypeOK
    BY NewBreakerSane, NoLinkType DEF Init, TypeOK, MachineOK, StoresOK, Handler
  <1>2. \A h \in Handlers : handler[h].pc = "idle"
    BY DEF Init, Idle
  <1>3. QED
    BY <1>1, <1>2, ConsumerAssumption
    DEF Init, CInv, MetricsBounded, MetricsCountedOnce, MarkedOnlyIfStored,
        UpsertGuarded, OneUpsertPerEvent, MarkGuarded, At

\* A step that counts nothing, forgets no raw event and marks nothing, and that
\* brings no handler into the upsert or to its mark, keeps the invariant.
LEMMA QuietStep ==
  ASSUME CInv, MachineOK',
         mongo \subseteq mongo', mongo' \subseteq Events,
         metrics' = metrics, processed' \subseteq processed,
         published' \in [Events -> Nat], kills' \in Nat, signals' \in Nat,
         \A g \in Handlers : Kept(g) \/ handler'[g].pc \notin {"upsert", "mark"}
  PROVE  CInv'
  <1>1. TypeOK'
    BY DEF CInv, TypeOK, StoresOK
  <1>2. \A g \in Handlers : handler'[g].pc \in {"upsert", "mark"} =>
          /\ handler'[g].pc = handler[g].pc
          /\ handler'[g].msg = handler[g].msg
          /\ handler'[g].attempt = handler[g].attempt
    BY DEF Kept, Idle
  <1>3. MetricsBounded' /\ MetricsCountedOnce' /\ MarkedOnlyIfStored'
    BY DEF CInv, MetricsBounded, MetricsCountedOnce, MarkedOnlyIfStored
  <1>4. UpsertGuarded' /\ MarkGuarded'
    BY <1>2 DEF CInv, UpsertGuarded, MarkGuarded, At
  <1>5. OneUpsertPerEvent'
    BY <1>2 DEF CInv, OneUpsertPerEvent, At
  <1>6. QED
    BY <1>1, <1>3, <1>4, <1>5 DEF CInv

-----------------------------------------------------------------------------
(* The steps of handleMessage.                                             *)

\* Delivering: the new handler starts at the check, or paused.
LEMMA DeliverKeepsCInv ==
  ASSUME CInv, NEW h \in Handlers, NEW m \in Message, Deliver(h, m)
  PROVE  CInv'
  <1> DEFINE new == [pc |-> IF Allowed(breaker) THEN "check" ELSE "paused",
                     msg |-> m, delivery |-> "live", attempt |-> 0]
  <1>1. TypeOK
    BY DEF CInv
  <1>2. new \in Handler /\ new.pc \notin {"upsert", "mark"}
    BY ConsumerAssumption DEF Handler, Handling
  <1>3. AfterAsking(breaker) \in Breaker /\ CountersSane(AfterAsking(breaker))
    BY <1>1, BreakerStaysSane DEF TypeOK, MachineOK
  <1> HIDE DEF new
  <1>4. /\ handler' = [handler EXCEPT ![h] = new]
        /\ breaker' = AfterAsking(breaker)
        /\ queue' = [queue EXCEPT ![m] = @ - 1] /\ queue[m] > 0
        /\ UNCHANGED <<proc, link, chan, timers, dlq, losses, forsaken>>
        /\ UNCHANGED <<mongo, metrics, processed, published, kills, signals>>
    BY DEF Deliver, new, stores, external
  <1>5. queue' \in [Message -> Nat]
    BY <1>1, <1>4 DEF TypeOK, MachineOK
  <1>6. MachineOK'
    BY <1>1, <1>2, <1>3, <1>4, <1>5 DEF TypeOK, MachineOK
  <1>7. \A g \in Handlers : Kept(g) \/ handler'[g].pc \notin {"upsert", "mark"}
    BY <1>1, <1>2, <1>4, IdleHandler DEF TypeOK, MachineOK, Kept
  <1>8. QED
    BY <1>1, <1>4, <1>6, <1>7, QuietStep DEF TypeOK, StoresOK

\* A handler that ends by an error or an acknowledgement, whatever happens to
\* the raw documents meanwhile.
LEMMA EndKeepsCInv ==
  ASSUME CInv, NEW h \in Handlers, MachineOK',
         handler'[h] = Idle, \A g \in Handlers \ {h} : Kept(g),
         mongo \subseteq mongo', mongo' \subseteq Events,
         UNCHANGED <<metrics, processed, external>>
  PROVE  CInv'
  <1>1. \A g \in Handlers : Kept(g)
    BY DEF Kept
  <1>2. QED
    BY <1>1, QuietStep DEF external, CInv, TypeOK

LEMMA RequeuePausedKeepsCInv ==
  ASSUME CInv, NEW h \in Handlers, RequeuePaused(h)
  PROVE  CInv'
  <1>1. TypeOK /\ handler[h].pc # "idle" /\ mongo \subseteq Events
    BY DEF CInv, TypeOK, StoresOK, RequeuePaused, At
  <1>2. Idle \in Handler /\ {} \in SUBSET DeadLetter
    BY DEF Handler
  <1>3. CASE Settle(h, "requeue", Idle, {}) /\ UNCHANGED <<proc, link, breaker, timers>>
    <2>1. /\ MachineOK' /\ handler'[h] = Idle
          /\ \A g \in Handlers \ {h} : Kept(g)
      BY <1>1, <1>2, <1>3, SettleEffect DEF TypeOK, MachineOK
    <2>2. QED
      BY <1>1, <2>1, EndKeepsCInv DEF RequeuePaused, stores
  <1>4. CASE ExitUnhandled
    <2>1. /\ MachineOK' /\ handler'[h] = Idle
          /\ \A g \in Handlers \ {h} : Kept(g)
      BY <1>1, <1>4, ExitEffect DEF ExitUnhandled, Kept
    <2>2. QED
      BY <1>1, <2>1, EndKeepsCInv DEF RequeuePaused, stores
  <1>5. QED
    BY <1>3, <1>4 DEF RequeuePaused

LEMMA RejectMalformedKeepsCInv ==
  ASSUME CInv, NEW h \in Handlers, RejectMalformed(h)
  PROVE  CInv'
  <1>1. TypeOK /\ handler[h].pc # "idle" /\ mongo \subseteq Events
    BY DEF CInv, TypeOK, StoresOK, RejectMalformed, At
  <1>2. /\ MachineOK' /\ handler'[h] = Idle
        /\ \A g \in Handlers \ {h} : Kept(g)
    BY <1>1, HandleErrorEffect DEF RejectMalformed
  <1>3. QED
    BY <1>1, <1>2, EndKeepsCInv DEF RejectMalformed, stores

LEMMA SkipDuplicateKeepsCInv ==
  ASSUME CInv, NEW h \in Handlers, SkipDuplicate(h)
  PROVE  CInv'
  <1>1. TypeOK /\ handler[h].pc # "idle" /\ mongo \subseteq Events
    BY DEF CInv, TypeOK, StoresOK, SkipDuplicate, At
  <1>2. Idle \in Handler /\ breaker \in Breaker /\ CountersSane(breaker)
    BY <1>1 DEF Handler, TypeOK, MachineOK
  <1>3. /\ MachineOK' /\ handler'[h] = Idle
        /\ \A g \in Handlers \ {h} : Kept(g)
    BY <1>1, <1>2, AckOrFailEffect DEF SkipDuplicate
  <1>4. QED
    BY <1>1, <1>3, EndKeepsCInv DEF SkipDuplicate, stores

\* Handler h moves on inside handleMessage, and nothing else of the process
\* changes.
LEMMA AdvanceType ==
  ASSUME TypeOK, NEW h \in Handlers, NEW r \in Handler,
         handler' = [handler EXCEPT ![h] = r],
         UNCHANGED <<proc, link, chan, breaker, timers, queue, dlq, losses, forsaken>>
  PROVE  /\ MachineOK' /\ handler'[h] = r
         /\ \A g \in Handlers \ {h} : handler'[g] = handler[g] /\ Kept(g)
  BY IdleHandler DEF TypeOK, MachineOK, Kept

LEMMA PassCheckKeepsCInv ==
  ASSUME CInv, NEW h \in Handlers, PassCheck(h)
  PROVE  CInv'
  <1> DEFINE r == [handler[h] EXCEPT !.pc = "save"]
  <1>1. TypeOK /\ handler[h] \in Handling
    BY BusyHandler DEF CInv, PassCheck, At
  <1>2. r \in Handler /\ r.pc = "save" /\ handler' = [handler EXCEPT ![h] = r]
    BY <1>1 DEF PassCheck, Handler, Handling
  <1>3. /\ UNCHANGED <<proc, link, chan, breaker, timers, queue, dlq, losses, forsaken>>
        /\ UNCHANGED <<mongo, metrics, processed, published, kills, signals>>
    BY DEF PassCheck, stores, external
  <1> HIDE DEF r
  <1>4. MachineOK' /\ \A g \in Handlers : Kept(g) \/ handler'[g].pc = "save"
    BY <1>1, <1>2, <1>3, AdvanceType
  <1>5. QED
    BY <1>1, <1>3, <1>4, QuietStep DEF TypeOK, StoresOK

\* Saving: the event had no raw document, so it was never counted, and nobody
\* else is upserting it.
LEMMA SaveRawEventKeepsCInv ==
  ASSUME CInv, NEW h \in Handlers, SaveRawEvent(h)
  PROVE  CInv'
  <1> DEFINE e == handler[h].msg.ev
             r == [handler[h] EXCEPT !.pc = "upsert"]
  <1>1. TypeOK /\ handler[h] \in Handling /\ e \in Events
    BY BusyHandler DEF CInv, SaveRawEvent, At, Handling, Message
  <1>2. /\ e \notin mongo /\ mongo' = mongo \union {e}
        /\ handler' = [handler EXCEPT ![h] = r]
        /\ UNCHANGED <<proc, link, chan, breaker, timers, queue, dlq, losses, forsaken>>
        /\ UNCHANGED <<metrics, processed, published, kills, signals>>
    BY DEF SaveRawEvent, CanInsert, external
  <1>3. /\ r \in Handler /\ r.pc = "upsert" /\ r.msg.ev = e
        /\ r.attempt \in Nat
    BY <1>1, ConsumerAssumption DEF Handler, Handling
  <1> HIDE DEF e, r
  <1>4. /\ MachineOK' /\ handler'[h] = r
        /\ \A g \in Handlers \ {h} : handler'[g] = handler[g]
    BY <1>1, <1>2, <1>3, AdvanceType
  <1>5. TypeOK'
    BY <1>1, <1>2, <1>4 DEF TypeOK, StoresOK
  <1>6. metrics[e] = 0
    BY <1>1, <1>2 DEF CInv, MetricsBounded, TypeOK, StoresOK
  <1>7. \A g \in Handlers \ {h} :
          handler[g].pc \in {"upsert", "mark"} => handler[g].msg.ev # e
    BY <1>2 DEF CInv, UpsertGuarded, MarkGuarded, At
  <1>8. MetricsBounded' /\ MetricsCountedOnce' /\ MarkedOnlyIfStored'
    BY <1>2 DEF CInv, MetricsBounded, MetricsCountedOnce, MarkedOnlyIfStored
  <1>9. UpsertGuarded' /\ MarkGuarded'
    BY <1>2, <1>3, <1>4, <1>6 DEF CInv, UpsertGuarded, MarkGuarded, At
  <1>10. OneUpsertPerEvent'
    BY <1>3, <1>4, <1>7 DEF CInv, OneUpsertPerEvent, At
  <1>11. QED
    BY <1>5, <1>8, <1>9, <1>10 DEF CInv

LEMMA SaveRawEventFailsKeepsCInv ==
  ASSUME CInv, NEW h \in Handlers, SaveRawEventFails(h)
  PROVE  CInv'
  <1>1. TypeOK /\ handler[h] \in Handling /\ handler[h].pc # "idle"
    BY BusyHandler DEF CInv, SaveRawEventFails, At
  <1>2. handler[h].msg.ev \in Events
    BY <1>1 DEF Handling, Message
  <1>3. PICK failure \in Failure : HandleError(h, failure)
    BY ConsumerAssumption DEF SaveRawEventFails, Failure
  <1>4. /\ MachineOK' /\ handler'[h] = Idle
        /\ \A g \in Handlers \ {h} : Kept(g)
    BY <1>1, <1>3, HandleErrorEffect
  <1>5. mongo \subseteq mongo' /\ mongo' \subseteq Events
    BY <1>1, <1>2 DEF SaveRawEventFails, TypeOK, StoresOK
  <1>6. QED
    BY <1>4, <1>5, EndKeepsCInv DEF SaveRawEventFails

\* Finishing moves h from the upsert to its mark, or ends it.
LEMMA FinishEffect ==
  ASSUME CInv, NEW h \in Handlers, At(h, "upsert"), FinishProcessing(h)
  PROVE  /\ MachineOK' /\ handler'[h].pc # "upsert"
         /\ handler'[h].pc = "mark" => handler'[h].msg = handler[h].msg
         /\ \A g \in Handlers \ {h} : Kept(g)
  <1> DEFINE u == [handler[h] EXCEPT !.pc = "mark"]
             r == [handler[h] EXCEPT !.pc = "mark", !.delivery = "settled"]
  <1>1. TypeOK /\ handler[h] \in Handling /\ handler[h].pc # "idle"
    BY BusyHandler DEF CInv, At
  <1>2. r = [u EXCEPT !.delivery = "settled"]
    OBVIOUS
  <1>3. u \in Handling /\ u.pc = "mark" /\ u.msg = handler[h].msg
    BY <1>1 DEF Handling
  <1> HIDE DEF u
  <1>4. r \in Handler /\ r.pc = "mark" /\ r.msg = handler[h].msg
    BY <1>2, <1>3 DEF Handler, Handling
  <1>5. OnSuccess(breaker) \in Breaker /\ CountersSane(OnSuccess(breaker))
    BY <1>1, BreakerStaysSane DEF TypeOK, MachineOK
  <1>6. AckOrFail(h, r, OnSuccess(breaker))
    BY DEF FinishProcessing
  <1> HIDE DEF r
  <1>7. /\ MachineOK' /\ handler'[h] \in {r, Idle}
        /\ \A g \in Handlers \ {h} : Kept(g)
    BY <1>1, <1>4, <1>5, <1>6, AckOrFailEffect
  <1>8. QED
    BY <1>4, <1>7 DEF Idle

\* The last attempt of an upsert: h is the only handler at its event, so the
\* count it may add stays within the number of attempts.
LEMMA FinishKeepsCInv ==
  ASSUME CInv, NEW h \in Handlers, At(h, "upsert"), FinishProcessing(h),
         \/ metrics' = metrics
         \/ metrics' = Counted(handler[h].msg.ev),
         UNCHANGED <<mongo, processed, external>>
  PROVE  CInv'
  <1> DEFINE e == handler[h].msg.ev
  <1>1. TypeOK /\ handler[h] \in Handling /\ e \in Events
    BY BusyHandler DEF CInv, At, Handling, Message
  <1>2. /\ MachineOK' /\ handler'[h].pc # "upsert"
        /\ handler'[h].pc = "mark" => handler'[h].msg = handler[h].msg
        /\ \A g \in Handlers \ {h} : Kept(g)
    BY FinishEffect
  <1>3. /\ e \in mongo /\ metrics[e] \in Nat
        /\ metrics[e] <= postgresUpsertRetryAttempts - 1
        /\ "lostReply" \notin PostgresFaults => metrics[e] = 0
    BY <1>1, ConsumerAssumption
    DEF CInv, UpsertGuarded, TypeOK, StoresOK, Handling
  <1>4. /\ metrics' \in [Events -> Nat]
        /\ metrics'[e] <= metrics[e] + 1
        /\ \A f \in Events \ {e} : metrics'[f] = metrics[f]
    BY <1>1, <1>3 DEF Counted, TypeOK, StoresOK
  <1>5. TypeOK'
    BY <1>1, <1>2, <1>4 DEF TypeOK, StoresOK, external
  <1>6. \A g \in Handlers \ {h} :
          handler[g].pc \in {"upsert", "mark"} => handler[g].msg.ev # e
    BY DEF CInv, OneUpsertPerEvent, At
  <1>7. \A g \in Handlers \ {h} : handler[g].pc # "idle" =>
          handler[g].msg.ev \in Events
    BY <1>1, BusyHandler DEF Handling, Message
  <1>8. \A g \in Handlers \ {h} : handler'[g].pc \in {"upsert", "mark"} =>
          /\ handler[g].pc = handler'[g].pc
          /\ handler'[g].msg = handler[g].msg
          /\ handler'[g].attempt = handler[g].attempt
          /\ handler[g].msg.ev \in Events
          /\ handler[g].pc = "upsert" =>
               metrics'[handler[g].msg.ev] = metrics[handler[g].msg.ev]
    BY <1>2, <1>4, <1>6, <1>7 DEF Kept, Idle, At
  <1>9. MetricsBounded' /\ MetricsCountedOnce' /\ MarkedOnlyIfStored'
    <2>1. ASSUME NEW f \in Events
          PROVE  /\ metrics'[f] <= postgresUpsertRetryAttempts
                 /\ metrics'[f] > 0 => f \in mongo'
      BY <1>3, <1>4, <1>5, ConsumerAssumption
      DEF CInv, MetricsBounded, TypeOK, StoresOK
    <2>2. ASSUME NEW f \in Events, "lostReply" \notin PostgresFaults
          PROVE  metrics'[f] <= 1
      BY <1>3, <1>4, <1>5, <2>2 DEF CInv, MetricsCountedOnce, TypeOK, StoresOK
    <2>3. QED
      BY <2>1, <2>2
      DEF CInv, MetricsBounded, MetricsCountedOnce, MarkedOnlyIfStored
  <1>10. UpsertGuarded'
    BY <1>2, <1>8 DEF CInv, UpsertGuarded, At
  <1>11. MarkGuarded'
    BY <1>2, <1>3, <1>8 DEF CInv, MarkGuarded, At
  <1>12. OneUpsertPerEvent'
    BY <1>2, <1>8 DEF CInv, OneUpsertPerEvent, At
  <1>13. QED
    BY <1>5, <1>9, <1>10, <1>11, <1>12 DEF CInv

LEMMA UpsertMetricsKeepsCInv ==
  ASSUME CInv, NEW h \in Handlers, UpsertMetrics(h)
  PROVE  CInv'
  BY FinishKeepsCInv DEF UpsertMetrics

\* A failed attempt that is not the last: one more attempt and at most one more
\* count, the latter only if a reply can be lost.
LEMMA RetryUpsertKeepsCInv ==
  ASSUME CInv, NEW h \in Handlers, At(h, "upsert"),
         ~LastAttempt(handler[h].attempt),
         \/ metrics' = metrics
         \/ "lostReply" \in PostgresFaults /\ metrics' = Counted(handler[h].msg.ev),
         handler' = [handler EXCEPT ![h].attempt = @ + 1],
         UNCHANGED <<proc, link, chan, breaker, timers, queue, dlq, losses, forsaken>>,
         UNCHANGED <<mongo, processed, external>>
  PROVE  CInv'
  <1> DEFINE e == handler[h].msg.ev
             r == [handler[h] EXCEPT !.attempt = @ + 1]
  <1>1. TypeOK /\ handler[h] \in Handling /\ e \in Events
    BY BusyHandler DEF CInv, At, Handling, Message
  <1>2. /\ handler[h].attempt \in 0..(postgresUpsertRetryAttempts - 1)
        /\ handler[h].attempt + 1 # postgresUpsertRetryAttempts
    BY <1>1 DEF Handling, LastAttempt
  <1>3. handler[h].attempt + 1 \in 0..(postgresUpsertRetryAttempts - 1)
    BY <1>2, ConsumerAssumption
  <1>4. /\ r \in Handling /\ r.pc = "upsert" /\ r.msg = handler[h].msg
        /\ r.attempt = handler[h].attempt + 1
    BY <1>1, <1>3 DEF Handling, At
  <1>5. handler' = [handler EXCEPT ![h] = r]
    OBVIOUS
  <1>6. r \in Handler
    BY <1>4 DEF Handler
  <1> HIDE DEF r
  <1>7. /\ MachineOK' /\ handler'[h] = r
        /\ \A g \in Handlers \ {h} : handler'[g] = handler[g]
    BY <1>1, <1>5, <1>6, AdvanceType
  <1>8. /\ e \in mongo /\ metrics[e] \in Nat
        /\ metrics[e] <= handler[h].attempt
        /\ "lostReply" \notin PostgresFaults => metrics[e] = 0
    BY <1>1 DEF CInv, UpsertGuarded, TypeOK, StoresOK
  <1>9. /\ metrics' \in [Events -> Nat]
        /\ metrics'[e] <= metrics[e] + 1
        /\ "lostReply" \notin PostgresFaults => metrics' = metrics
        /\ \A f \in Events \ {e} : metrics'[f] = metrics[f]
    BY <1>1, <1>8 DEF Counted, TypeOK, StoresOK
  <1>10. TypeOK'
    BY <1>1, <1>7, <1>9 DEF TypeOK, StoresOK, external
  <1>11. \A g \in Handlers \ {h} : handler[g].pc \in {"upsert", "mark"} =>
           /\ handler[g].msg.ev \in Events
           /\ handler[g].msg.ev # e
    <2>1. ASSUME NEW g \in Handlers \ {h}, handler[g].pc \in {"upsert", "mark"}
          PROVE  handler[g].msg.ev \in Events /\ handler[g].msg.ev # e
      BY <1>1, <2>1, BusyHandler DEF CInv, OneUpsertPerEvent, At, Handling, Message
    <2>2. QED
      BY <2>1
  <1>12. MetricsBounded' /\ MetricsCountedOnce' /\ MarkedOnlyIfStored'
    <2>1. ASSUME NEW f \in Events
          PROVE  /\ metrics'[f] <= postgresUpsertRetryAttempts
                 /\ metrics'[f] > 0 => f \in mongo'
      <3>1. mongo' = mongo
        OBVIOUS
      <3>2. CASE f = e
        BY <1>1, <1>2, <1>8, <1>9, <3>1, <3>2, ConsumerAssumption DEF Handling
      <3>3. CASE f # e
        BY <1>9, <3>1, <3>3 DEF CInv, MetricsBounded
      <3>4. QED
        BY <3>2, <3>3
    <2>2. QED
      BY <1>9, <2>1
      DEF CInv, MetricsBounded, MetricsCountedOnce, MarkedOnlyIfStored
  <1>13. UpsertGuarded'
    <2>1. metrics'[e] <= r.attempt
      <3>1. handler[h].attempt \in Nat /\ metrics'[e] \in Nat
        BY <1>1, <1>2, <1>9, ConsumerAssumption
      <3>2. QED
        BY <1>4, <1>8, <1>9, <3>1
    <2>2. QED
      BY <1>4, <1>7, <1>8, <1>9, <1>11, <2>1 DEF CInv, UpsertGuarded, At
  <1>14. MarkGuarded'
    BY <1>4, <1>7 DEF CInv, MarkGuarded, At
  <1>15. OneUpsertPerEvent'
    BY <1>4, <1>7, <1>11 DEF CInv, OneUpsertPerEvent, At
  <1>16. QED
    BY <1>10, <1>12, <1>13, <1>14, <1>15 DEF CInv

LEMMA UpsertMetricsFailsKeepsCInv ==
  ASSUME CInv, NEW h \in Handlers, UpsertMetricsFails(h)
  PROVE  CInv'
  <1>1. \/ metrics' = metrics
        \/ "lostReply" \in PostgresFaults /\ metrics' = Counted(handler[h].msg.ev)
    BY DEF UpsertMetricsFails
  <1>2. CASE LastAttempt(handler[h].attempt) /\ FinishProcessing(h)
    BY <1>1, <1>2, FinishKeepsCInv DEF UpsertMetricsFails
  <1>3. CASE /\ ~LastAttempt(handler[h].attempt)
             /\ handler' = [handler EXCEPT ![h].attempt = @ + 1]
             /\ UNCHANGED <<proc, link, chan, breaker, timers, queue, dlq, losses, forsaken>>
    BY <1>1, <1>3, RetryUpsertKeepsCInv DEF UpsertMetricsFails
  <1>4. QED
    BY <1>2, <1>3 DEF UpsertMetricsFails

\* Marking: the raw event was saved before.
LEMMA MarkProcessedKeepsCInv ==
  ASSUME CInv, NEW h \in Handlers, MarkProcessed(h)
  PROVE  CInv'
  <1>1. TypeOK /\ handler[h] \in Handling
    BY BusyHandler DEF CInv, MarkProcessed, At
  <1>2. handler[h].msg.ev \in mongo /\ Idle \in Handler
    BY DEF CInv, MarkGuarded, MarkProcessed, Handler
  <1>3. /\ processed' \subseteq processed \union {handler[h].msg.ev}
        /\ handler' = [handler EXCEPT ![h] = Idle]
        /\ UNCHANGED <<proc, link, chan, breaker, timers, queue, dlq, losses, forsaken>>
        /\ UNCHANGED <<mongo, metrics, published, kills, signals>>
    BY DEF MarkProcessed, external
  <1>4. /\ MachineOK' /\ handler'[h] = Idle
        /\ \A g \in Handlers \ {h} : handler'[g] = handler[g]
    BY <1>1, <1>2, <1>3, AdvanceType
  <1>5. TypeOK'
    BY <1>1, <1>2, <1>3, <1>4 DEF TypeOK, StoresOK
  <1>6. MetricsBounded' /\ MetricsCountedOnce' /\ MarkedOnlyIfStored'
    BY <1>2, <1>3
    DEF CInv, MetricsBounded, MetricsCountedOnce, MarkedOnlyIfStored
  <1>7. handler'[h].pc = "idle"
    BY <1>4 DEF Idle
  <1>8. UpsertGuarded' /\ MarkGuarded' /\ OneUpsertPerEvent'
    BY <1>3, <1>4, <1>7
    DEF CInv, UpsertGuarded, MarkGuarded, OneUpsertPerEvent, At
  <1>9. QED
    BY <1>5, <1>6, <1>8 DEF CInv

-----------------------------------------------------------------------------
(* The steps of the channel, the process and the world.                    *)

LEMMA RetryTimerKeepsCInv ==
  ASSUME CInv, NEW m \in Message, RetryTimerFires(m)
  PROVE  CInv'
  <1>1. TypeOK
    BY DEF CInv
  <1>2. MachineOK' /\ \A g \in Handlers : Kept(g)
    <2>1. CASE /\ timers' = [timers EXCEPT ![m] = @ - 1]
               /\ queue' = IF chan = "open" THEN [queue EXCEPT ![m] = @ + 1]
                           ELSE queue
               /\ forsaken' \subseteq forsaken \union {m.ev}
               /\ UNCHANGED <<proc, link, chan, breaker, handler, dlq, losses>>
      <3>1. m.ev \in Events
        BY DEF Message
      <3>2. timers[m] - 1 \in Nat
        BY <1>1 DEF RetryTimerFires, TypeOK, MachineOK
      <3>3. /\ timers' \in [Message -> Nat] /\ queue' \in [Message -> Nat]
            /\ forsaken' \subseteq Events
        BY <1>1, <2>1, <3>1, <3>2 DEF TypeOK, MachineOK
      <3>4. QED
        BY <1>1, <2>1, <3>3, IdleHandler DEF TypeOK, MachineOK, Kept
    <2>2. CASE ExitUnhandled
      BY <1>1, <2>2, ExitEffect DEF ExitUnhandled, Kept
    <2>3. QED
      BY <2>1, <2>2 DEF RetryTimerFires
  <1>3. QED
    BY <1>1, <1>2, QuietStep
    DEF RetryTimerFires, stores, external, TypeOK, StoresOK

\* The end of the process keeps the invariant: the stores survive it.
LEMMA ExitKeepsCInv ==
  ASSUME CInv, NEW how \in {"exited", "crashed"}, Exit(how),
         UNCHANGED stores, published' \in [Events -> Nat],
         kills' \in Nat, signals' \in Nat
  PROVE  CInv'
  <1>1. TypeOK
    BY DEF CInv
  <1>2. MachineOK' /\ \A g \in Handlers : Kept(g)
    BY <1>1, ExitEffect DEF Kept
  <1>3. QED
    BY <1>1, <1>2, QuietStep DEF stores, TypeOK, StoresOK

\* The channel goes, noticed or not: only the delivery tags change.
LEMMA DetachKeepsCInv ==
  ASSUME CInv,
         proc' \in {"running", "idle", "draining", "stopping", "exited", "crashed"},
         chan' \in {"null", "broken", "closed"},
         queue' = Requeued,
         handler' = [h \in Handlers |-> Detached(handler[h])],
         link' \in Link, losses' \in Nat,
         UNCHANGED <<breaker, timers, dlq, forsaken, stores, published, kills, signals>>
  PROVE  CInv'
  <1>1. TypeOK /\ \A g \in Handlers : handler[g] \in Handler
    BY DEF CInv, TypeOK, MachineOK
  <1>2. queue' \in [Message -> Nat]
    BY <1>1, RequeuedType
  <1>3. handler' \in [Handlers -> Handler]
    BY <1>1, DetachedType
  <1>4. \A g \in Handlers : Kept(g)
    BY <1>1, IdleHandler, DetachedType DEF Kept
  <1>5. MachineOK'
    BY <1>1, <1>2, <1>3 DEF TypeOK, MachineOK
  <1>6. QED
    BY <1>1, <1>4, <1>5, QuietStep DEF stores, TypeOK, StoresOK

\* What the two awaits of a reconnect loop do to the count of loops.
LEMMA LoopGoesOn ==
  ASSUME link \in Link
  PROVE  /\ ConnectToMessageBroker =>
              /\ link' \in Link
              /\ link'.waiting = link.waiting - 1 /\ link'.consuming = link.consuming + 1
              /\ link'.listeners = link.listeners + 1 /\ link'.consumers = link.consumers
         /\ StartConsuming =>
              /\ link' \in Link
              /\ link'.waiting = link.waiting /\ link'.consuming = link.consuming - 1
              /\ link'.listeners = link.listeners /\ link'.consumers = link.consumers + 1
  <1>1. ASSUME ConnectToMessageBroker
        PROVE  link' = [waiting |-> link.waiting - 1, consuming |-> link.consuming + 1,
                        listeners |-> link.listeners + 1, consumers |-> link.consumers]
    BY <1>1 DEF ConnectToMessageBroker, Link
  <1>2. ASSUME StartConsuming
        PROVE  link' = [waiting |-> link.waiting, consuming |-> link.consuming - 1,
                        listeners |-> link.listeners, consumers |-> link.consumers + 1]
    BY <1>2 DEF StartConsuming, Link
  <1>3. ASSUME ConnectToMessageBroker PROVE link' \in Link
    <2>1. link.waiting - 1 \in Nat
      BY <1>3 DEF ConnectToMessageBroker, Link
    <2>2. QED
      BY <1>1, <1>3, <2>1 DEF Link
  <1>4. ASSUME StartConsuming PROVE link' \in Link
    <2>1. link.consuming - 1 \in Nat
      BY <1>4 DEF StartConsuming, Link
    <2>2. QED
      BY <1>2, <1>4, <2>1 DEF Link
  <1>5. QED
    BY <1>1, <1>2, <1>3, <1>4

\* Steps that leave every handler alone.
LEMMA WorldKeepsCInv ==
  ASSUME CInv,
         \/ ConnectToMessageBroker \/ StartConsuming \/ Start \/ StartFails
         \/ Shutdown \/ TimePasses
         \/ \E e \in Events : Publish(e) \/ ForgetProcessed(e)
  PROVE  CInv'
  <1>1. TypeOK /\ breaker \in Breaker /\ CountersSane(breaker)
    BY DEF CInv, TypeOK, MachineOK
  <1>2. handler' = handler
    BY DEF ConnectToMessageBroker, StartConsuming, Start, StartFails, Shutdown, TimePasses,
           Publish, ForgetProcessed
  <1>3. \A g \in Handlers : Kept(g)
    BY <1>1, <1>2, IdleHandler DEF Kept
  <1>4. CASE ConnectToMessageBroker \/ StartConsuming
    <2>1. link' \in Link
      BY <1>1, <1>4, LoopGoesOn DEF TypeOK, MachineOK
    <2>2. QED
      BY <1>1, <1>3, <1>4, <2>1, QuietStep
      DEF ConnectToMessageBroker, StartConsuming, stores, external, TypeOK, MachineOK, StoresOK
  <1>5. CASE Start \/ StartFails \/ Shutdown
    <2>1. link' \in Link
      <3>1. [NoLink EXCEPT !.listeners = 1, !.consumers = 1] \in Link
        BY DEF NoLink, Link
      <3>2. QED
        BY <1>1, <1>5, <3>1, NoLinkType DEF Start, StartFails, Shutdown, TypeOK, MachineOK
    <2>2. QED
      BY <1>1, <1>3, <1>5, <2>1, QuietStep
      DEF Start, StartFails, Shutdown, stores, external, TypeOK, MachineOK, StoresOK
  <1>6. CASE TimePasses
    BY <1>1, <1>3, <1>6, BreakerStaysSane, QuietStep
    DEF TimePasses, stores, external, TypeOK, MachineOK, StoresOK
  <1>7. ASSUME NEW e \in Events, Publish(e) PROVE CInv'
    <2> DEFINE m == [ev |-> e, retry |-> 0]
    <2>1. m \in Message
      BY ConsumerAssumption DEF Message
    <2>2. /\ queue' = [queue EXCEPT ![m] = @ + 1]
          /\ published' = [published EXCEPT ![e] = @ + 1]
          /\ UNCHANGED <<proc, link, chan, breaker, handler, timers, dlq, losses, forsaken>>
          /\ UNCHANGED <<mongo, metrics, processed, kills, signals>>
      BY <1>7 DEF Publish, stores
    <2> HIDE DEF m
    <2>3. MachineOK' /\ published' \in [Events -> Nat]
      BY <1>1, <2>1, <2>2 DEF TypeOK, MachineOK
    <2>4. QED
      BY <1>1, <1>3, <2>2, <2>3, QuietStep DEF TypeOK, StoresOK
  <1>8. ASSUME NEW e \in Events, ForgetProcessed(e) PROVE CInv'
    BY <1>1, <1>3, <1>8, QuietStep
    DEF ForgetProcessed, external, TypeOK, MachineOK, StoresOK
  <1>9. QED
    BY <1>4, <1>5, <1>6, <1>7, <1>8

\* The close of a channel is noticed, or ends the process.
LEMMA NoticeCloseKeepsCInv ==
  ASSUME CInv, NoticeClose
  PROVE  CInv'
  <1>1. TypeOK /\ breaker \in Breaker /\ CountersSane(breaker)
    BY DEF CInv, TypeOK, MachineOK
  <1>2. CASE /\ chan' = "closed"
             /\ link' = [NoLink EXCEPT !.waiting = LoopsAfterClose]
             /\ breaker' \in {breaker, OnFailure(breaker)}
             /\ UNCHANGED <<proc, handler, timers, queue, dlq, losses, forsaken>>
    <2>1. LoopsAfterClose \in Nat
      BY <1>1 DEF LoopsAfterClose, Link, TypeOK, MachineOK
    <2>2. link' \in Link
      BY <1>2, <2>1, NoLinkType
    <2>3. MachineOK' /\ \A g \in Handlers : Kept(g)
      BY <1>1, <1>2, <2>2, BreakerStaysSane, IdleHandler DEF Kept, TypeOK, MachineOK
    <2>4. QED
      BY <1>1, <2>3, QuietStep DEF NoticeClose, stores, external, TypeOK, StoresOK
  <1>3. CASE ExitUnhandled
    BY <1>1, <1>3, ExitKeepsCInv DEF NoticeClose, ExitUnhandled, external, TypeOK
  <1>4. QED
    BY <1>2, <1>3 DEF NoticeClose

\* A step that changes nothing.
LEMMA StutterKeepsCInv ==
  ASSUME CInv, UNCHANGED vars
  PROVE  CInv'
  <1>1. TypeOK
    BY DEF CInv
  <1>2. \A g \in Handlers : Kept(g)
    BY <1>1, IdleHandler DEF Kept, vars
  <1>3. QED
    BY <1>1, <1>2, QuietStep DEF vars, stores, TypeOK, MachineOK, StoresOK

-----------------------------------------------------------------------------
(* The theorems.                                                           *)

LEMMA HandlerStepKeepsCInv ==
  ASSUME CInv, NEW h \in Handlers, HandlerStep(h)
  PROVE  CInv'
  <1>1. CASE RequeuePaused(h)
    BY <1>1, RequeuePausedKeepsCInv
  <1>2. CASE RejectMalformed(h)
    BY <1>2, RejectMalformedKeepsCInv
  <1>3. CASE SkipDuplicate(h)
    BY <1>3, SkipDuplicateKeepsCInv
  <1>4. CASE PassCheck(h)
    BY <1>4, PassCheckKeepsCInv
  <1>5. CASE SaveRawEvent(h)
    BY <1>5, SaveRawEventKeepsCInv
  <1>6. CASE SaveRawEventFails(h)
    BY <1>6, SaveRawEventFailsKeepsCInv
  <1>7. CASE UpsertMetrics(h)
    BY <1>7, UpsertMetricsKeepsCInv
  <1>8. CASE UpsertMetricsFails(h)
    BY <1>8, UpsertMetricsFailsKeepsCInv
  <1>9. CASE MarkProcessed(h)
    BY <1>9, MarkProcessedKeepsCInv
  <1>10. QED
    BY <1>1, <1>2, <1>3, <1>4, <1>5, <1>6, <1>7, <1>8, <1>9 DEF HandlerStep

LEMMA CInvStep ==
  ASSUME CInv, [Next]_vars
  PROVE  CInv'
  <1>1. TypeOK
    BY DEF CInv
  <1>2. ASSUME NEW h \in Handlers, HandlerStep(h) PROVE CInv'
    BY <1>2, HandlerStepKeepsCInv
  <1>3. ASSUME NEW h \in Handlers, NEW m \in Message, Deliver(h, m) PROVE CInv'
    BY <1>3, DeliverKeepsCInv
  <1>4. ASSUME NEW m \in Message, RetryTimerFires(m) PROVE CInv'
    BY <1>4, RetryTimerKeepsCInv
  <1>5. CASE \/ ConnectToMessageBroker \/ StartConsuming \/ Start \/ StartFails
             \/ Shutdown \/ TimePasses
             \/ \E e \in Events : Publish(e) \/ ForgetProcessed(e)
    BY <1>5, WorldKeepsCInv
  <1>6. CASE LoseChannel
    BY <1>1, <1>6, DetachKeepsCInv DEF LoseChannel, TypeOK, MachineOK
  <1>7. CASE StopDone
    <2>1. link' \in Link
      BY <1>1, <1>7 DEF StopDone, NoLink, Link, TypeOK, MachineOK
    <2>2. QED
      BY <1>1, <1>7, <2>1, DetachKeepsCInv DEF StopDone, external, TypeOK, MachineOK
  <1>8. CASE ExitStopped
    BY <1>1, <1>8, ExitKeepsCInv DEF ExitStopped, external, TypeOK
  <1>9. CASE Kill
    BY <1>1, <1>9, ExitKeepsCInv DEF Kill, TypeOK
  <1>10. CASE UNCHANGED vars
    BY <1>1, <1>10, StutterKeepsCInv
  <1>11. CASE NoticeClose
    BY <1>11, NoticeCloseKeepsCInv
  <1>12. QED
    BY <1>2, <1>3, <1>4, <1>5, <1>6, <1>7, <1>8, <1>9, <1>10, <1>11 DEF Next

LEMMA CInvAlways == Spec => []CInv
  <1>1. Init => CInv
    BY CInvInit
  <1>2. CInv /\ [Next]_vars => CInv'
    BY CInvStep
  <1>3. QED
    BY <1>1, <1>2, PTL DEF Spec

\* Every variable keeps its type, whatever faults, losses, kills and
\* redeliveries the constants allow (the consumer as a whole).
THEOREM ConsumerTypeCorrect == Spec => []TypeOK
  <1>1. CInv => TypeOK
    BY DEF CInv
  <1>2. QED
    BY <1>1, CInvAlways, PTL

\* However often a message is redelivered, endpoint_metrics counts its event at
\* most once per attempt of a single upsert loop (processEvent).
THEOREM ConsumerMetricsBounded == Spec => []MetricsBounded
  <1>1. CInv => MetricsBounded
    BY DEF CInv
  <1>2. QED
    BY <1>1, CInvAlways, PTL

\* And at most once when no reply of Postgres is lost (upsertEndpointMetrics).
THEOREM ConsumerMetricsCountedOnce == Spec => []MetricsCountedOnce
  <1>1. CInv => MetricsCountedOnce
    BY DEF CInv
  <1>2. QED
    BY <1>1, CInvAlways, PTL

\* Redis holds the key of no event whose raw document Mongo does not hold, so
\* that a message skipped as a duplicate is never the only copy (markProcessed
\* comes after processEvent).
THEOREM ConsumerMarkedOnlyIfStored == Spec => []MarkedOnlyIfStored
  <1>1. CInv => MarkedOnlyIfStored
    BY DEF CInv
  <1>2. QED
    BY <1>1, CInvAlways, PTL

-----------------------------------------------------------------------------
(* The contract with the stores (module Processing).                       *)

\* The stores hold of event e what they held.
Untouched(e) ==
    /\ e \in mongo' <=> e \in mongo
    /\ metrics'[e] = metrics[e]
    /\ e \in processed' <=> e \in processed

\* What a step may make of an event: a step of its life, or nothing.
Lives(e) ==
    LET r == LifeOf(e)
    IN  \/ LifeOf(e)' = r
        \/ \E s \in {"counting", "settled"} :
             r.stage = "unseen" /\ LifeOf(e)' = [r EXCEPT !.stage = s]
        \/ \E s \in {"counting", "settled"} :
             /\ r.stage = "counting" /\ r.counted < postgresUpsertRetryAttempts
             /\ LifeOf(e)' = [r EXCEPT !.stage = s, !.counted = @ + 1]
        \/ r.stage = "counting" /\ LifeOf(e)' = [r EXCEPT !.stage = "settled"]
        \/ r.stage = "settled" /\ LifeOf(e)' = [r EXCEPT !.key = "written"]
        \/ r.key = "written" /\ LifeOf(e)' = [r EXCEPT !.key = "absent"]

\* A step in which every event lives on is a step of the contract.
LEMMA LivesOn ==
  ASSUME TypeOK', \A e \in Events : Lives(e)
  PROVE  Contract!Next
  <1> DEFINE L == [e \in Events |-> LifeOf(e)]
  <1>1. L' \in [Events -> Contract!Life]
    BY DEF LifeOf, TypeOK, StoresOK, Contract!Life
  <1>2. \A e \in Events : L[e] = LifeOf(e) /\ L'[e] = LifeOf(e)'
    OBVIOUS
  <1>3. ASSUME NEW e \in Events
        PROVE  \/ L'[e] = L[e]
               \/ Contract!Insert(e) \/ Contract!Count(e) \/ Contract!GiveUp(e)
               \/ Contract!Mark(e) \/ Contract!Forget(e)
    BY <1>2, <1>3
    DEF Lives, Contract!Insert, Contract!Count, Contract!GiveUp, Contract!Mark,
        Contract!Forget, Contract!Moves
  <1>4. QED
    BY <1>1, <1>3 DEF Contract!Next

\* No event is counted that was not, unless a handler comes to it.
LEMMA CountingStays ==
  ASSUME NEW e \in Events, Counting(e)',
         \A g \in Handlers :
            \/ Kept(g)
            \/ handler'[g].pc # "upsert"
            \/ handler'[g].msg.ev # e
  PROVE  Counting(e)
  BY DEF Counting, At, Kept, Idle

\* An event is counted only after its insert, and not for the last time yet.
LEMMA CountingStored ==
  ASSUME CInv, NEW e \in Events, Counting(e)
  PROVE  e \in mongo /\ metrics[e] \in Nat /\ metrics[e] < postgresUpsertRetryAttempts
  <1>1. PICK h \in Handlers : At(h, "upsert") /\ handler[h].msg.ev = e
    BY DEF Counting
  <1>2. handler[h] \in Handling
    BY <1>1, BusyHandler DEF CInv, At
  <1>3. handler[h].attempt \in Nat /\ handler[h].attempt < postgresUpsertRetryAttempts
    BY <1>2, ConsumerAssumption DEF Handling
  <1>4. metrics[e] \in Nat
    BY DEF CInv, TypeOK, StoresOK
  <1>5. QED
    BY <1>1, <1>3, <1>4, ConsumerAssumption DEF CInv, UpsertGuarded

\* An untouched event stays, or is given up.
LEMMA UntouchedLives ==
  ASSUME NEW e \in Events, Untouched(e), Counting(e)' => Counting(e)
  PROVE  Lives(e)
  BY DEF Lives, LifeOf, Untouched

\* So do all of them, when a step leaves the stores alone.
LEMMA QuietLives ==
  ASSUME UNCHANGED stores,
         \A g \in Handlers : Kept(g) \/ handler'[g].pc # "upsert"
  PROVE  \A e \in Events : Lives(e)
  <1> SUFFICES ASSUME NEW e \in Events PROVE Lives(e)
    OBVIOUS
  <1>1. Untouched(e)
    BY DEF stores, Untouched
  <1>2. QED
    BY <1>1, CountingStays, UntouchedLives

\* A failing or an acknowledging handler does not go on counting.
LEMMA EndingLives ==
  ASSUME UNCHANGED stores, NEW h \in Handlers,
         handler'[h] = Idle, \A g \in Handlers \ {h} : Kept(g)
  PROVE  \A e \in Events : Lives(e)
  BY QuietLives DEF Kept

LEMMA SaveRawEventLives ==
  ASSUME CInv, NEW h \in Handlers, SaveRawEvent(h)
  PROVE  \A e \in Events : Lives(e)
  <1> DEFINE r == [handler[h] EXCEPT !.pc = "upsert"]
  <1>1. TypeOK /\ handler[h] \in Handling /\ handler[h].msg.ev \in Events
    BY BusyHandler DEF CInv, SaveRawEvent, At, Handling, Message
  <1>2. PICK e \in Events : e = handler[h].msg.ev
    BY <1>1
  <1>3. /\ e \notin mongo /\ mongo' = mongo \union {e}
        /\ handler' = [handler EXCEPT ![h] = r]
        /\ UNCHANGED <<proc, link, chan, breaker, timers, queue, dlq, losses, forsaken>>
        /\ UNCHANGED <<metrics, processed>>
    BY <1>2 DEF SaveRawEvent, CanInsert
  <1>4. r \in Handler /\ r.msg.ev = e
    BY <1>1, <1>2 DEF Handler, Handling
  <1> HIDE DEF r
  <1>5. handler'[h] = r /\ \A g \in Handlers \ {h} : Kept(g)
    BY <1>1, <1>3, <1>4, AdvanceType
  <1>6. Lives(e)
    BY <1>3 DEF Lives, LifeOf
  <1>7. ASSUME NEW f \in Events \ {e} PROVE Lives(f)
    <2>1. Untouched(f)
      BY <1>3 DEF Untouched
    <2>2. \A g \in Handlers : Kept(g) \/ handler'[g].msg.ev # f
      BY <1>4, <1>5
    <2>3. QED
      BY <2>1, <2>2, CountingStays, UntouchedLives
  <1>8. QED
    BY <1>6, <1>7

LEMMA SaveRawEventFailsLives ==
  ASSUME CInv, NEW h \in Handlers, SaveRawEventFails(h)
  PROVE  \A e \in Events : Lives(e)
  <1>1. TypeOK /\ handler[h].pc # "idle"
    BY DEF CInv, SaveRawEventFails, At
  <1>2. PICK failure \in Failure : HandleError(h, failure)
    BY ConsumerAssumption DEF SaveRawEventFails, Failure
  <1>3. \A g \in Handlers : Kept(g)
    BY <1>1, <1>2, HandleErrorEffect DEF Kept
  <1> SUFFICES ASSUME NEW e \in Events PROVE Lives(e)
    OBVIOUS
  <1>4. /\ e \in mongo => e \in mongo'
        /\ UNCHANGED <<metrics, processed>>
    BY DEF SaveRawEventFails
  <1>5. Counting(e)' => Counting(e)
    BY <1>3, CountingStays
  <1>6. CASE e \in mongo' <=> e \in mongo
    BY <1>4, <1>5, <1>6, UntouchedLives DEF Untouched
  <1>7. CASE e \notin mongo /\ e \in mongo'
    BY <1>4, <1>7 DEF Lives, LifeOf
  <1>8. QED
    BY <1>4, <1>6, <1>7

\* An attempt of the upsert, the last one or not, counts its own event at most.
LEMMA AttemptLives ==
  ASSUME CInv, NEW h \in Handlers, At(h, "upsert"),
         metrics' = metrics \/ metrics' = Counted(handler[h].msg.ev),
         UNCHANGED <<mongo, processed>>,
         \A g \in Handlers : Kept(g) \/ handler'[g].pc # "upsert" \/ g = h,
         handler'[h].pc = "upsert" => handler'[h].msg = handler[h].msg
  PROVE  \A e \in Events : Lives(e)
  <1>1. handler[h].msg.ev \in Events /\ metrics \in [Events -> Nat]
    BY BusyHandler DEF CInv, At, Handling, Message, TypeOK, StoresOK
  <1>2. PICK e \in Events : e = handler[h].msg.ev
    BY <1>1
  <1>3. /\ Counting(e) /\ e \in mongo
        /\ metrics[e] \in Nat /\ metrics[e] < postgresUpsertRetryAttempts
    BY <1>2, CountingStored DEF Counting
  <1>4. /\ metrics'[e] \in {metrics[e], metrics[e] + 1}
        /\ \A f \in Events \ {e} : metrics'[f] = metrics[f]
    BY <1>1, <1>2 DEF Counted
  <1>5. Lives(e)
    <2>1. CASE metrics'[e] = metrics[e]
      BY <1>3, <2>1, UntouchedLives DEF Untouched
    <2>2. CASE metrics'[e] = metrics[e] + 1
      <3>1. PICK r : r = LifeOf(e)
        OBVIOUS
      <3>2. /\ r = [stage |-> "counting", counted |-> metrics[e], key |-> r.key]
            /\ r.stage = "counting" /\ r.counted = metrics[e]
        BY <1>3, <3>1 DEF LifeOf
      <3>3. PICK s \in {"counting", "settled"} :
               LifeOf(e)' = [stage |-> s, counted |-> metrics[e] + 1, key |-> r.key]
        BY <1>3, <2>2, <3>1 DEF LifeOf
      <3>4. LifeOf(e)' = [r EXCEPT !.stage = s, !.counted = @ + 1]
        <4> DEFINE q == [r EXCEPT !.stage = s]
        <4>1. q = [stage |-> s, counted |-> metrics[e], key |-> r.key]
          BY <3>2
        <4>2. [r EXCEPT !.stage = s, !.counted = @ + 1] = [q EXCEPT !.counted = @ + 1]
          BY <3>2
        <4> HIDE DEF q
        <4>3. [q EXCEPT !.counted = @ + 1]
                = [stage |-> s, counted |-> metrics[e] + 1, key |-> r.key]
          BY <4>1
        <4>4. QED
          BY <3>3, <4>2, <4>3
      <3>5. QED
        BY <1>3, <3>1, <3>2, <3>4 DEF Lives
    <2>3. QED
      BY <1>4, <2>1, <2>2
  <1>6. ASSUME NEW f \in Events \ {e} PROVE Lives(f)
    <2>1. Untouched(f)
      BY <1>4 DEF Untouched
    <2>2. QED
      BY <1>2, <2>1, CountingStays, UntouchedLives
  <1>7. QED
    BY <1>5, <1>6

LEMMA UpsertMetricsLives ==
  ASSUME CInv, NEW h \in Handlers, UpsertMetrics(h)
  PROVE  \A e \in Events : Lives(e)
  BY FinishEffect, AttemptLives DEF UpsertMetrics

LEMMA UpsertMetricsFailsLives ==
  ASSUME CInv, NEW h \in Handlers, UpsertMetricsFails(h)
  PROVE  \A e \in Events : Lives(e)
  <1>1. /\ At(h, "upsert") /\ UNCHANGED <<mongo, processed>>
        /\ metrics' = metrics \/ metrics' = Counted(handler[h].msg.ev)
    BY DEF UpsertMetricsFails
  <1>2. CASE FinishProcessing(h)
    BY <1>1, <1>2, FinishEffect, AttemptLives
  <1>3. CASE handler' = [handler EXCEPT ![h].attempt = @ + 1]
    <2>1. handler \in [Handlers -> Handler] /\ handler[h] \in Handling
      BY <1>1, BusyHandler DEF CInv, TypeOK, MachineOK, At
    <2>2. handler'[h].msg = handler[h].msg
      BY <1>3, <2>1 DEF Handling
    <2>3. \A g \in Handlers \ {h} : Kept(g)
      BY <1>3, <2>1, IdleHandler DEF CInv, Kept
    <2>4. QED
      BY <1>1, <2>2, <2>3, AttemptLives
  <1>4. QED
    BY <1>2, <1>3 DEF UpsertMetricsFails

\* A handler that marks its event has done with it, and nobody else is at it.
LEMMA MarkProcessedLives ==
  ASSUME CInv, NEW h \in Handlers, MarkProcessed(h)
  PROVE  \A e \in Events : Lives(e)
  <1> DEFINE e == handler[h].msg.ev
  <1>1. TypeOK /\ e \in mongo /\ ~Counting(e)
    <2>1. \A g \in Handlers : At(g, "upsert") => handler[g].msg.ev # e
      BY DEF CInv, OneUpsertPerEvent, MarkProcessed, At
    <2>2. QED
      BY <2>1 DEF CInv, MarkGuarded, MarkProcessed, Counting
  <1>2. /\ processed' = processed \union {e} \/ processed' = processed
        /\ UNCHANGED <<mongo, metrics>>
    BY DEF MarkProcessed
  <1>3. \A g \in Handlers : Kept(g)
    BY <1>1, IdleHandler DEF MarkProcessed, TypeOK, MachineOK, Kept
  <1> HIDE DEF e
  <1> SUFFICES ASSUME NEW f \in Events PROVE Lives(f)
    OBVIOUS
  <1>4. Counting(f)' => Counting(f)
    BY <1>3, CountingStays
  <1>5. CASE Untouched(f)
    BY <1>4, <1>5, UntouchedLives
  <1>6. CASE ~Untouched(f)
    <2>1. f = e /\ f \notin processed /\ f \in processed'
      BY <1>2, <1>6 DEF Untouched
    <2>2. QED
      BY <1>1, <1>2, <1>4, <2>1 DEF Lives, LifeOf
  <1>7. QED
    BY <1>5, <1>6

\* Redis forgets one key, and no handler moves.
LEMMA ForgetProcessedLives ==
  ASSUME NEW e \in Events, ForgetProcessed(e)
  PROVE  \A f \in Events : Lives(f)
  <1> SUFFICES ASSUME NEW f \in Events PROVE Lives(f)
    OBVIOUS
  <1>1. Counting(f)' <=> Counting(f)
    BY DEF ForgetProcessed, Counting, At
  <1>2. CASE f = e
    BY <1>1, <1>2 DEF ForgetProcessed, Lives, LifeOf
  <1>3. CASE f # e
    BY <1>1, <1>3, UntouchedLives DEF ForgetProcessed, Untouched
  <1>4. QED
    BY <1>2, <1>3

LEMMA HandlerStepLives ==
  ASSUME CInv, NEW h \in Handlers, HandlerStep(h)
  PROVE  \A e \in Events : Lives(e)
  <1>1. TypeOK /\ Idle \in Handler /\ {} \in SUBSET DeadLetter
        /\ breaker \in Breaker /\ CountersSane(breaker)
    BY DEF CInv, TypeOK, MachineOK, Handler
  <1>2. CASE RequeuePaused(h)
    <2>1. handler[h].pc # "idle" /\ UNCHANGED stores
      BY <1>2 DEF RequeuePaused, At
    <2>2. CASE Settle(h, "requeue", Idle, {})
      BY <1>1, <2>1, <2>2, SettleEffect, EndingLives
    <2>3. CASE ExitUnhandled
      BY <1>1, <2>1, <2>3, ExitEffect, EndingLives DEF ExitUnhandled, Kept
    <2>4. QED
      BY <1>2, <2>2, <2>3 DEF RequeuePaused
  <1>3. CASE RejectMalformed(h)
    BY <1>1, <1>3, HandleErrorEffect, EndingLives DEF RejectMalformed, At
  <1>4. CASE SkipDuplicate(h)
    <2>1. handler[h].pc # "idle" /\ UNCHANGED stores /\ AckOrFail(h, Idle, breaker)
      BY <1>4 DEF SkipDuplicate, At
    <2>2. QED
      BY <1>1, <2>1, AckOrFailEffect, EndingLives
  <1>5. CASE PassCheck(h)
    <2>1. handler[h] \in Handling /\ UNCHANGED stores
          /\ handler' = [handler EXCEPT ![h].pc = "save"]
      BY <1>1, <1>5, BusyHandler DEF PassCheck, At
    <2>2. handler'[h].pc # "upsert" /\ \A g \in Handlers \ {h} : Kept(g)
      BY <1>1, <2>1, IdleHandler DEF TypeOK, MachineOK, Handling, Kept
    <2>3. QED
      BY <2>1, <2>2, QuietLives
  <1>6. CASE SaveRawEvent(h)
    BY <1>6, SaveRawEventLives
  <1>7. CASE SaveRawEventFails(h)
    BY <1>7, SaveRawEventFailsLives
  <1>8. CASE UpsertMetrics(h)
    BY <1>8, UpsertMetricsLives
  <1>9. CASE UpsertMetricsFails(h)
    BY <1>9, UpsertMetricsFailsLives
  <1>10. CASE MarkProcessed(h)
    BY <1>10, MarkProcessedLives
  <1>11. QED
    BY <1>2, <1>3, <1>4, <1>5, <1>6, <1>7, <1>8, <1>9, <1>10 DEF HandlerStep

\* The initial states are the contract's.
LEMMA ContractInit == Init => Contract!Init
  <1> SUFFICES ASSUME Init PROVE Contract!Init
    OBVIOUS
  <1>1. \A e \in Events :
          LifeOf(e) = [stage |-> "unseen", counted |-> 0, key |-> "absent"]
    BY DEF Init, LifeOf
  <1>2. QED
    BY <1>1 DEF Contract!Init

\* Every step is a step of the contract.
LEMMA ContractStep ==
  ASSUME CInv, CInv', Next
  PROVE  Contract!Next
  <1> SUFFICES \A e \in Events : Lives(e)
    BY LivesOn DEF CInv
  <1>1. TypeOK
    BY DEF CInv
  <1>2. ASSUME NEW h \in Handlers, HandlerStep(h) PROVE \A e \in Events : Lives(e)
    BY <1>2, HandlerStepLives
  <1>3. ASSUME NEW h \in Handlers, NEW m \in Message, Deliver(h, m)
        PROVE  \A e \in Events : Lives(e)
    <2>1. \A g \in Handlers : Kept(g) \/ handler'[g].pc # "upsert"
      BY <1>1, <1>3, IdleHandler DEF Deliver, TypeOK, MachineOK, Kept
    <2>2. QED
      BY <1>3, <2>1, QuietLives DEF Deliver
  <1>4. ASSUME NEW m \in Message, RetryTimerFires(m) PROVE \A e \in Events : Lives(e)
    <2>1. \A g \in Handlers : Kept(g)
      BY <1>1, <1>4, ExitEffect, IdleHandler DEF RetryTimerFires, ExitUnhandled, Kept
    <2>2. QED
      BY <1>4, <2>1, QuietLives DEF RetryTimerFires
  <1>5. ASSUME NEW e \in Events, ForgetProcessed(e) PROVE \A f \in Events : Lives(f)
    BY <1>5, ForgetProcessedLives
  <1>6. CASE \/ ConnectToMessageBroker \/ StartConsuming \/ Start \/ StartFails
             \/ Shutdown \/ TimePasses \/ \E e \in Events : Publish(e)
    <2>1. UNCHANGED handler /\ UNCHANGED stores
      BY <1>6
      DEF ConnectToMessageBroker, StartConsuming, Start, StartFails, Shutdown, TimePasses, Publish
    <2>2. \A g \in Handlers : Kept(g)
      BY <1>1, <2>1, IdleHandler DEF Kept
    <2>3. QED
      BY <2>1, <2>2, QuietLives
  <1>7. CASE LoseChannel \/ StopDone
    <2>1. \A g \in Handlers : handler[g] \in Handler /\ handler'[g] = Detached(handler[g])
      BY <1>1, <1>7 DEF LoseChannel, StopDone, TypeOK, MachineOK
    <2>2. \A g \in Handlers : Kept(g)
      BY <1>1, <2>1, IdleHandler, DetachedType DEF Kept
    <2>3. QED
      BY <1>7, <2>2, QuietLives DEF LoseChannel, StopDone
  <1>8. CASE ExitStopped \/ Kill
    <2>1. \A g \in Handlers : Kept(g)
      BY <1>1, <1>8, ExitEffect DEF ExitStopped, Kill, Kept
    <2>2. QED
      BY <1>8, <2>1, QuietLives DEF ExitStopped, Kill
  <1>9. CASE NoticeClose
    <2>1. \A g \in Handlers : Kept(g)
      BY <1>1, <1>9, ExitEffect, IdleHandler DEF NoticeClose, ExitUnhandled, Kept
    <2>2. QED
      BY <1>9, <2>1, QuietLives DEF NoticeClose
  <1>10. QED
    BY <1>2, <1>3, <1>4, <1>5, <1>6, <1>7, <1>8, <1>9 DEF Next

\* The consumer keeps its contract with the stores: whatever is redelivered, published
\* twice, retried, lost, forgotten or killed half-way, an event is inserted once, counted
\* by one upsert within its attempts and never again, and marked only when that is over
\* (handleMessage in consumer.ts and processEvent in processor.service.ts).
THEOREM ConsumerKeepsContract == Spec => ProcessedOnce
  <1>1. UNCHANGED vars => UNCHANGED Contract!vars
    BY DEF vars, stores, LifeOf, Counting, At, Contract!vars
  <1>2. CInv /\ CInv' /\ [Next]_vars => [Contract!Next]_(Contract!vars)
    BY <1>1, ContractStep
  <1>3. Spec => Contract!Init /\ [][Contract!Next]_(Contract!vars)
    BY <1>2, CInvAlways, ContractInit, PTL DEF Spec
  <1>4. QED
    BY <1>3 DEF ProcessedOnce, Contract!Spec

-----------------------------------------------------------------------------
(* The channel: no handler touches the reconnect loops.                    *)

\* A step of a handler leaves process and loops as they are, or ends them; at most the
\* channel breaks under it.
LinkKept ==
    /\ UNCHANGED <<proc, link>>
    /\ chan' = chan \/ (chan = "open" /\ chan' = "broken")

LEMMA SettleKeepsLink ==
  ASSUME NEW h, NEW verdict, NEW after, NEW sent, Settle(h, verdict, after, sent)
  PROVE  chan' = chan \/ (chan = "open" /\ chan' = "broken")
  BY DEF Settle, SettleOwn, SettleOther, SettleUnknown, SettleLost

LEMMA HandleErrorKeepsLink ==
  ASSUME NEW h, NEW failure, HandleError(h, failure)
  PROVE  LinkKept \/ Exit("crashed")
  <1>1. CASE ExitUnhandled
    BY <1>1 DEF ExitUnhandled
  <1>2. CASE RetryMessage(h)
    BY <1>2, SettleKeepsLink DEF RetryMessage, ExitUnhandled, LinkKept
  <1>3. CASE SendToDLQ(h)
    BY <1>3, SettleKeepsLink DEF SendToDLQ, ExitUnhandled, LinkKept
  <1>4. QED
    BY <1>1, <1>2, <1>3 DEF HandleError

LEMMA AckOrFailKeepsLink ==
  ASSUME NEW h, NEW after, NEW b, AckOrFail(h, after, b)
  PROVE  LinkKept \/ Exit("crashed")
  BY SettleKeepsLink, HandleErrorKeepsLink DEF AckOrFail, LinkKept

LEMMA HandlerStepKeepsLink ==
  ASSUME NEW h \in Handlers, HandlerStep(h)
  PROVE  LinkKept \/ Exit("crashed")
  <1>1. CASE RequeuePaused(h)
    BY <1>1, SettleKeepsLink DEF RequeuePaused, ExitUnhandled, LinkKept
  <1>2. CASE RejectMalformed(h)
    BY <1>2, HandleErrorKeepsLink DEF RejectMalformed
  <1>3. CASE SkipDuplicate(h)
    BY <1>3, AckOrFailKeepsLink DEF SkipDuplicate
  <1>4. CASE PassCheck(h) \/ SaveRawEvent(h) \/ MarkProcessed(h)
    BY <1>4 DEF PassCheck, SaveRawEvent, MarkProcessed, LinkKept
  <1>5. CASE SaveRawEventFails(h)
    BY <1>5, HandleErrorKeepsLink DEF SaveRawEventFails
  <1>6. CASE FinishProcessing(h)
    BY <1>6, AckOrFailKeepsLink DEF FinishProcessing
  <1>7. CASE UpsertMetrics(h)
    BY <1>6, <1>7 DEF UpsertMetrics
  <1>8. CASE UpsertMetricsFails(h)
    BY <1>6, <1>8 DEF UpsertMetricsFails, LinkKept
  <1>9. QED
    BY <1>1, <1>2, <1>3, <1>4, <1>5, <1>7, <1>8 DEF HandlerStep

\* A running consumer is never deaf for good: whatever channel closes, under whichever
\* pending consume(), noticed or not, a close listener or a reconnect loop is there to
\* make the next consumer (reconnectToChannel and the listeners of
\* connectToMessageBroker in consumer.ts).
THEOREM ConsumerNeverDeaf == Spec => []NeverDeaf
  <1>1. Init => NeverDeaf
    BY DEF Init, NeverDeaf
  <1>2. ASSUME TypeOK, NeverDeaf, [Next]_vars PROVE NeverDeaf'
    <2> DEFINE w == link.waiting  c == link.consuming
               l == link.listeners  n == link.consumers
    <2>1. /\ w \in Nat /\ c \in Nat /\ l \in Nat /\ n \in Nat
          /\ link \in Link
      BY <1>2 DEF Link, TypeOK, MachineOK
    <2>2. ASSUME LinkKept PROVE NeverDeaf'
      BY <1>2, <2>2 DEF LinkKept, NeverDeaf
    <2>3. ASSUME NEW how \in {"exited", "crashed"}, Exit(how) PROVE NeverDeaf'
      BY <2>3 DEF Exit, NeverDeaf
    <2>4. ASSUME NEW h \in Handlers, HandlerStep(h) PROVE NeverDeaf'
      BY <2>2, <2>3, <2>4, HandlerStepKeepsLink
    <2>5. ASSUME NEW h \in Handlers, NEW m \in Message, Deliver(h, m) PROVE NeverDeaf'
      BY <2>2, <2>5 DEF Deliver, LinkKept
    <2>6. ASSUME NEW m \in Message, RetryTimerFires(m) PROVE NeverDeaf'
      BY <2>2, <2>3, <2>6 DEF RetryTimerFires, ExitUnhandled, LinkKept
    <2>7. ASSUME NEW e \in Events, Publish(e) \/ ForgetProcessed(e) PROVE NeverDeaf'
      BY <2>2, <2>7 DEF Publish, ForgetProcessed, LinkKept
    <2>8. CASE LoseChannel \/ TimePasses \/ UNCHANGED vars
      BY <2>2, <2>8 DEF LoseChannel, TimePasses, LinkKept, vars
    <2>9. CASE NoticeClose
      <3>1. CASE ExitUnhandled
        BY <2>3, <3>1 DEF ExitUnhandled
      <3>2. CASE /\ chan' = "closed" /\ proc' = proc
                 /\ link' = [NoLink EXCEPT !.waiting = LoopsAfterClose]
        <4>1. /\ link'.waiting = LoopsAfterClose
              /\ link'.consuming = 0 /\ link'.consumers = 0
          BY <3>2 DEF NoLink
        <4>2. proc = "running" => LoopsAfterClose = w + c + l /\ l > 0
          BY <1>2, <2>9 DEF LoopsAfterClose, NeverDeaf, NoticeClose
        <4>3. proc = "running" => link'.waiting \in Nat /\ link'.waiting > 0
          BY <2>1, <4>1, <4>2
        <4>4. QED
          BY <3>2, <4>1, <4>3 DEF NeverDeaf
      <3>3. QED
        BY <2>9, <3>1, <3>2 DEF NoticeClose
    <2>10. CASE ConnectToMessageBroker
      <3>1. /\ link'.waiting = w - 1 /\ link'.consuming = c + 1
            /\ link'.listeners = l + 1 /\ link'.consumers = n
        BY <2>1, <2>10, LoopGoesOn
      <3>2. proc' = proc /\ w > 0 /\ chan' \in {"open", chan}
            /\ (chan \in {"closed", "null"} => chan' = "open")
        BY <2>10 DEF ConnectToMessageBroker
      <3>3. QED
        BY <1>2, <2>1, <3>1, <3>2 DEF NeverDeaf
    <2>11. CASE StartConsuming
      <3>1. /\ link'.waiting = w /\ link'.consuming = c - 1
            /\ link'.listeners = l /\ link'.consumers = n + 1
        BY <2>1, <2>11, LoopGoesOn
      <3>2. proc' = proc /\ chan' = chan /\ c > 0
        BY <2>11 DEF StartConsuming
      <3>3. QED
        BY <1>2, <2>1, <3>1, <3>2 DEF NeverDeaf
    <2>12. CASE Start
      BY <2>12 DEF Start, NoLink, NeverDeaf
    <2>13. CASE StartFails \/ Shutdown \/ StopDone
      BY <2>13 DEF StartFails, Shutdown, StopDone, NeverDeaf
    <2>14. CASE ExitStopped \/ Kill
      BY <2>3, <2>14 DEF ExitStopped, Kill
    <2>15. QED
      BY <1>2, <2>4, <2>5, <2>6, <2>7, <2>8, <2>9, <2>10, <2>11, <2>12, <2>13, <2>14 DEF Next
  <1>3. TypeOK /\ NeverDeaf /\ [Next]_vars => NeverDeaf'
    BY <1>2
  <1>4. QED
    BY <1>1, <1>3, ConsumerTypeCorrect, PTL DEF Spec

\* A process that has ended has neither channel nor loops.
Ended == proc \in {"exited", "crashed"} => chan = "null" /\ link = NoLink

\* A delivery is outstanding on an open channel only.
Attached == chan # "open" => Outstanding = {}

LEMMA EndedStep ==
  ASSUME Ended, [Next]_vars
  PROVE  Ended'
  <1>1. ASSUME NEW how \in {"exited", "crashed"}, Exit(how) PROVE Ended'
    BY <1>1 DEF Exit, Ended
  <1>2. ASSUME LinkKept PROVE Ended'
    BY <1>2 DEF LinkKept, Ended
  <1>3. ASSUME NEW h \in Handlers, HandlerStep(h) PROVE Ended'
    BY <1>1, <1>2, <1>3, HandlerStepKeepsLink
  <1>4. ASSUME NEW h \in Handlers, NEW m \in Message, Deliver(h, m) PROVE Ended'
    BY <1>2, <1>4 DEF Deliver, LinkKept
  <1>5. ASSUME NEW m \in Message, RetryTimerFires(m) PROVE Ended'
    BY <1>1, <1>2, <1>5 DEF RetryTimerFires, ExitUnhandled, LinkKept
  <1>6. ASSUME NEW e \in Events, Publish(e) \/ ForgetProcessed(e) PROVE Ended'
    BY <1>2, <1>6 DEF Publish, ForgetProcessed, LinkKept
  <1>7. CASE LoseChannel \/ TimePasses \/ UNCHANGED vars
    BY <1>2, <1>7 DEF LoseChannel, TimePasses, LinkKept, vars
  <1>8. CASE NoticeClose
    BY <1>1, <1>8 DEF NoticeClose, ExitUnhandled, Ended
  <1>9. CASE ConnectToMessageBroker \/ StartConsuming
    BY <1>9 DEF ConnectToMessageBroker, StartConsuming, Ended, NoLink
  <1>10. CASE Start \/ StartFails \/ Shutdown \/ StopDone
    BY <1>10 DEF Start, StartFails, Shutdown, StopDone, Ended
  <1>11. CASE ExitStopped \/ Kill
    BY <1>1, <1>11 DEF ExitStopped, Kill
  <1>12. QED
    BY <1>3, <1>4, <1>5, <1>6, <1>7, <1>8, <1>9, <1>10, <1>11 DEF Next

LEMMA EndedAlways == Spec => []Ended
  <1>1. Init => Ended
    BY DEF Init, Ended
  <1>2. Ended /\ [Next]_vars => Ended'
    BY EndedStep
  <1>3. QED
    BY <1>1, <1>2, PTL DEF Spec

\* What every step but a delivery does to the unsettled deliveries: there are no
\* more of them, and a channel takes all of its own away with it.
Dwindles ==
    /\ Outstanding' \subseteq Outstanding
    /\ chan = "open" /\ chan' # "open" => Outstanding' = {}

\* A handler that has nothing outstanding.
Released(r) == r.pc = "idle" \/ r.delivery # "live"

\* The end of a channel takes a delivery out.
LEMMA DetachedReleased == ASSUME NEW r \in Handler PROVE Released(Detached(r))
  <1>1. CASE r = Idle
    BY <1>1 DEF Detached, Released, Idle
  <1>2. CASE r \in Handling
    BY <1>2 DEF Detached, Released, Handling
  <1>3. QED
    BY <1>1, <1>2 DEF Handler

\* Each way to settle a delivery takes one out, or all.
LEMMA SettleDwindles ==
  ASSUME TypeOK, NEW h \in Handlers, NEW after, Released(after),
         NEW verdict, NEW sent, Settle(h, verdict, after, sent)
  PROVE  Dwindles
  <1>1. handler \in [Handlers -> Handler] /\ Released(Idle)
    BY DEF TypeOK, MachineOK, Released, Idle
  <1>2. CASE SettleOwn(h, verdict, after, sent) \/ SettleLost(h, after)
    <2>1. handler' = [handler EXCEPT ![h] = after] /\ chan' = chan
      BY <1>2 DEF SettleOwn, SettleLost
    <2>2. QED
      BY <1>1, <2>1 DEF Dwindles, Outstanding, Released
  <1>3. CASE SettleOther(h, verdict, after, sent)
    <2>1. chan' = chan
      BY <1>3 DEF SettleOther
    <2>2. PICK g \in Outstanding :
             handler' = [handler EXCEPT ![h] = after, ![g].delivery = "gone"]
      BY <1>3 DEF SettleOther
    <2>3. g \in Handlers /\ g # h /\ handler[g].pc # "idle"
      BY <1>3 DEF SettleOther, Outstanding
    <2>4. \A f \in Handlers \ {g} : handler'[f] = IF f = h THEN after ELSE handler[f]
      BY <1>1, <2>2, <2>3
    <2>5. ASSUME NEW f \in Outstanding' PROVE f \in Outstanding
      BY <2>2, <2>4, <2>5 DEF Outstanding, Released
    <2>6. QED
      BY <2>1, <2>5 DEF Dwindles
  <1>4. CASE SettleUnknown(h, verdict, after, sent)
    <2>1. handler' = [g \in Handlers |-> IF g = h THEN after ELSE Detached(handler[g])]
      BY <1>4 DEF SettleUnknown
    <2>2. ASSUME NEW g \in Handlers PROVE Released(Detached(handler[g]))
      BY <1>1, DetachedReleased
    <2>3. Outstanding' = {}
      BY <2>1, <2>2 DEF Outstanding, Released
    <2>4. QED
      BY <2>3 DEF Dwindles
  <1>5. QED
    BY <1>2, <1>3, <1>4 DEF Settle

\* Whoever ends, ends with nothing outstanding.
LEMMA EndDwindles ==
  ASSUME TypeOK, NEW h \in Handlers,
         \/ Exit("exited") \/ Exit("crashed")
         \/ handler' = [handler EXCEPT ![h] = Idle] /\ chan' = chan
  PROVE  Dwindles
  <1>1. handler \in [Handlers -> Handler] /\ Released(Idle)
    BY DEF TypeOK, MachineOK, Released, Idle
  <1>2. QED
    BY <1>1 DEF Exit, Dwindles, Outstanding, Released

\* A failure takes the delivery of its handler out, or every delivery.
LEMMA HandleErrorDwindles ==
  ASSUME TypeOK, NEW h \in Handlers, NEW failure, HandleError(h, failure)
  PROVE  Dwindles
  <1>1. Released(Idle)
    BY DEF Released, Idle
  <1>2. CASE failure = "numeric" /\ ExitUnhandled
    BY <1>2, EndDwindles DEF ExitUnhandled
  <1>3. CASE RetryMessage(h)
    BY <1>1, <1>3, SettleDwindles, EndDwindles DEF RetryMessage, ExitUnhandled
  <1>4. CASE SendToDLQ(h)
    BY <1>1, <1>4, SettleDwindles, EndDwindles DEF SendToDLQ, ExitUnhandled
  <1>5. QED
    BY <1>2, <1>3, <1>4 DEF HandleError

\* And so does an acknowledgement.
LEMMA AckOrFailDwindles ==
  ASSUME TypeOK, NEW h \in Handlers, NEW after, Released(after), NEW b,
         AckOrFail(h, after, b)
  PROVE  Dwindles
  BY SettleDwindles, HandleErrorDwindles DEF AckOrFail

\* A handler that only goes on keeps its delivery as it is.
LEMMA GoingOnDwindles ==
  ASSUME TypeOK, NEW h \in Handlers, handler[h].pc # "idle", chan' = chan,
         \/ \E pc \in {"save", "upsert"} : handler' = [handler EXCEPT ![h].pc = pc]
         \/ handler' = [handler EXCEPT ![h].attempt = @ + 1]
  PROVE  Dwindles
  <1>1. handler \in [Handlers -> Handler] /\ handler[h] \in Handling
    BY BusyHandler DEF TypeOK, MachineOK
  <1>2. handler' \in [Handlers -> {handler'[g] : g \in Handlers}]
        /\ handler'[h].delivery = handler[h].delivery
        /\ \A g \in Handlers \ {h} : handler'[g] = handler[g]
    BY <1>1 DEF Handling
  <1>3. ASSUME NEW f \in Outstanding' PROVE f \in Outstanding
    BY <1>2, <1>3 DEF Outstanding
  <1>4. QED
    BY <1>3 DEF Dwindles

LEMMA HandlerStepDwindles ==
  ASSUME TypeOK, NEW h \in Handlers, HandlerStep(h)
  PROVE  Dwindles
  <1>1. Released(Idle)
    BY DEF Released, Idle
  <1>2. CASE RequeuePaused(h)
    BY <1>1, <1>2, SettleDwindles, EndDwindles DEF RequeuePaused, ExitUnhandled
  <1>3. CASE RejectMalformed(h)
    BY <1>3, HandleErrorDwindles DEF RejectMalformed
  <1>4. CASE SkipDuplicate(h)
    BY <1>1, <1>4, AckOrFailDwindles DEF SkipDuplicate
  <1>5. CASE PassCheck(h) \/ SaveRawEvent(h)
    BY <1>5, GoingOnDwindles DEF PassCheck, SaveRawEvent, At
  <1>6. CASE SaveRawEventFails(h)
    BY <1>6, HandleErrorDwindles DEF SaveRawEventFails
  <1>7. ASSUME At(h, "upsert"), FinishProcessing(h) PROVE Dwindles
    <2>1. handler[h] \in Handling
      BY <1>7, BusyHandler DEF At
    <2>2. Released([handler[h] EXCEPT !.pc = "mark", !.delivery = "settled"])
      BY <2>1 DEF Released, Handling
    <2>3. QED
      BY <1>7, <2>2, AckOrFailDwindles DEF FinishProcessing
  <1>8. CASE UpsertMetrics(h)
    BY <1>7, <1>8 DEF UpsertMetrics
  <1>9. CASE UpsertMetricsFails(h)
    BY <1>7, <1>9, GoingOnDwindles DEF UpsertMetricsFails, At
  <1>10. CASE MarkProcessed(h)
    BY <1>10, EndDwindles DEF MarkProcessed
  <1>11. QED
    BY <1>2, <1>3, <1>4, <1>5, <1>6, <1>8, <1>9, <1>10 DEF HandlerStep

\* The channel, the process and the world.
LEMMA WorldDwindles ==
  ASSUME TypeOK, Ended,
         \/ \E m \in Message : RetryTimerFires(m)
         \/ \E e \in Events : Publish(e) \/ ForgetProcessed(e)
         \/ LoseChannel \/ NoticeClose \/ ConnectToMessageBroker \/ StartConsuming
         \/ Start \/ StartFails \/ Shutdown \/ StopDone \/ ExitStopped \/ Kill
         \/ TimePasses \/ UNCHANGED vars
  PROVE  Dwindles
  <1>1. CASE Exit("exited") \/ Exit("crashed")
    BY <1>1 DEF Exit, Dwindles, Outstanding, Idle
  <1>2. CASE handler' = [h \in Handlers |-> Detached(handler[h])]
    <2>1. \A h \in Handlers : Released(Detached(handler[h]))
      BY DetachedReleased DEF TypeOK, MachineOK
    <2>2. QED
      BY <1>2, <2>1 DEF Dwindles, Outstanding, Released
  <1>3. CASE handler' = handler /\ (chan' = chan \/ chan # "open")
    BY <1>3 DEF Dwindles, Outstanding
  <1>4. CASE handler' = handler /\ chan' = "open"
    BY <1>4 DEF Dwindles, Outstanding
  <1>5. ASSUME NEW m \in Message, RetryTimerFires(m) PROVE Dwindles
    BY <1>1, <1>3, <1>5 DEF RetryTimerFires, ExitUnhandled
  <1>6. ASSUME NEW e \in Events, Publish(e) \/ ForgetProcessed(e) PROVE Dwindles
    BY <1>3, <1>6 DEF Publish, ForgetProcessed
  <1>7. CASE LoseChannel \/ StopDone
    BY <1>2, <1>7 DEF LoseChannel, StopDone
  <1>8. CASE NoticeClose \/ StartConsuming \/ Shutdown \/ TimePasses \/ UNCHANGED vars
    BY <1>1, <1>3, <1>8
    DEF NoticeClose, ExitUnhandled, StartConsuming, Shutdown, TimePasses, vars
  <1>9. CASE ConnectToMessageBroker \/ Start
    BY <1>3, <1>4, <1>9 DEF ConnectToMessageBroker, Start
  <1>10. CASE ExitStopped \/ Kill
    BY <1>1, <1>10 DEF ExitStopped, Kill
  <1>11. CASE StartFails
    BY <1>11 DEF StartFails, Ended, Dwindles, Outstanding
  <1>12. QED
    BY <1>5, <1>6, <1>7, <1>8, <1>9, <1>10, <1>11

\* Whoever holds a delivery holds it on an open channel, whatever stale tags settle and
\* however often the channel is made anew.
LEMMA AttachedAlways == Spec => []Attached
  <1>1. Init => Attached
    BY DEF Init, Attached, Outstanding, Idle
  <1>2. ASSUME TypeOK, Ended, Attached, [Next]_vars PROVE Attached'
    <2>1. ASSUME Dwindles PROVE Attached'
      BY <1>2, <2>1 DEF Dwindles, Attached
    <2>2. ASSUME NEW h \in Handlers, NEW m \in Message, Deliver(h, m) PROVE Attached'
      BY <2>2 DEF Deliver, Attached
    <2>3. QED
      BY <1>2, <2>1, <2>2, HandlerStepDwindles, WorldDwindles DEF Next
  <1>3. TypeOK /\ Ended /\ Attached /\ [Next]_vars => Attached'
    BY <1>2
  <1>4. QED
    BY <1>1, <1>3, ConsumerTypeCorrect, EndedAlways, PTL DEF Spec

-----------------------------------------------------------------------------
(* What becomes of an event whatever is lost, killed or failing.           *)

\* A handler that is to settle the delivery it holds of event e.
Holds(h, e) == h \in Outstanding /\ handler[h].msg.ev = e

\* Event e is stored, dead-lettered or forsaken, or a copy of it waits in the queue or in
\* a timer, or is out with a handler.
Safe(e) ==
    \/ e \in mongo \/ DeadLettered(e) \/ e \in forsaken
    \/ \E m \in Message : m.ev = e /\ (queue[m] > 0 \/ timers[m] > 0)
    \/ \E h \in Handlers : Holds(h, e)

\* A step that takes no copy of an event away without making the event safe.
LEMMA SafeStays ==
  ASSUME NEW e \in Events,
         mongo \subseteq mongo', dlq \subseteq dlq', forsaken \subseteq forsaken',
         \A m \in Message : queue[m] > 0 \/ timers[m] > 0 => Safe(m.ev)',
         \A h \in Handlers, f \in Events : Holds(h, f) => Safe(f)',
         Safe(e)
  PROVE  Safe(e)'
  <1>1. CASE e \in mongo \/ DeadLettered(e) \/ e \in forsaken
    BY <1>1 DEF Safe, DeadLettered
  <1>2. CASE \E m \in Message : m.ev = e /\ (queue[m] > 0 \/ timers[m] > 0)
    <2>1. PICK m \in Message : m.ev = e /\ (queue[m] > 0 \/ timers[m] > 0)
      BY <1>2
    <2>2. Safe(m.ev)'
      BY <2>1
    <2>3. QED
      BY <2>1, <2>2
  <1>3. CASE \E h \in Handlers : Holds(h, e)
    BY <1>3
  <1>4. QED
    BY <1>1, <1>2, <1>3 DEF Safe

\* A set of handlers with a member has a positive size.
LEMMA SomeHandlers ==
  ASSUME NEW H \in SUBSET Handlers
  PROVE  Cardinality(H) \in Nat /\ (H # {} => Cardinality(H) > 0)
  <1>1. IsFiniteSet(H) /\ Cardinality(H) \in Nat
    BY ConsumerAssumption, FS_Subset, FS_CardinalityType
  <1>2. H # {} => Cardinality(H) # 0
    BY <1>1, FS_EmptySet
  <1>3. QED
    BY <1>1, <1>2

\* What the broker takes back waits in the queue again.
LEMMA RequeuedSafe ==
  ASSUME TypeOK, queue' = Requeued
  PROVE  /\ \A m \in Message : queue[m] > 0 => queue'[m] > 0
         /\ \A h \in Handlers, e \in Events : Holds(h, e) => Safe(e)'
  <1>1. ASSUME NEW m \in Message
        PROVE  /\ queue[m] > 0 => queue'[m] > 0
               /\ \A h \in Outstanding : handler[h].msg = m => queue'[m] > 0
    <2> DEFINE back == {h \in Outstanding : handler[h].msg = m}
    <2>1. queue'[m] = queue[m] + Cardinality(back) /\ queue[m] \in Nat
      BY DEF Requeued, TypeOK, MachineOK
    <2>2. back \in SUBSET Handlers
      BY DEF Outstanding
    <2>3. \A h \in Outstanding : handler[h].msg = m => back # {}
      OBVIOUS
    <2> HIDE DEF back
    <2>4. QED
      BY <2>1, <2>2, <2>3, SomeHandlers
  <1>2. ASSUME NEW h \in Handlers, NEW e \in Events, Holds(h, e) PROVE Safe(e)'
    <2>1. PICK m \in Message : m = handler[h].msg
      BY <1>2, BusyHandler DEF Holds, Outstanding, Handling
    <2>2. queue'[m] > 0 /\ m.ev = e
      BY <1>1, <1>2, <2>1 DEF Holds
    <2>3. QED
      BY <2>2 DEF Safe
  <1>3. QED
    BY <1>1, <1>2

\* Where the copy goes that an outstanding handler settles: back to the queue, to the
\* dead-letter queue, or nowhere, when the event is safe otherwise.
Excused(h, verdict, sent) ==
    verdict = "ack" =>
        \/ handler[h].msg.ev \in mongo'
        \/ \E d \in sent : d.ev = handler[h].msg.ev
        \/ \E m \in Message : m.ev = handler[h].msg.ev /\ timers'[m] > 0

\* Every way to settle a delivery keeps every event safe.
LEMMA SettleSafe ==
  ASSUME TypeOK, Attached, NEW h \in Handlers, handler[h].pc # "idle",
         NEW verdict \in {"ack", "requeue", "reject"}, NEW after,
         NEW sent \in SUBSET DeadLetter,
         Settle(h, verdict, after, sent), Excused(h, verdict, sent),
         mongo \subseteq mongo', \A m \in Message : timers[m] > 0 => timers'[m] > 0
  PROVE  \A e \in Events : Safe(e) => Safe(e)'
  <1>1. /\ handler[h].msg \in Message /\ handler \in [Handlers -> Handler]
        /\ queue \in [Message -> Nat]
    BY BusyHandler DEF Handling, TypeOK, MachineOK
  <1>2. ASSUME NEW m \in Message, Receive(m, verdict, sent)
        PROVE  /\ dlq \union sent \subseteq dlq'
               /\ \A n \in Message : queue[n] > 0 => queue'[n] > 0
               /\ verdict # "ack" => Safe(m.ev)'
    <2>1. dlq \union sent \subseteq dlq'
      BY <1>2 DEF Receive
    <2>2. \A n \in Message : queue[n] > 0 => queue'[n] > 0
      BY <1>1, <1>2 DEF Receive
    <2>3. CASE verdict = "requeue"
      <3>1. queue'[m] > 0
        BY <1>1, <1>2, <2>3 DEF Receive
      <3>2. QED
        BY <2>1, <2>2, <2>3, <3>1 DEF Safe
    <2>4. CASE verdict = "reject"
      <3>1. [ev |-> m.ev, form |-> "raw"] \in dlq'
        BY <1>2, <2>4 DEF Receive
      <3>2. QED
        BY <2>1, <2>2, <2>4, <3>1 DEF Safe, DeadLettered
    <2>5. QED
      BY <2>1, <2>2, <2>3, <2>4
  <1>3. CASE SettleOwn(h, verdict, after, sent)
    <2>1. PICK m \in Message : m = handler[h].msg
      BY <1>1
    <2>2. /\ Receive(m, verdict, sent) /\ forsaken' = forsaken
          /\ handler' = [handler EXCEPT ![h] = after]
      BY <1>3, <2>1 DEF SettleOwn
    <2>3. /\ dlq \union sent \subseteq dlq'
          /\ \A n \in Message : queue[n] > 0 => queue'[n] > 0
          /\ verdict # "ack" => Safe(m.ev)'
      BY <1>2, <2>2
    <2>4. verdict = "ack" => Safe(m.ev)'
      BY <2>1, <2>3 DEF Excused, Safe, DeadLettered
    <2>5. ASSUME NEW g \in Handlers, NEW e \in Events, Holds(g, e) PROVE Safe(e)'
      <3>1. CASE g = h
        BY <2>1, <2>3, <2>4, <2>5, <3>1 DEF Holds
      <3>2. CASE g # h
        BY <1>1, <2>2, <2>5, <3>2 DEF Safe, Holds, Outstanding
      <3>3. QED
        BY <3>1, <3>2
    <2>6. \A n \in Message : queue[n] > 0 \/ timers[n] > 0 => Safe(n.ev)'
      BY <2>3 DEF Safe
    <2>7. QED
      BY <2>2, <2>3, <2>5, <2>6, SafeStays
  <1>4. CASE SettleOther(h, verdict, after, sent)
    <2>1. PICK g \in Outstanding :
             /\ Receive(handler[g].msg, verdict, sent)
             /\ handler' = [handler EXCEPT ![h] = after, ![g].delivery = "gone"]
             /\ forsaken' = IF verdict = "ack" THEN forsaken \union {handler[g].msg.ev}
                            ELSE forsaken
      BY <1>4 DEF SettleOther
    <2>2. g \in Handlers /\ g # h /\ h \notin Outstanding /\ handler[g].msg \in Message
      BY <1>4, BusyHandler DEF SettleOther, Outstanding, Handling
    <2>3. PICK m \in Message : m = handler[g].msg
      BY <2>2
    <2>4. /\ dlq \union sent \subseteq dlq'
          /\ \A n \in Message : queue[n] > 0 => queue'[n] > 0
          /\ verdict # "ack" => Safe(m.ev)'
      BY <1>2, <2>1, <2>3
    <2>5. verdict = "ack" => Safe(m.ev)'
      BY <2>1, <2>3 DEF Safe
    <2>6. ASSUME NEW f \in Handlers, NEW e \in Events, Holds(f, e) PROVE Safe(e)'
      <3>1. CASE f = g
        BY <2>3, <2>4, <2>5, <2>6, <3>1 DEF Holds
      <3>2. CASE f # g
        <4>1. f # h /\ handler'[f] = handler[f]
          BY <1>1, <2>1, <2>2, <2>6, <3>2 DEF Holds
        <4>2. QED
          BY <2>6, <4>1 DEF Safe, Holds, Outstanding
      <3>3. QED
        BY <3>1, <3>2
    <2>7. \A n \in Message : queue[n] > 0 \/ timers[n] > 0 => Safe(n.ev)'
      BY <2>4 DEF Safe
    <2>8. forsaken \subseteq forsaken'
      BY <2>1
    <2>9. QED
      BY <2>4, <2>6, <2>7, <2>8, SafeStays
  <1>5. CASE SettleUnknown(h, verdict, after, sent)
    <2>1. queue' = Requeued /\ dlq' = dlq \union sent /\ forsaken' = forsaken
      BY <1>5 DEF SettleUnknown
    <2>2. /\ \A m \in Message : queue[m] > 0 => queue'[m] > 0
          /\ \A g \in Handlers, e \in Events : Holds(g, e) => Safe(e)'
      BY <2>1, RequeuedSafe
    <2>3. \A m \in Message : queue[m] > 0 \/ timers[m] > 0 => Safe(m.ev)'
      BY <2>2 DEF Safe
    <2>4. QED
      BY <2>1, <2>2, <2>3, SafeStays
  <1>6. CASE SettleLost(h, after)
    <2>1. Outstanding = {} /\ UNCHANGED <<queue, dlq, forsaken>>
      BY <1>6 DEF SettleLost, Attached
    <2>2. \A m \in Message : queue[m] > 0 \/ timers[m] > 0 => Safe(m.ev)'
      BY <2>1 DEF Safe
    <2>3. \A g \in Handlers, f \in Events : ~Holds(g, f)
      BY <2>1 DEF Holds
    <2>4. QED
      BY <2>1, <2>2, <2>3, SafeStays
  <1>7. QED
    BY <1>3, <1>4, <1>5, <1>6 DEF Settle

\* The end of the process: its deliveries are back, and what its timers held is forsaken.
LEMMA ExitSafe ==
  ASSUME TypeOK, NEW how, Exit(how), mongo \subseteq mongo'
  PROVE  \A e \in Events : Safe(e) => Safe(e)'
  <1>1. /\ queue' = Requeued /\ dlq' = dlq
        /\ forsaken' = forsaken \union {m.ev : m \in {n \in Message : timers[n] > 0}}
    BY DEF Exit
  <1>2. /\ \A m \in Message : queue[m] > 0 => queue'[m] > 0
        /\ \A g \in Handlers, e \in Events : Holds(g, e) => Safe(e)'
    BY <1>1, RequeuedSafe
  <1>3. \A m \in Message : queue[m] > 0 \/ timers[m] > 0 => Safe(m.ev)'
    BY <1>1, <1>2 DEF Safe
  <1>4. QED
    BY <1>1, <1>2, <1>3, SafeStays

\* A handler that ends without a channel to settle on held nothing.
LEMMA NullSafe ==
  ASSUME Attached, chan # "open", mongo \subseteq mongo',
         \A m \in Message : timers[m] > 0 => timers'[m] > 0,
         UNCHANGED <<queue, dlq, forsaken>>
  PROVE  \A e \in Events : Safe(e) => Safe(e)'
  <1>1. \A h \in Handlers, f \in Events : ~Holds(h, f)
    BY DEF Attached, Holds
  <1>2. \A m \in Message : queue[m] > 0 \/ timers[m] > 0 => Safe(m.ev)'
    BY DEF Safe
  <1>3. QED
    BY <1>1, <1>2, SafeStays

\* A failing handler leaves its event with a timer or in the dead-letter queue.
LEMMA HandleErrorSafe ==
  ASSUME TypeOK, Attached, NEW h \in Handlers, handler[h].pc # "idle",
         NEW failure, HandleError(h, failure), mongo \subseteq mongo'
  PROVE  \A e \in Events : Safe(e) => Safe(e)'
  <1>1. /\ handler[h] \in Handling /\ handler[h].msg \in Message
        /\ handler[h].msg.ev \in Events /\ timers \in [Message -> Nat]
    BY BusyHandler DEF Handling, Message, TypeOK, MachineOK
  <1>2. CASE ExitUnhandled
    BY <1>2, ExitSafe DEF ExitUnhandled
  <1>3. CASE SendToDLQ(h)
    <2> DEFINE wrapped == {[ev |-> handler[h].msg.ev, form |-> "wrapped"]}
    <2>1. wrapped \in SUBSET DeadLetter /\ \E d \in wrapped : d.ev = handler[h].msg.ev
      BY <1>1 DEF DeadLetter
    <2> HIDE DEF wrapped
    <2>2. CASE (\/ Settle(h, "ack", Idle, wrapped)
                \/ Settle(h, "reject", Idle, wrapped)) /\ timers' = timers
      <3>1. Excused(h, "ack", wrapped) /\ Excused(h, "reject", wrapped)
        BY <2>1 DEF Excused
      <3>2. QED
        BY <2>1, <2>2, <3>1, SettleSafe
    <2>3. CASE chan = "null" /\ UNCHANGED <<timers, queue, dlq, forsaken>>
      BY <2>3, NullSafe
    <2>4. QED
      BY <1>2, <1>3, <2>2, <2>3 DEF SendToDLQ, wrapped
  <1>4. CASE ShouldRetry(handler[h].msg.retry) /\ RetryMessage(h)
    <2> DEFINE m == [handler[h].msg EXCEPT !.retry = @ + 1]
    <2>1. m \in Message /\ m.ev = handler[h].msg.ev
      BY <1>1, <1>4, ConsumerAssumption DEF Message, ShouldRetry
    <2>2. \/ /\ Settle(h, "ack", Idle, {})
             /\ timers' = [timers EXCEPT ![m] = @ + 1]
          \/ ExitUnhandled
          \/ /\ chan = "null" /\ UNCHANGED <<queue, dlq, forsaken>>
             /\ timers' = [timers EXCEPT ![m] = @ + 1]
      BY <1>4 DEF RetryMessage
    <2> HIDE DEF m
    <2>3. CASE timers' = [timers EXCEPT ![m] = @ + 1]
      <3>1. timers'[m] > 0 /\ \A n \in Message : timers[n] > 0 => timers'[n] > 0
        BY <1>1, <2>1, <2>3
      <3>2. Excused(h, "ack", {})
        BY <2>1, <3>1 DEF Excused
      <3>3. {} \in SUBSET DeadLetter
        OBVIOUS
      <3>4. QED
        BY <1>2, <2>2, <3>1, <3>2, <3>3, SettleSafe, NullSafe
    <2>4. QED
      BY <1>2, <2>2, <2>3
  <1>5. QED
    BY <1>2, <1>3, <1>4 DEF HandleError

\* An acknowledgement of what is stored, or its failure.
LEMMA AckOrFailSafe ==
  ASSUME TypeOK, Attached, NEW h \in Handlers, handler[h].pc # "idle",
         NEW after, NEW b, AckOrFail(h, after, b),
         mongo' = mongo, handler[h].msg.ev \in mongo
  PROVE  \A e \in Events : Safe(e) => Safe(e)'
  <1>1. CASE Settle(h, "ack", after, {}) /\ timers' = timers
    <2>1. Excused(h, "ack", {}) /\ {} \in SUBSET DeadLetter
      BY DEF Excused
    <2>2. QED
      BY <1>1, <2>1, SettleSafe
  <1>2. CASE HandleError(h, "permanent")
    BY <1>2, HandleErrorSafe
  <1>3. QED
    BY <1>1, <1>2 DEF AckOrFail

\* A handler that goes on holds what it held.
LEMMA GoingOnSafe ==
  ASSUME TypeOK, NEW h \in Handlers, handler[h].pc # "idle",
         \/ \E pc \in {"save", "upsert"} : handler' = [handler EXCEPT ![h].pc = pc]
         \/ handler' = [handler EXCEPT ![h].attempt = @ + 1],
         mongo \subseteq mongo', UNCHANGED <<timers, queue, dlq, forsaken>>
  PROVE  \A e \in Events : Safe(e) => Safe(e)'
  <1>1. handler \in [Handlers -> Handler] /\ handler[h] \in Handling
    BY BusyHandler DEF TypeOK, MachineOK
  <1>2. /\ handler'[h].delivery = handler[h].delivery
        /\ handler'[h].msg = handler[h].msg /\ handler'[h].pc # "idle"
        /\ \A g \in Handlers \ {h} : handler'[g] = handler[g]
    BY <1>1 DEF Handling
  <1>3. ASSUME NEW g \in Handlers, NEW f \in Events, Holds(g, f) PROVE Safe(f)'
    BY <1>2, <1>3 DEF Safe, Holds, Outstanding
  <1>4. \A m \in Message : queue[m] > 0 \/ timers[m] > 0 => Safe(m.ev)'
    BY DEF Safe
  <1>5. QED
    BY <1>3, <1>4, SafeStays

LEMMA HandlerStepSafe ==
  ASSUME CInv, Attached, NEW h \in Handlers, HandlerStep(h)
  PROVE  \A e \in Events : Safe(e) => Safe(e)'
  <1>1. TypeOK /\ {} \in SUBSET DeadLetter
    BY DEF CInv
  <1>2. CASE RequeuePaused(h)
    <2>1. handler[h].pc # "idle" /\ mongo' = mongo
      BY <1>2 DEF RequeuePaused, At, stores
    <2>2. CASE Settle(h, "requeue", Idle, {}) /\ timers' = timers
      <3>1. Excused(h, "requeue", {})
        BY DEF Excused
      <3>2. QED
        BY <1>1, <2>1, <2>2, <3>1, SettleSafe
    <2>3. CASE ExitUnhandled
      BY <1>1, <2>1, <2>3, ExitSafe DEF ExitUnhandled
    <2>4. QED
      BY <1>2, <2>2, <2>3 DEF RequeuePaused
  <1>3. CASE RejectMalformed(h)
    BY <1>1, <1>3, HandleErrorSafe DEF RejectMalformed, At, stores
  <1>4. CASE SkipDuplicate(h)
    BY <1>1, <1>4, AckOrFailSafe
    DEF SkipDuplicate, At, stores, CInv, MarkedOnlyIfStored
  <1>5. CASE PassCheck(h) \/ SaveRawEvent(h)
    BY <1>1, <1>5, GoingOnSafe DEF PassCheck, SaveRawEvent, At, stores
  <1>6. CASE SaveRawEventFails(h)
    BY <1>1, <1>6, HandleErrorSafe DEF SaveRawEventFails, At
  <1>7. ASSUME At(h, "upsert"), FinishProcessing(h), mongo' = mongo
        PROVE  \A e \in Events : Safe(e) => Safe(e)'
    BY <1>1, <1>7, AckOrFailSafe DEF FinishProcessing, At, CInv, UpsertGuarded
  <1>8. CASE UpsertMetrics(h)
    BY <1>7, <1>8 DEF UpsertMetrics
  <1>9. CASE UpsertMetricsFails(h)
    BY <1>1, <1>7, <1>9, GoingOnSafe DEF UpsertMetricsFails, At
  <1>10. CASE MarkProcessed(h)
    <2>1. /\ handler' = [handler EXCEPT ![h] = Idle]
          /\ UNCHANGED <<timers, queue, dlq, mongo, forsaken>>
      BY <1>10 DEF MarkProcessed
    <2>2. handler[h].msg.ev \in mongo
      BY <1>10 DEF MarkProcessed, CInv, MarkGuarded
    <2>3. ASSUME NEW g \in Handlers, NEW f \in Events, Holds(g, f) PROVE Safe(f)'
      <3>1. CASE g = h
        BY <2>1, <2>2, <2>3, <3>1 DEF Safe, Holds
      <3>2. CASE g # h
        BY <1>1, <2>1, <2>3, <3>2 DEF Safe, Holds, Outstanding, TypeOK, MachineOK
      <3>3. QED
        BY <3>1, <3>2
    <2>4. \A m \in Message : queue[m] > 0 \/ timers[m] > 0 => Safe(m.ev)'
      BY <2>1 DEF Safe
    <2>5. QED
      BY <2>1, <2>3, <2>4, SafeStays
  <1>11. QED
    BY <1>2, <1>3, <1>4, <1>5, <1>6, <1>8, <1>9, <1>10 DEF HandlerStep

\* The events the producer has published are safe.
PublishedSafe == \A e \in Events : published[e] > 0 => Safe(e)

LEMMA PublishedSafeStep ==
  ASSUME CInv, Attached, PublishedSafe, [Next]_vars
  PROVE  PublishedSafe'
  <1>1. TypeOK
    BY DEF CInv
  <1>2. ASSUME UNCHANGED published, \A e \in Events : Safe(e) => Safe(e)'
        PROVE  PublishedSafe'
    BY <1>2 DEF PublishedSafe
  <1>3. ASSUME NEW h \in Handlers, HandlerStep(h) PROVE PublishedSafe'
    <2>1. UNCHANGED published
      BY <1>3
      DEF HandlerStep, RequeuePaused, RejectMalformed, SkipDuplicate, PassCheck, SaveRawEvent,
          SaveRawEventFails, UpsertMetrics, UpsertMetricsFails, MarkProcessed, external
    <2>2. QED
      BY <1>2, <1>3, <2>1, HandlerStepSafe
  <1>4. ASSUME NEW h \in Handlers, NEW m \in Message, Deliver(h, m) PROVE PublishedSafe'
    <2>1. /\ queue' = [queue EXCEPT ![m] = @ - 1]
          /\ handler[h].pc = "idle" /\ handler'[h].pc # "idle"
          /\ handler'[h].msg = m /\ handler'[h].delivery = "live"
          /\ \A g \in Handlers \ {h} : handler'[g] = handler[g]
          /\ UNCHANGED <<timers, dlq, forsaken, mongo, published>>
      BY <1>1, <1>4 DEF Deliver, At, stores, external, TypeOK, MachineOK
    <2>2. Safe(m.ev)'
      BY <2>1 DEF Safe, Holds, Outstanding
    <2>3. \A n \in Message : queue[n] > 0 \/ timers[n] > 0 => Safe(n.ev)'
      BY <1>1, <2>1, <2>2 DEF Safe, TypeOK, MachineOK
    <2>4. ASSUME NEW g \in Handlers, NEW f \in Events, Holds(g, f) PROVE Safe(f)'
      BY <2>1, <2>4 DEF Safe, Holds, Outstanding
    <2>5. QED
      BY <1>2, <2>1, <2>3, <2>4, SafeStays
  <1>5. ASSUME NEW m \in Message, RetryTimerFires(m) PROVE PublishedSafe'
    <2>1. UNCHANGED <<mongo, published>>
      BY <1>5 DEF RetryTimerFires, stores, external
    <2>2. CASE ExitUnhandled
      BY <1>1, <1>2, <2>1, <2>2, ExitSafe DEF ExitUnhandled
    <2>3. CASE /\ timers' = [timers EXCEPT ![m] = @ - 1]
               /\ queue' = IF chan = "open" THEN [queue EXCEPT ![m] = @ + 1] ELSE queue
               /\ forsaken' = IF chan = "open" THEN forsaken ELSE forsaken \union {m.ev}
               /\ UNCHANGED <<handler, dlq>>
      <3>1. \A n \in Message : queue[n] > 0 => queue'[n] > 0
        BY <1>1, <2>3 DEF TypeOK, MachineOK
      <3>2. Safe(m.ev)'
        BY <1>1, <2>3 DEF Safe, TypeOK, MachineOK
      <3>3. \A n \in Message : queue[n] > 0 \/ timers[n] > 0 => Safe(n.ev)'
        BY <1>1, <2>3, <3>1, <3>2 DEF Safe, TypeOK, MachineOK
      <3>4. ASSUME NEW g \in Handlers, NEW f \in Events, Holds(g, f) PROVE Safe(f)'
        BY <2>3, <3>4 DEF Safe, Holds, Outstanding
      <3>5. QED
        BY <1>2, <2>1, <2>3, <3>3, <3>4, SafeStays
    <2>4. QED
      BY <1>5, <2>2, <2>3 DEF RetryTimerFires
  <1>6. ASSUME NEW e \in Events, Publish(e) PROVE PublishedSafe'
    <2> DEFINE m == [ev |-> e, retry |-> 0]
    <2>1. m \in Message /\ m.ev = e
      BY ConsumerAssumption DEF Message
    <2>2. /\ queue' = [queue EXCEPT ![m] = @ + 1]
          /\ published' = [published EXCEPT ![e] = @ + 1]
          /\ UNCHANGED <<handler, timers, dlq, forsaken, mongo>>
      BY <1>6 DEF Publish, stores
    <2> HIDE DEF m
    <2>3. queue'[m] > 0 /\ \A n \in Message : queue[n] > 0 => queue'[n] > 0
      BY <1>1, <2>1, <2>2 DEF TypeOK, MachineOK
    <2>4. Safe(e)'
      BY <2>1, <2>3 DEF Safe
    <2>5. \A n \in Message : queue[n] > 0 \/ timers[n] > 0 => Safe(n.ev)'
      BY <2>2, <2>3 DEF Safe
    <2>6. ASSUME NEW g \in Handlers, NEW f \in Events, Holds(g, f) PROVE Safe(f)'
      BY <2>2, <2>6 DEF Safe, Holds, Outstanding
    <2>7. \A f \in Events : Safe(f) => Safe(f)'
      BY <2>2, <2>5, <2>6, SafeStays
    <2>8. \A f \in Events \ {e} : published'[f] = published[f]
      BY <1>1, <2>2 DEF TypeOK
    <2>9. QED
      BY <2>4, <2>7, <2>8 DEF PublishedSafe
  <1>7. CASE LoseChannel \/ StopDone
    <2>1. queue' = Requeued /\ UNCHANGED <<timers, dlq, forsaken, mongo, published>>
      BY <1>7 DEF LoseChannel, StopDone, stores, external
    <2>2. /\ \A n \in Message : queue[n] > 0 => queue'[n] > 0
          /\ \A g \in Handlers, e \in Events : Holds(g, e) => Safe(e)'
      BY <1>1, <2>1, RequeuedSafe
    <2>3. \A n \in Message : queue[n] > 0 \/ timers[n] > 0 => Safe(n.ev)'
      BY <2>1, <2>2 DEF Safe
    <2>4. QED
      BY <1>2, <2>1, <2>2, <2>3, SafeStays
  <1>8. ASSUME UNCHANGED <<handler, timers, queue, dlq, forsaken, mongo, published>>
        PROVE  PublishedSafe'
    <2>1. \A n \in Message : queue[n] > 0 \/ timers[n] > 0 => Safe(n.ev)'
      BY <1>8 DEF Safe
    <2>2. ASSUME NEW g \in Handlers, NEW f \in Events, Holds(g, f) PROVE Safe(f)'
      BY <1>8, <2>2 DEF Safe, Holds, Outstanding
    <2>3. QED
      BY <1>2, <1>8, <2>1, <2>2, SafeStays
  <1>9. ASSUME NEW e \in Events, ForgetProcessed(e) PROVE PublishedSafe'
    BY <1>8, <1>9 DEF ForgetProcessed, external
  <1>10. CASE ConnectToMessageBroker \/ StartConsuming \/ Start \/ StartFails
    BY <1>8, <1>10
    DEF ConnectToMessageBroker, StartConsuming, Start, StartFails, stores, external
  <1>11. CASE Shutdown \/ TimePasses \/ UNCHANGED vars
    BY <1>8, <1>11 DEF Shutdown, TimePasses, vars, stores, external
  <1>12. CASE ExitStopped \/ Kill
    BY <1>1, <1>2, <1>12, ExitSafe DEF ExitStopped, Kill, stores, external
  <1>13. CASE NoticeClose
    <2>1. UNCHANGED <<mongo, published>>
      BY <1>13 DEF NoticeClose, stores, external
    <2>2. CASE ExitUnhandled
      BY <1>1, <1>2, <2>1, <2>2, ExitSafe DEF ExitUnhandled
    <2>3. CASE UNCHANGED <<handler, timers, queue, dlq, forsaken>>
      BY <1>8, <2>1, <2>3
    <2>4. QED
      BY <1>13, <2>2, <2>3 DEF NoticeClose
  <1>14. QED
    BY <1>3, <1>4, <1>5, <1>6, <1>7, <1>9, <1>10, <1>11, <1>12, <1>13 DEF Next

\* No event disappears but in the three ways that OnlyForsakenLost names, whatever is lost,
\* killed, started in vain, redelivered or refused, and whichever store fails
\* (handleMessage, retryMessage and sendToDLQ in consumer.ts).
THEOREM ConsumerLosesOnlyForsaken == Spec => []OnlyForsakenLost
  <1>1. Init => PublishedSafe
    BY DEF Init, PublishedSafe
  <1>2. CInv /\ Attached /\ PublishedSafe /\ [Next]_vars => PublishedSafe'
    BY PublishedSafeStep
  <1>3. CInv /\ PublishedSafe => OnlyForsakenLost
    <2> SUFFICES ASSUME CInv, NEW e \in Events, Safe(e)
                 PROVE  e \in mongo \/ DeadLettered(e) \/ InFlight(e) \/ e \in forsaken
      BY DEF PublishedSafe, OnlyForsakenLost
    <2>1. ASSUME NEW h \in Handlers, Holds(h, e) PROVE e \in mongo \/ InFlight(e)
      BY <2>1 DEF Holds, Outstanding, InFlight, CInv, MarkGuarded, At
    <2>2. QED
      BY <2>1 DEF Safe, InFlight
  <1>4. QED
    BY <1>1, <1>2, <1>3, CInvAlways, AttachedAlways, PTL DEF Spec

-----------------------------------------------------------------------------
(* What becomes of an event as long as no channel is lost and nobody kills the *)
(* process: where its only copy is, and what is known of it there.             *)

\* A handler may still settle the delivery it has of event e.
Carries(h, e) ==
    /\ handler[h].pc \notin {"idle", "mark"} /\ handler[h].delivery = "live"
    /\ handler[h].msg.ev = e

NobodyCarries(e) == \A h \in Handlers : ~Carries(h, e)

OnlyCarries(h, e) == Carries(h, e) /\ \A g \in Handlers \ {h} : ~Carries(g, e)

NoneWaits(e) == \A m \in Message : m.ev = e => queue[m] = 0 /\ timers[m] = 0

\* In the queue or in a timer, once, as m.
OnlyWaits(m) ==
    /\ queue[m] + timers[m] = 1
    /\ \A n \in Message \ {m} : n.ev = m.ev => queue[n] = 0 /\ timers[n] = 0

Unknown(e) == published[e] = 0 /\ e \notin mongo /\ NoneWaits(e) /\ NobodyCarries(e)

\* No copy is left; a shutdown may have lost it with its timer.
Over(e) ==
    /\ NoneWaits(e) /\ NobodyCarries(e)
    /\ signals = 0 => e \in mongo \/ DeadLettered(e)

Ready(e) ==
    /\ e \notin mongo /\ NobodyCarries(e)
    /\ \E m \in Message : m.ev = e /\ OnlyWaits(m)

Handled(e) ==
    /\ NoneWaits(e)
    /\ \E h \in Handlers :
         /\ OnlyCarries(h, e)
         /\ handler[h].pc \in {"paused", "check", "save"} => e \notin mongo

Tracked(e) == Unknown(e) \/ (published[e] > 0 /\ (Over(e) \/ Ready(e) \/ Handled(e)))

\* The channel comes up with the process and goes with its shutdown, which leaves only
\* paused handlers behind; between two processes there are no handlers and no timers, and
\* no loop has a reason to reconnect.
Orderly ==
    /\ chan \in {"null", "open"} /\ link.waiting = 0 /\ signals <= MaxSignals
    /\ proc = "running" => chan = "open"
    /\ chan = "open" => proc \in {"running", "draining"}
    /\ proc \in {"draining", "stopping"} => signals > 0
    /\ proc \in {"exited", "crashed", "idle"} =>
         /\ \A h \in Handlers : handler[h].pc = "idle"
         /\ \A m \in Message : timers[m] = 0
    /\ \A h \in Handlers :
         /\ chan = "open" /\ handler[h].pc \notin {"idle", "mark"} =>
              handler[h].delivery = "live"
         /\ chan = "null" => \/ handler[h].pc = "idle"
                             \/ handler[h].pc = "paused" /\ handler[h].delivery # "live"

NInv == CInv /\ Orderly /\ \A e \in Events : Tracked(e)

\* The invariant of processes that end by crashes of their own and by shutdowns only.
UnlessDisturbed == losses = 0 /\ kills = 0 => NInv

\* Nothing is published twice, Mongo reports no numeric code but that of its unique
\* index, and a shutdown has the time to drain.
Gentle ==
    /\ MaxPublish <= 1
    /\ "numeric" \notin MongoFaults
    /\ DrainMayTimeOut => MaxSignals = 0

\* An event nothing happened to is tracked as before.
LEMMA OthersTracked ==
  ASSUME NEW f \in Events, Tracked(f), published'[f] = published[f],
         f \in mongo' <=> f \in mongo, dlq \subseteq dlq', signals' = 0 => signals = 0,
         \A m \in Message : m.ev = f => queue'[m] = queue[m] /\ timers'[m] = timers[m],
         \A h \in Handlers : /\ Carries(h, f)' <=> Carries(h, f)
                             /\ Carries(h, f) => handler'[h].pc = handler[h].pc
  PROVE  Tracked(f)'
  <1>1. (NobodyCarries(f)' <=> NobodyCarries(f)) /\ (NoneWaits(f)' <=> NoneWaits(f))
    BY DEF NobodyCarries, NoneWaits
  <1>2. DeadLettered(f) => DeadLettered(f)'
    BY DEF DeadLettered
  <1>3. \A m \in Message : m.ev = f /\ OnlyWaits(m) => OnlyWaits(m)'
    BY DEF OnlyWaits
  <1>4. \A h \in Handlers : OnlyCarries(h, f) => OnlyCarries(h, f)' /\ handler'[h].pc = handler[h].pc
    BY DEF OnlyCarries
  <1>5. CASE Unknown(f)
    BY <1>1, <1>5 DEF Unknown, Tracked
  <1>6. CASE published[f] > 0 /\ Over(f)
    BY <1>1, <1>2, <1>6 DEF Over, Tracked
  <1>7. CASE published[f] > 0 /\ Ready(f)
    BY <1>1, <1>3, <1>7 DEF Ready, Tracked
  <1>8. CASE published[f] > 0 /\ Handled(f)
    <2>1. PICK h \in Handlers :
             OnlyCarries(h, f) /\ (handler[h].pc \in {"paused", "check", "save"} => f \notin mongo)
      BY <1>8 DEF Handled
    <2>2. OnlyCarries(h, f)' /\ handler'[h].pc = handler[h].pc
      BY <1>4, <2>1
    <2>3. Handled(f)'
      BY <1>1, <1>8, <2>1, <2>2 DEF Handled
    <2>4. QED
      BY <1>8, <2>3 DEF Tracked
  <1>9. QED
    BY <1>5, <1>6, <1>7, <1>8 DEF Tracked

\* Who holds an event holds its only copy.
LEMMA CarrierOf ==
  ASSUME NInv, chan = "open", NEW h \in Handlers, handler[h].pc \notin {"idle", "mark"},
         NEW e, e = handler[h].msg.ev
  PROVE  /\ e \in Events /\ handler[h] \in Handling /\ handler[h].msg \in Message
         /\ published[e] > 0 /\ NoneWaits(e) /\ OnlyCarries(h, e)
         /\ handler[h].pc \in {"paused", "check", "save"} => e \notin mongo
         /\ handler[h].delivery = "live"
  <1>1. handler[h] \in Handling /\ handler[h].msg \in Message /\ e \in Events
    BY BusyHandler DEF NInv, CInv, Handling, Message
  <1>2. Carries(h, e) /\ handler[h].delivery = "live"
    BY DEF Carries, NInv, Orderly
  <1>3. ~NobodyCarries(e) /\ Tracked(e)
    BY <1>1, <1>2 DEF NobodyCarries, NInv
  <1>4. published[e] > 0 /\ Handled(e)
    BY <1>3 DEF Tracked, Unknown, Over, Ready
  <1>5. PICK g \in Handlers :
           OnlyCarries(g, e) /\ (handler[g].pc \in {"paused", "check", "save"} => e \notin mongo)
    BY <1>4 DEF Handled
  <1>6. g = h
    BY <1>2, <1>5 DEF OnlyCarries
  <1>7. QED
    BY <1>1, <1>2, <1>4, <1>5, <1>6 DEF Handled

\* A step of the handler of one event leaves the other events alone.
LEMMA StepTracks ==
  ASSUME NInv, chan = "open", NEW h \in Handlers, handler[h].pc \notin {"idle", "mark"},
         NEW e, e = handler[h].msg.ev,
         NEW after, handler' = [handler EXCEPT ![h] = after],
         after.pc = "idle" \/ after.msg = handler[h].msg,
         Tracked(e)', UNCHANGED <<published, signals>>, dlq \subseteq dlq',
         mongo' = mongo \/ mongo' = mongo \union {e},
         \A m \in Message : m.ev # e => queue'[m] = queue[m] /\ timers'[m] = timers[m]
  PROVE  \A f \in Events : Tracked(f)'
  <1> SUFFICES ASSUME NEW f \in Events, f # e PROVE Tracked(f)'
    OBVIOUS
  <1>1. Tracked(f) /\ handler \in [Handlers -> Handler]
    BY DEF NInv, CInv, TypeOK, MachineOK
  <1>2. ~Carries(h, f) /\ ~Carries(h, f)'
    BY <1>1 DEF Carries
  <1>3. \A g \in Handlers \ {h} : handler'[g] = handler[g]
    BY <1>1
  <1>4. \A g \in Handlers : /\ Carries(g, f)' <=> Carries(g, f)
                            /\ Carries(g, f) => handler'[g].pc = handler[g].pc
    BY <1>2, <1>3 DEF Carries
  <1>5. QED
    BY <1>1, <1>4, OthersTracked

\* A handler that ends an event: the event is stored or dead-lettered.
LEMMA EndsOver ==
  ASSUME NInv, chan = "open", NEW h \in Handlers, handler[h].pc \notin {"idle", "mark"},
         NEW e, e = handler[h].msg.ev,
         NEW after, handler' = [handler EXCEPT ![h] = after], after.pc \in {"idle", "mark"},
         UNCHANGED <<queue, timers, published>>,
         e \in mongo' \/ DeadLettered(e)'
  PROVE  Tracked(e)'
  <1>1. published[e] > 0 /\ NoneWaits(e) /\ OnlyCarries(h, e)
    BY CarrierOf
  <1>2. handler \in [Handlers -> Handler]
    BY DEF NInv, CInv, TypeOK, MachineOK
  <1>3. \A g \in Handlers : ~Carries(g, e)'
    BY <1>1, <1>2 DEF OnlyCarries, Carries
  <1>4. NoneWaits(e)' /\ NobodyCarries(e)'
    BY <1>1, <1>3 DEF NoneWaits, NobodyCarries
  <1>5. QED
    BY <1>1, <1>4 DEF Over, Tracked

\* A handler that sends its event back, at once or by a timer.
LEMMA EndsReady ==
  ASSUME NInv, chan = "open", NEW h \in Handlers, handler[h].pc \in {"paused", "check", "save"},
         NEW e, e = handler[h].msg.ev,
         handler' = [handler EXCEPT ![h] = Idle], UNCHANGED <<mongo, published>>,
         NEW m \in Message, m.ev = e,
         \/ queue' = [queue EXCEPT ![m] = @ + 1] /\ timers' = timers
         \/ timers' = [timers EXCEPT ![m] = @ + 1] /\ queue' = queue
  PROVE  Tracked(e)'
  <1>1. published[e] > 0 /\ NoneWaits(e) /\ OnlyCarries(h, e) /\ e \notin mongo
    BY CarrierOf
  <1>2. /\ handler \in [Handlers -> Handler]
        /\ queue \in [Message -> Nat] /\ timers \in [Message -> Nat]
    BY DEF NInv, CInv, TypeOK, MachineOK
  <1>3. \A g \in Handlers : ~Carries(g, e)'
    BY <1>1, <1>2 DEF OnlyCarries, Carries, Idle
  <1>4. OnlyWaits(m)'
    <2>1. queue[m] = 0 /\ timers[m] = 0
      BY <1>1 DEF NoneWaits
    <2>2. \A n \in Message \ {m} : queue'[n] = queue[n] /\ timers'[n] = timers[n]
      BY <1>2
    <2>3. queue'[m] + timers'[m] = 1
      BY <1>2, <2>1
    <2>4. QED
      BY <1>1, <2>2, <2>3 DEF OnlyWaits, NoneWaits
  <1>5. NobodyCarries(e)'
    BY <1>3 DEF NobodyCarries
  <1>6. Ready(e)'
    BY <1>1, <1>4, <1>5 DEF Ready
  <1>7. QED
    BY <1>1, <1>6 DEF Tracked

\* What is left undisturbed when one handler goes on or ends.
LEMMA StillOrderly ==
  ASSUME NInv, NEW h \in Handlers, chan = "open", UNCHANGED <<chan, link, proc, signals>>,
         NEW after, handler' = [handler EXCEPT ![h] = after],
         after.pc \in {"idle", "mark"} \/ after.delivery = "live"
  PROVE  Orderly'
  <1>1. handler \in [Handlers -> Handler]
    BY DEF NInv, CInv, TypeOK, MachineOK
  <1>2. \A g \in Handlers :
          handler'[g].pc \notin {"idle", "mark"} => handler'[g].delivery = "live"
    BY <1>1 DEF NInv, Orderly
  <1>3. chan' # "null" /\ proc' \in {"running", "draining"}
    BY DEF NInv, Orderly
  <1>4. QED
    BY <1>2, <1>3 DEF NInv, Orderly

\* Orderly, a handler settles its own delivery.
LEMMA SettlesOwn ==
  ASSUME NInv, chan = "open", NEW h \in Handlers, handler[h].pc \notin {"idle", "mark"},
         NEW after, NEW verdict, NEW sent, Settle(h, verdict, after, sent)
  PROVE  /\ chan' = chan
         /\ handler' = [handler EXCEPT ![h] = after]
         /\ Receive(handler[h].msg, verdict, sent)
  <1>1. handler[h].delivery = "live"
    BY DEF NInv, Orderly
  <1>2. SettleOwn(h, verdict, after, sent)
    BY <1>1 DEF Settle, SettleOther, SettleUnknown, SettleLost
  <1>3. QED
    BY <1>2 DEF SettleOwn

\* A handler that fails retries its event or dead-letters it.
LEMMA FailingTracks ==
  ASSUME NInv, chan = "open", NEW h \in Handlers, handler[h].pc \in {"check", "save"},
         NEW failure, failure # "numeric", HandleError(h, failure),
         UNCHANGED <<published, signals>>,
         mongo' = mongo \/ mongo' = mongo \union {handler[h].msg.ev},
         failure = "retryable" => mongo' = mongo
  PROVE  Orderly' /\ \A f \in Events : Tracked(f)'
  <1>1. PICK e \in Events : e = handler[h].msg.ev
    BY CarrierOf
  <1>2. /\ handler[h].pc \notin {"idle", "mark"}
        /\ handler[h].msg \in Message
    BY <1>1, CarrierOf
  <1>3. Idle.pc = "idle"
    BY DEF Idle
  <1>4. CASE SendToDLQ(h)
    <2> DEFINE wrapped == {[ev |-> handler[h].msg.ev, form |-> "wrapped"]}
    <2>1. PICK verdict \in {"ack", "reject"} : Settle(h, verdict, Idle, wrapped)
      BY <1>2, <1>4 DEF SendToDLQ
    <2>2. UNCHANGED <<proc, link, timers>>
      BY <1>2, <1>4 DEF SendToDLQ
    <2>3. wrapped = {[ev |-> e, form |-> "wrapped"]}
      BY <1>1
    <2> HIDE DEF wrapped
    <2>4. chan' = chan /\ handler' = [handler EXCEPT ![h] = Idle]
          /\ Receive(handler[h].msg, verdict, wrapped)
      BY <1>2, <2>1, SettlesOwn
    <2>5. queue' = queue /\ dlq \subseteq dlq' /\ [ev |-> e, form |-> "wrapped"] \in dlq'
      BY <2>3, <2>4 DEF Receive
    <2>6. DeadLettered(e)'
      BY <2>5 DEF DeadLettered
    <2>7. Tracked(e)'
      BY <1>1, <1>2, <1>3, <2>2, <2>4, <2>5, <2>6, EndsOver
    <2>8. QED
      BY <1>1, <1>2, <1>3, <2>2, <2>4, <2>5, <2>7, StepTracks, StillOrderly
  <1>5. CASE /\ failure = "retryable" /\ handler[h].msg.retry < maxRetries
             /\ RetryMessage(h)
    <2>1. PICK m \in Message : m = [handler[h].msg EXCEPT !.retry = @ + 1]
      <3>1. [handler[h].msg EXCEPT !.retry = @ + 1] \in Message
        BY <1>2, <1>5, ConsumerAssumption DEF Message
      <3>2. QED
        BY <3>1
    <2>2. m.ev = e
      BY <1>1, <1>2, <2>1 DEF Message
    <2>3. /\ Settle(h, "ack", Idle, {}) /\ timers' = [timers EXCEPT ![m] = @ + 1]
          /\ UNCHANGED <<proc, link>>
      BY <1>2, <1>5, <2>1 DEF RetryMessage
    <2>4. chan' = chan /\ handler' = [handler EXCEPT ![h] = Idle]
          /\ Receive(handler[h].msg, "ack", {})
      BY <1>2, <2>3, SettlesOwn
    <2>5. queue' = queue /\ dlq \subseteq dlq' /\ mongo' = mongo
      BY <1>5, <2>4 DEF Receive
    <2>6. Tracked(e)'
      BY <1>1, <2>2, <2>3, <2>4, <2>5, EndsReady
    <2>7. \A n \in Message : n.ev # e => timers'[n] = timers[n]
      BY <2>2, <2>3 DEF NInv, CInv, TypeOK, MachineOK
    <2>8. QED
      BY <1>1, <1>2, <1>3, <2>3, <2>4, <2>5, <2>6, <2>7, StepTracks, StillOrderly
  <1>6. QED
    BY <1>4, <1>5 DEF HandleError, IsRetryable, ShouldRetry

\* A handler that goes on with an event that is where it was, or is stored now.
LEMMA GoingOnTracks ==
  ASSUME NInv, chan = "open", NEW h \in Handlers, handler[h].pc \notin {"idle", "mark"},
         NEW e, e = handler[h].msg.ev,
         NEW after \in Handling, after.msg = handler[h].msg, after.delivery = "live",
         handler' = [handler EXCEPT ![h] = after],
         \/ after.pc = "upsert" /\ (mongo' = mongo \/ mongo' = mongo \union {e})
         \/ after.pc = "save" /\ mongo' = mongo /\ e \notin mongo,
         UNCHANGED <<proc, link, chan, queue, timers, dlq, published, signals>>
  PROVE  Orderly' /\ \A f \in Events : Tracked(f)'
  <1>1. /\ e \in Events /\ published[e] > 0 /\ NoneWaits(e) /\ OnlyCarries(h, e)
    BY CarrierOf
  <1>2. handler \in [Handlers -> Handler]
    BY DEF NInv, CInv, TypeOK, MachineOK
  <1>3. handler'[h] = after /\ \A g \in Handlers \ {h} : handler'[g] = handler[g]
    BY <1>2
  <1>4. OnlyCarries(h, e)'
    BY <1>1, <1>3 DEF OnlyCarries, Carries
  <1>5. handler'[h].pc \in {"paused", "check", "save"} => e \notin mongo'
    BY <1>3
  <1>6. Handled(e)'
    BY <1>1, <1>4, <1>5 DEF Handled, NoneWaits
  <1>7. Tracked(e)'
    BY <1>1, <1>6 DEF Tracked
  <1>8. \A f \in Events : Tracked(f)'
    BY <1>7, StepTracks
  <1>9. QED
    BY <1>1, <1>8, StillOrderly

\* A handler that acknowledges what it has stored.
LEMMA FinishTracks ==
  ASSUME NInv, chan = "open", NEW h \in Handlers, At(h, "upsert"), FinishProcessing(h),
         UNCHANGED <<mongo, published, signals>>
  PROVE  Orderly' /\ \A f \in Events : Tracked(f)'
  <1> DEFINE after == [handler[h] EXCEPT !.pc = "mark", !.delivery = "settled"]
  <1>1. PICK e \in Events : e = handler[h].msg.ev
    BY CarrierOf DEF At
  <1>2. /\ handler[h].pc \notin {"idle", "mark"}
        /\ handler[h] \in Handling
    BY <1>1, CarrierOf DEF At
  <1>3. after.pc = "mark" /\ after.msg = handler[h].msg
    BY <1>2 DEF Handling
  <1>4. e \in mongo
    BY <1>1 DEF NInv, CInv, UpsertGuarded
  <1> HIDE DEF after
  <1>5. Settle(h, "ack", after, {}) /\ UNCHANGED <<proc, link, timers>>
    BY <1>2 DEF FinishProcessing, AckOrFail, after
  <1>6. chan' = chan /\ handler' = [handler EXCEPT ![h] = after]
        /\ Receive(handler[h].msg, "ack", {})
    BY <1>2, <1>5, SettlesOwn
  <1>7. queue' = queue /\ dlq \subseteq dlq'
    BY <1>6 DEF Receive
  <1>8. Tracked(e)'
    BY <1>1, <1>2, <1>3, <1>4, <1>5, <1>6, <1>7, EndsOver
  <1>9. QED
    BY <1>1, <1>2, <1>3, <1>5, <1>6, <1>7, <1>8, StepTracks, StillOrderly

\* Without a channel there is nothing the end of the process could send back.
LEMMA NothingToRequeue ==
  ASSUME TypeOK, Outstanding = {}
  PROVE  Requeued = queue
  <1>1. \A m \in Message : {h \in Outstanding : handler[h].msg = m} = {}
    OBVIOUS
  <1>2. \A m \in Message : queue[m] + Cardinality({h \in Outstanding : handler[h].msg = m}) = queue[m]
    BY <1>1, FS_EmptySet DEF TypeOK, MachineOK
  <1>3. QED
    BY <1>2 DEF Requeued, TypeOK, MachineOK

\* A process that ends without a channel loses its timers and its handlers, which hold
\* no delivery; only a shutdown takes the channel away while there are any.
LEMMA ExitTracks ==
  ASSUME NInv, chan = "null", proc \in {"draining", "stopping"},
         NEW how \in {"exited", "crashed"}, Exit(how),
         UNCHANGED <<mongo, published, signals>>
  PROVE  Orderly' /\ \A f \in Events : Tracked(f)'
  <1>1. TypeOK /\ queue \in [Message -> Nat] /\ timers \in [Message -> Nat]
    BY DEF NInv, CInv, TypeOK, MachineOK
  <1>2. \A h \in Handlers : handler[h].pc = "idle" \/ handler[h].delivery # "live"
    BY DEF NInv, Orderly
  <1>3. queue' = queue
    BY <1>1, <1>2, NothingToRequeue DEF Exit, Outstanding
  <1>4. /\ \A m \in Message : timers'[m] = 0
        /\ \A h \in Handlers : handler'[h].pc = "idle"
        /\ proc' = how /\ chan' = "null" /\ dlq' = dlq /\ link'.waiting = 0
    BY DEF Exit, Idle, NoLink
  <1>5. signals > 0 /\ signals \in Nat
    BY DEF NInv, Orderly, CInv, TypeOK
  <1>6. ASSUME NEW f \in Events PROVE Tracked(f)'
    <2>1. NobodyCarries(f) /\ NobodyCarries(f)' /\ Tracked(f)
      BY <1>2, <1>4 DEF NobodyCarries, Carries, NInv
    <2>2. CASE Unknown(f) \/ (published[f] > 0 /\ Over(f))
      BY <1>3, <1>4, <1>5, <2>1, <2>2 DEF Unknown, Over, Tracked, NoneWaits
    <2>3. CASE published[f] > 0 /\ Ready(f)
      <3>1. PICK m \in Message : m.ev = f /\ OnlyWaits(m)
        BY <2>3 DEF Ready
      <3>2. CASE queue[m] = 1
        <4>1. OnlyWaits(m)'
          BY <1>1, <1>3, <1>4, <3>1, <3>2 DEF OnlyWaits
        <4> QED
          BY <2>1, <2>3, <3>1, <4>1 DEF Ready, Tracked
      <3>3. CASE queue[m] = 0
        <4>1. NoneWaits(f)'
          BY <1>3, <1>4, <3>1, <3>3 DEF OnlyWaits, NoneWaits
        <4> QED
          BY <1>5, <2>1, <2>3, <4>1 DEF Over, Tracked
      <3> QED
        BY <1>1, <3>1, <3>2, <3>3 DEF OnlyWaits
    <2>4. ~Handled(f)
      BY <2>1 DEF Handled, OnlyCarries, NobodyCarries
    <2> QED
      BY <2>1, <2>2, <2>3, <2>4 DEF Tracked
  <1>7. Orderly'
    BY <1>4 DEF NInv, Orderly
  <1>8. QED
    BY <1>6, <1>7

\* With its channel gone, a paused handler that wants to send its message back ends the
\* process.
LEMMA PausedTooLong ==
  ASSUME NInv, chan # "open", NEW h \in Handlers, HandlerStep(h)
  PROVE  Orderly' /\ \A f \in Events : Tracked(f)'
  <1>1. chan = "null" /\ handler[h].pc \in {"idle", "paused"}
    BY DEF NInv, Orderly
  <1>2. RequeuePaused(h) /\ handler[h].pc = "paused"
    BY <1>1 DEF HandlerStep, RequeuePaused, RejectMalformed, SkipDuplicate, PassCheck, SaveRawEvent,
       SaveRawEventFails, UpsertMetrics, UpsertMetricsFails, MarkProcessed, At
  <1>3. Exit("crashed") /\ UNCHANGED <<mongo, published, signals>>
    BY <1>1, <1>2 DEF RequeuePaused, Settle, SettleOwn, SettleOther, SettleUnknown, SettleLost,
       ExitUnhandled, stores, external
  <1>4. proc \in {"draining", "stopping"}
    BY <1>1, <1>2 DEF NInv, Orderly, CInv, TypeOK, MachineOK
  <1>5. QED
    BY <1>1, <1>3, <1>4, ExitTracks

\* Every step of a handler keeps track of every event.
LEMMA HandlerStepTracks ==
  ASSUME NInv, Gentle, chan = "open", NEW h \in Handlers, HandlerStep(h)
  PROVE  Orderly' /\ \A f \in Events : Tracked(f)'
  <1>1. handler[h].pc \notin {"idle", "mark"} \/ MarkProcessed(h)
    BY DEF HandlerStep, RequeuePaused, RejectMalformed, SkipDuplicate, PassCheck, SaveRawEvent,
       SaveRawEventFails, UpsertMetrics, UpsertMetricsFails, At
  <1>2. CASE RequeuePaused(h)
    <2>1. handler[h].pc = "paused" /\ UNCHANGED <<mongo, published, signals>>
      BY <1>2 DEF RequeuePaused, At, stores, external
    <2>2. PICK e \in Events : e = handler[h].msg.ev
      BY <2>1, CarrierOf
    <2>3. PICK m \in Message : m = handler[h].msg
      BY <2>1, <2>2, CarrierOf
    <2>4. Settle(h, "requeue", Idle, {}) /\ UNCHANGED <<proc, link, timers>>
      BY <1>2 DEF RequeuePaused
    <2>5. chan' = chan /\ handler' = [handler EXCEPT ![h] = Idle]
          /\ Receive(handler[h].msg, "requeue", {})
      BY <2>1, <2>4, SettlesOwn
    <2>6. queue' = [queue EXCEPT ![m] = @ + 1] /\ dlq \subseteq dlq'
      BY <2>3, <2>5 DEF Receive
    <2>7. \A n \in Message : n.ev # e => queue'[n] = queue[n]
      BY <2>2, <2>3, <2>6 DEF NInv, CInv, TypeOK, MachineOK
    <2>8. Tracked(e)'
      BY <2>1, <2>2, <2>3, <2>4, <2>5, <2>6, EndsReady
    <2>9. Idle.pc = "idle"
      BY DEF Idle
    <2>10. QED
      BY <2>1, <2>2, <2>4, <2>5, <2>6, <2>7, <2>8, <2>9, StepTracks, StillOrderly
  <1>3. CASE RejectMalformed(h)
    BY <1>3, FailingTracks DEF RejectMalformed, At, stores, external
  <1>4. CASE SkipDuplicate(h)
    <2>1. PICK e \in Events : e = handler[h].msg.ev
      BY <1>4, CarrierOf DEF SkipDuplicate, At
    <2>2. e \notin mongo
      BY <1>4, <2>1, CarrierOf DEF SkipDuplicate, At
    <2>3. QED
      BY <1>4, <2>1, <2>2 DEF SkipDuplicate, NInv, CInv, MarkedOnlyIfStored
  <1>5. CASE PassCheck(h) \/ SaveRawEvent(h) \/ (UpsertMetricsFails(h) /\ chan' = chan
             /\ handler' = [handler EXCEPT ![h].attempt = @ + 1]
             /\ ~LastAttempt(handler[h].attempt) /\ UNCHANGED <<proc, link, queue, timers, dlq>>)
    <2>1. handler[h].pc \in {"check", "save", "upsert"}
      BY <1>5 DEF PassCheck, SaveRawEvent, UpsertMetricsFails, At
    <2>2. PICK e \in Events : e = handler[h].msg.ev
      BY <2>1, CarrierOf
    <2>3. /\ handler[h] \in Handling /\ handler[h].delivery = "live"
          /\ handler[h].pc \in {"check", "save"} => e \notin mongo
      BY <2>1, <2>2, CarrierOf
    <2>4. CASE PassCheck(h) \/ SaveRawEvent(h)
      <3>1. PICK pc \in {"save", "upsert"} :
              /\ handler' = [handler EXCEPT ![h].pc = pc]
              /\ pc = "save" => mongo' = mongo /\ e \notin mongo
              /\ pc = "upsert" => mongo' = mongo \union {e}
        BY <2>1, <2>2, <2>3, <2>4 DEF PassCheck, SaveRawEvent, At, stores
      <3>2. PICK after \in Handling : /\ after = [handler[h] EXCEPT !.pc = pc]
                                     /\ after.pc = pc /\ after.msg = handler[h].msg
                                     /\ after.delivery = "live"
        <4>1. [handler[h] EXCEPT !.pc = pc] \in Handling
          BY <2>3 DEF Handling
        <4>2. QED
          BY <2>3, <4>1 DEF Handling
      <3>3. handler' = [handler EXCEPT ![h] = after]
        BY <3>1, <3>2
      <3>4. UNCHANGED <<proc, link, chan, queue, timers, dlq, published, signals>>
        BY <2>4 DEF PassCheck, SaveRawEvent, external
      <3>5. \/ after.pc = "upsert" /\ (mongo' = mongo \/ mongo' = mongo \union {e})
            \/ after.pc = "save" /\ mongo' = mongo /\ e \notin mongo
        BY <3>1, <3>2
      <3>6. handler[h].pc \notin {"idle", "mark"}
        BY <2>1
      <3>7. QED
        BY <2>2, <3>2, <3>3, <3>4, <3>5, <3>6, GoingOnTracks
    <2>5. CASE UpsertMetricsFails(h) /\ chan' = chan
               /\ handler' = [handler EXCEPT ![h].attempt = @ + 1]
               /\ ~LastAttempt(handler[h].attempt) /\ UNCHANGED <<proc, link, queue, timers, dlq>>
      <3>1. [handler[h] EXCEPT !.attempt = @ + 1] \in Handling
        BY <2>3, <2>5, ConsumerAssumption DEF Handling, LastAttempt
      <3>2. PICK after \in Handling : /\ after = [handler[h] EXCEPT !.attempt = @ + 1]
                                     /\ after.pc = handler[h].pc
                                     /\ after.msg = handler[h].msg
                                     /\ after.delivery = "live"
        BY <2>3, <3>1 DEF Handling
      <3>3. handler' = [handler EXCEPT ![h] = after]
        BY <2>5, <3>2
      <3>4. handler[h].pc = "upsert" /\ mongo' = mongo /\ UNCHANGED <<published, signals>>
        BY <2>5 DEF UpsertMetricsFails, At, external
      <3>5. QED
        BY <2>2, <2>5, <3>2, <3>3, <3>4, GoingOnTracks
    <2>6. QED
      BY <1>5, <2>4, <2>5
  <1>6. CASE SaveRawEventFails(h)
    <2>1. handler[h].pc = "save" /\ UNCHANGED <<published, signals>>
      BY <1>6 DEF SaveRawEventFails, At, external
    <2>2. CanInsert(handler[h].msg.ev)
      BY <2>1, CarrierOf DEF CanInsert
    <2>3. PICK failure \in MongoFaults :
            /\ HandleError(h, failure)
            /\ mongo' = IF failure = "lostReply" /\ CanInsert(handler[h].msg.ev)
                        THEN mongo \union {handler[h].msg.ev} ELSE mongo
      BY <1>6, <2>2 DEF SaveRawEventFails
    <2>4. QED
      BY <2>1, <2>3, FailingTracks DEF Gentle
  <1>7. ASSUME At(h, "upsert"), FinishProcessing(h), UNCHANGED <<mongo, published, signals>>
        PROVE  Orderly' /\ \A f \in Events : Tracked(f)'
    BY <1>7, FinishTracks
  <1>8. CASE UpsertMetrics(h)
    BY <1>7, <1>8 DEF UpsertMetrics, external
  <1>9. CASE UpsertMetricsFails(h)
    BY <1>5, <1>7, <1>9 DEF UpsertMetricsFails, external
  <1>10. CASE MarkProcessed(h)
    <2>1. handler[h].pc = "mark" /\ handler' = [handler EXCEPT ![h] = Idle]
          /\ UNCHANGED <<proc, link, chan, timers, queue, dlq, mongo, published, signals>>
      BY <1>10 DEF MarkProcessed, At, external
    <2>2. \A g \in Handlers : \/ g = h /\ handler'[g].pc = "idle"
                              \/ handler'[g] = handler[g]
      BY <2>1 DEF NInv, CInv, TypeOK, MachineOK, Idle
    <2>3. \A f \in Events : Tracked(f)'
      <3> SUFFICES ASSUME NEW f \in Events PROVE Tracked(f)'
        OBVIOUS
      <3>1. \A g \in Handlers : /\ Carries(g, f)' <=> Carries(g, f)
                                /\ Carries(g, f) => handler'[g].pc = handler[g].pc
        BY <2>1, <2>2 DEF Carries
      <3>2. QED
        BY <2>1, <3>1, OthersTracked DEF NInv
    <2>4. Orderly'
      BY <2>1, <2>2 DEF NInv, Orderly
    <2>5. QED
      BY <2>3, <2>4
  <1>11. QED
    BY <1>2, <1>3, <1>4, <1>5, <1>6, <1>8, <1>9, <1>10 DEF HandlerStep

\* A delivery takes an event from the queue to a handler.
LEMMA DeliverTracks ==
  ASSUME NInv, NEW h \in Handlers, NEW m \in Message, Deliver(h, m)
  PROVE  Orderly' /\ \A f \in Events : Tracked(f)'
  <1>1. /\ chan = "open" /\ queue[m] > 0 /\ handler[h].pc = "idle"
        /\ UNCHANGED <<proc, link, chan, timers, dlq, mongo, published, signals>>
        /\ queue' = [queue EXCEPT ![m] = @ - 1]
    BY DEF Deliver, At, NInv, Orderly, stores, external
  <1>2. /\ handler \in [Handlers -> Handler]
        /\ queue \in [Message -> Nat] /\ timers \in [Message -> Nat]
    BY DEF NInv, CInv, TypeOK, MachineOK
  <1>3. PICK e \in Events : e = m.ev
    BY DEF Message
  <1>4. PICK pc \in {"check", "paused"} :
          handler' = [handler EXCEPT ![h] =
                        [pc |-> pc, msg |-> m, delivery |-> "live", attempt |-> 0]]
    BY DEF Deliver
  <1>5. /\ handler'[h].pc = pc /\ handler'[h].msg = m /\ handler'[h].delivery = "live"
        /\ \A g \in Handlers \ {h} : handler'[g] = handler[g]
    BY <1>2, <1>4
  <1>6. ~NoneWaits(e)
    BY <1>1, <1>2, <1>3 DEF NoneWaits
  <1>7. published[e] > 0 /\ e \notin mongo /\ NobodyCarries(e)
        /\ \E n \in Message : n.ev = e /\ OnlyWaits(n)
    BY <1>6 DEF NInv, Tracked, Unknown, Over, Handled, Ready
  <1>8. OnlyWaits(m)
    <2>1. PICK n \in Message : n.ev = e /\ OnlyWaits(n)
      BY <1>7
    <2>2. n = m
      BY <1>1, <1>2, <1>3, <2>1 DEF OnlyWaits
    <2>3. QED
      BY <2>1, <2>2
  <1>9. NoneWaits(e)'
    <2>1. queue[m] = 1 /\ timers[m] = 0
      BY <1>1, <1>2, <1>8 DEF OnlyWaits
    <2>2. queue'[m] = 0 /\ timers'[m] = 0 /\ \A n \in Message \ {m} : queue'[n] = queue[n]
      BY <1>1, <1>2, <2>1
    <2>3. QED
      BY <1>1, <1>3, <1>8, <2>2 DEF NoneWaits, OnlyWaits
  <1>10. OnlyCarries(h, e)'
    BY <1>3, <1>5, <1>7 DEF OnlyCarries, Carries, NobodyCarries
  <1>11. Tracked(e)'
    BY <1>1, <1>7, <1>9, <1>10 DEF Tracked, Handled
  <1>12. ASSUME NEW f \in Events, f # e PROVE Tracked(f)'
    <2>1. \A g \in Handlers : /\ Carries(g, f)' <=> Carries(g, f)
                              /\ Carries(g, f) => handler'[g].pc = handler[g].pc
      BY <1>1, <1>3, <1>5, <1>12 DEF Carries
    <2>2. \A n \in Message : n.ev = f => queue'[n] = queue[n] /\ timers'[n] = timers[n]
      BY <1>1, <1>2, <1>3, <1>12
    <2>3. QED
      BY <1>1, <2>1, <2>2, OthersTracked DEF NInv
  <1>13. Orderly'
    BY <1>1, <1>5 DEF NInv, Orderly
  <1>14. QED
    BY <1>11, <1>12, <1>13

\* A timer moves an event to the queue, or drops it when a shutdown has taken the channel.
LEMMA TimerTracks ==
  ASSUME NInv, NEW m \in Message, RetryTimerFires(m)
  PROVE  Orderly' /\ \A f \in Events : Tracked(f)'
  <1>1. /\ queue \in [Message -> Nat] /\ timers \in [Message -> Nat]
    BY DEF NInv, CInv, TypeOK, MachineOK
  <1>2. /\ timers[m] > 0 /\ chan \in {"open", "null"}
        /\ chan = "null" => signals > 0
    BY <1>1 DEF RetryTimerFires, NInv, Orderly, CInv, TypeOK, MachineOK
  <1>3. /\ timers' = [timers EXCEPT ![m] = @ - 1]
        /\ queue' = IF chan = "open" THEN [queue EXCEPT ![m] = @ + 1] ELSE queue
        /\ UNCHANGED <<proc, link, chan, handler, dlq, mongo, published, signals>>
    BY <1>2 DEF RetryTimerFires, stores, external
  <1>4. PICK e \in Events : e = m.ev
    BY DEF Message
  <1>5. ~NoneWaits(e)
    BY <1>1, <1>2, <1>4 DEF NoneWaits
  <1>6. published[e] > 0 /\ e \notin mongo /\ NobodyCarries(e)
        /\ \E n \in Message : n.ev = e /\ OnlyWaits(n)
    BY <1>5 DEF NInv, Tracked, Unknown, Over, Handled, Ready
  <1>7. OnlyWaits(m)
    <2>1. PICK n \in Message : n.ev = e /\ OnlyWaits(n)
      BY <1>6
    <2>2. n = m
      BY <1>1, <1>2, <1>4, <2>1 DEF OnlyWaits
    <2>3. QED
      BY <2>1, <2>2
  <1>8. \A n \in Message \ {m} : queue'[n] = queue[n] /\ timers'[n] = timers[n]
    BY <1>1, <1>3
  <1>9. NobodyCarries(e)'
    BY <1>3, <1>6 DEF NobodyCarries, Carries
  <1>10. Tracked(e)'
    <2>1. CASE chan = "open"
      <3>1. queue'[m] + timers'[m] = 1
        BY <1>1, <1>2, <1>3, <1>7, <2>1 DEF OnlyWaits
      <3>2. OnlyWaits(m)'
        BY <1>7, <1>8, <3>1 DEF OnlyWaits
      <3> QED
        BY <1>3, <1>4, <1>6, <1>9, <3>2 DEF Tracked, Ready
    <2>2. CASE chan = "null"
      <3>1. queue'[m] = 0 /\ timers'[m] = 0
        BY <1>1, <1>2, <1>3, <1>7, <2>2 DEF OnlyWaits
      <3>2. NoneWaits(e)'
        BY <1>4, <1>7, <1>8, <3>1 DEF OnlyWaits, NoneWaits
      <3>3. signals' > 0 /\ signals \in Nat
        BY <1>2, <1>3, <2>2 DEF NInv, CInv, TypeOK
      <3> QED
        BY <1>3, <1>6, <1>9, <3>2, <3>3 DEF Tracked, Over
    <2> QED
      BY <1>2, <2>1, <2>2
  <1>11. ASSUME NEW f \in Events, f # e PROVE Tracked(f)'
    <2>1. \A n \in Message : n.ev = f => queue'[n] = queue[n] /\ timers'[n] = timers[n]
      BY <1>1, <1>3, <1>4, <1>11
    <2>2. \A g \in Handlers : Carries(g, f)' <=> Carries(g, f)
      BY <1>3 DEF Carries
    <2>3. QED
      BY <1>3, <2>1, <2>2, OthersTracked DEF NInv
  <1>12. ASSUME proc \in {"exited", "crashed", "idle"} PROVE FALSE
    BY <1>1, <1>2, <1>12 DEF NInv, Orderly
  <1>13. Orderly'
    BY <1>3, <1>12 DEF NInv, Orderly
  <1>14. QED
    BY <1>10, <1>11, <1>13

\* The producer publishes an event for the first time, and only then.
LEMMA PublishTracks ==
  ASSUME NInv, Gentle, NEW e \in Events, Publish(e)
  PROVE  Orderly' /\ \A f \in Events : Tracked(f)'
  <1>1. /\ queue \in [Message -> Nat] /\ timers \in [Message -> Nat]
        /\ published \in [Events -> Nat] /\ MaxPublish \in Nat
    BY ConsumerAssumption DEF NInv, CInv, TypeOK, MachineOK
  <1>2. PICK m \in Message : m = [ev |-> e, retry |-> 0]
    <2>1. [ev |-> e, retry |-> 0] \in Message
      BY ConsumerAssumption DEF Message
    <2>2. QED
      BY <2>1
  <1>3. /\ published[e] < MaxPublish /\ published' = [published EXCEPT ![e] = @ + 1]
        /\ queue' = [queue EXCEPT ![m] = @ + 1] /\ m.ev = e
        /\ UNCHANGED <<proc, link, chan, handler, timers, dlq, mongo, signals>>
    BY <1>2 DEF Publish, stores
  <1>4. published[e] = 0
    BY <1>1, <1>3 DEF Gentle
  <1>5. e \notin mongo /\ NoneWaits(e) /\ NobodyCarries(e)
    BY <1>4 DEF NInv, Tracked, Unknown
  <1>6. OnlyWaits(m)'
    <2>1. queue[m] = 0 /\ timers[m] = 0
      BY <1>3, <1>5 DEF NoneWaits
    <2>2. queue'[m] + timers'[m] = 1
          /\ \A n \in Message \ {m} : queue'[n] = queue[n] /\ timers'[n] = timers[n]
      BY <1>1, <1>3, <2>1
    <2>3. QED
      BY <1>3, <1>5, <2>2 DEF OnlyWaits, NoneWaits
  <1>7. published'[e] = 1 /\ NobodyCarries(e)'
    BY <1>1, <1>3, <1>4, <1>5 DEF NobodyCarries, Carries
  <1>8. Tracked(e)'
    BY <1>3, <1>5, <1>6, <1>7 DEF Tracked, Ready
  <1>9. ASSUME NEW f \in Events, f # e PROVE Tracked(f)'
    <2>1. \A n \in Message : n.ev = f => queue'[n] = queue[n] /\ timers'[n] = timers[n]
      BY <1>1, <1>3, <1>9
    <2>2. \A g \in Handlers : Carries(g, f)' <=> Carries(g, f)
      BY <1>3 DEF Carries
    <2>3. published'[f] = published[f]
      BY <1>1, <1>3, <1>9
    <2>4. QED
      BY <1>3, <2>1, <2>2, <2>3, OthersTracked DEF NInv
  <1>10. Orderly'
    BY <1>3 DEF NInv, Orderly
  <1>11. QED
    BY <1>8, <1>9, <1>10

\* The shutdown that has drained takes the channel: what a paused handler held is in
\* the queue again, and nobody holds what is stored.
LEMMA StopDoneTracks ==
  ASSUME NInv, Gentle, StopDone
  PROVE  Orderly' /\ \A f \in Events : Tracked(f)'
  <1>1. /\ TypeOK /\ queue \in [Message -> Nat] /\ timers \in [Message -> Nat]
        /\ handler \in [Handlers -> Handler] /\ signals \in Nat
    BY DEF NInv, CInv, TypeOK, MachineOK
  <1>2. /\ proc = "draining" /\ proc' = "stopping" /\ signals > 0
        /\ chan \in {"open", "null"} /\ chan' = "null" /\ link'.waiting = 0
        /\ queue' = Requeued /\ handler' = [h \in Handlers |-> Detached(handler[h])]
        /\ UNCHANGED <<timers, dlq, mongo, published, signals>>
    BY DEF StopDone, NoLink, NInv, Orderly, stores, external
  <1>3. Active = {}
    BY <1>1, <1>2, ConsumerAssumption DEF StopDone, Drained, Gentle, NInv, Orderly
  <1>4. ASSUME NEW h \in Handlers
        PROVE  /\ handler[h].pc \in {"idle", "paused"}
               /\ handler'[h].pc = handler[h].pc
               /\ handler'[h].pc = "paused" => handler'[h].delivery # "live"
    <2>1. handler[h].pc \in {"idle", "paused"} /\ handler[h] \in Handler
      <3>1. handler[h] \in Handler
        BY <1>1
      <3>2. handler[h].pc \in {"idle", "paused", "check", "save", "upsert", "mark"}
        BY <3>1 DEF Handler, Handling, Idle
      <3> QED
        BY <1>3, <3>1, <3>2 DEF Active
    <2>2. handler'[h] = Detached(handler[h])
      BY <1>2
    <2>3. handler'[h].pc = handler[h].pc
      <3>1. CASE handler[h].pc = "idle"
        BY <2>2, <3>1 DEF Detached
      <3>2. CASE handler[h].pc # "idle"
        BY <2>1, <2>2, <3>2, DetachedType
      <3> QED
        BY <3>1, <3>2
    <2>4. handler[h].pc = "paused" => Released(handler'[h])
      BY <2>1, <2>2, DetachedReleased
    <2>5. QED
      BY <2>1, <2>3, <2>4 DEF Released
  <1>5. Orderly'
    BY <1>2, <1>4 DEF Orderly, NInv
  <1>6. \A f \in Events : NobodyCarries(f)'
    BY <1>4 DEF NobodyCarries, Carries
  <1>7. ASSUME NEW m \in Message
        PROVE  /\ {h \in Outstanding : handler[h].msg = m} = {} => queue'[m] = queue[m]
               /\ \A h \in Handlers :
                    {g \in Outstanding : handler[g].msg = m} = {h} => queue'[m] = queue[m] + 1
    <2> DEFINE D == {h \in Outstanding : handler[h].msg = m}
    <2>1. queue'[m] = queue[m] + Cardinality(D)
      BY <1>2 DEF Requeued
    <2> HIDE DEF D
    <2>2. (D = {} => Cardinality(D) = 0) /\ \A h \in Handlers : D = {h} => Cardinality(D) = 1
      BY FS_EmptySet, FS_Singleton
    <2>3. (D = {} => queue'[m] = queue[m]) /\ \A h \in Handlers : D = {h} => queue'[m] = queue[m] + 1
      BY <1>1, <2>1, <2>2
    <2> QED
      BY <2>3 DEF D
  <1>8. ASSUME NEW f \in Events PROVE Tracked(f)'
    <2>1. Tracked(f)
      BY DEF NInv
    <2>2. CASE NobodyCarries(f)
      <3>1. \A m \in Message : m.ev = f => {h \in Outstanding : handler[h].msg = m} = {}
        BY <1>4, <2>2 DEF NobodyCarries, Carries, Outstanding
      <3>2. \A m \in Message : m.ev = f => queue'[m] = queue[m]
        BY <1>7, <3>1
      <3>3. ~Handled(f)
        BY <2>2 DEF Handled, OnlyCarries, NobodyCarries
      <3>4. NoneWaits(f) => NoneWaits(f)'
        BY <1>2, <3>2 DEF NoneWaits
      <3>5. ASSUME NEW m \in Message, m.ev = f, OnlyWaits(m) PROVE OnlyWaits(m)'
        BY <1>2, <3>2, <3>5 DEF OnlyWaits
      <3>6. Ready(f) => Ready(f)'
        BY <1>2, <1>6, <3>5 DEF Ready
      <3>7. (Unknown(f) => Unknown(f)') /\ (Over(f) => Over(f)')
        BY <1>2, <1>6, <3>4 DEF Unknown, Over
      <3> QED
        BY <1>2, <2>1, <3>3, <3>6, <3>7 DEF Tracked
    <2>3. CASE ~NobodyCarries(f)
      <3>1. published[f] > 0 /\ Handled(f)
        BY <2>1, <2>3 DEF Tracked, Unknown, Over, Ready
      <3>2. PICK h \in Handlers :
              /\ OnlyCarries(h, f)
              /\ handler[h].pc \in {"paused", "check", "save"} => f \notin mongo
        BY <3>1 DEF Handled
      <3>3. PICK m \in Message : m = handler[h].msg
        BY <1>1, <3>2, BusyHandler DEF OnlyCarries, Carries, Handling
      <3>4. m.ev = f /\ f \notin mongo /\ handler[h].pc = "paused" /\ h \in Outstanding
        BY <1>4, <3>2, <3>3 DEF OnlyCarries, Carries, Outstanding
      <3>5. ASSUME NEW g \in Outstanding, handler[g].msg.ev = f PROVE g = h
        <4>1. g \in Handlers /\ Carries(g, f)
          BY <1>4, <3>5 DEF Outstanding, Carries
        <4> QED
          BY <3>2, <4>1 DEF OnlyCarries
      <3>6. {g \in Outstanding : handler[g].msg = m} = {h}
        BY <3>3, <3>4, <3>5
      <3>7. \A n \in Message \ {m} : n.ev = f => {g \in Outstanding : handler[g].msg = n} = {}
        BY <3>3, <3>5
      <3>8. queue'[m] = 1 /\ timers'[m] = 0
        BY <1>2, <1>7, <3>1, <3>4, <3>6 DEF Handled, NoneWaits
      <3>9. \A n \in Message \ {m} : n.ev = f => queue'[n] = 0 /\ timers'[n] = 0
        BY <1>2, <1>7, <3>1, <3>7 DEF Handled, NoneWaits
      <3>10. OnlyWaits(m)'
        BY <3>4, <3>8, <3>9 DEF OnlyWaits
      <3> QED
        BY <1>2, <1>6, <3>1, <3>4, <3>10 DEF Tracked, Ready
    <2> QED
      BY <2>2, <2>3
  <1>9. QED
    BY <1>5, <1>8

\* What the world does otherwise, short of losing a channel or killing the process,
\* does not touch the events.
LEMMA WorldTracks ==
  ASSUME NInv, Gentle, losses' = losses,
         \/ \E e \in Events : ForgetProcessed(e)
         \/ NoticeClose \/ ConnectToMessageBroker \/ StartConsuming
         \/ Start \/ StartFails \/ Shutdown \/ StopDone
         \/ ExitStopped \/ TimePasses \/ UNCHANGED vars
  PROVE  Orderly' /\ \A f \in Events : Tracked(f)'
  <1>1. signals \in Nat /\ MaxSignals \in Nat
    BY ConsumerAssumption DEF NInv, CInv, TypeOK
  <1>2. ~NoticeClose /\ ~ConnectToMessageBroker
    BY DEF NoticeClose, ConnectToMessageBroker, NInv, Orderly
  <1>3. CASE StopDone
    BY <1>3, StopDoneTracks
  <1>4. CASE ExitStopped
    <2>1. proc = "stopping" /\ Exit("exited") /\ UNCHANGED <<mongo, published, signals>>
      BY <1>4 DEF ExitStopped, stores, external
    <2>2. chan = "null"
      BY <2>1 DEF NInv, Orderly
    <2> QED
      BY <2>1, <2>2, ExitTracks
  <1>5. ASSUME \/ \E e \in Events : ForgetProcessed(e)
               \/ StartConsuming \/ Start \/ StartFails \/ Shutdown
               \/ TimePasses \/ UNCHANGED vars
        PROVE  Orderly' /\ \A f \in Events : Tracked(f)'
    <2>1. /\ UNCHANGED <<handler, timers, queue, dlq, mongo, published>>
          /\ signals' = signals \/ (signals < MaxSignals /\ signals' = signals + 1)
      BY <1>5
      DEF ForgetProcessed, StartConsuming, Start, StartFails, Shutdown, TimePasses, vars,
          stores, external
    <2>2. ASSUME NEW f \in Events PROVE Tracked(f)'
      <3>1. \A g \in Handlers : Carries(g, f)' <=> Carries(g, f)
        BY <2>1 DEF Carries
      <3>2. signals' = 0 => signals = 0
        BY <1>1, <2>1
      <3> QED
        BY <2>1, <3>1, <3>2, OthersTracked DEF NInv
    <2>3. signals' <= MaxSignals /\ (signals > 0 => signals' > 0)
      BY <1>1, <2>1 DEF NInv, Orderly
    <2>4. Orderly'
      <3>1. CASE Start
        BY <2>1, <2>3, <3>1 DEF Start, NoLink, NInv, Orderly
      <3>2. CASE StartFails
        <4>1. losses' # losses + 1
          BY DEF NInv, CInv, TypeOK, MachineOK
        <4>2. /\ proc \in {"exited", "crashed"} /\ proc' = "idle"
              /\ UNCHANGED <<chan, link>>
          BY <3>2, <4>1 DEF StartFails
        <4> QED
          BY <2>1, <2>3, <4>2 DEF NInv, Orderly
      <3>3. CASE Shutdown
        <4>1. /\ proc \in {"running", "idle"} /\ proc' = "draining" /\ chan' = chan
              /\ link' = link /\ signals' > 0
          BY <1>1, <3>3 DEF Shutdown
        <4> QED
          BY <2>1, <2>3, <4>1 DEF NInv, Orderly
      <3>4. CASE UNCHANGED <<proc, link, chan>>
        BY <2>1, <2>3, <3>4 DEF NInv, Orderly
      <3>5. CASE StartConsuming
        <4>1. link'.waiting = link.waiting /\ UNCHANGED <<proc, chan>>
          BY <3>5, LoopGoesOn DEF StartConsuming, NInv, CInv, TypeOK, MachineOK
        <4> QED
          BY <2>1, <2>3, <4>1 DEF NInv, Orderly
      <3> QED
        BY <1>5, <3>1, <3>2, <3>3, <3>4, <3>5 DEF ForgetProcessed, TimePasses, vars
    <2> QED
      BY <2>2, <2>4
  <1>6. QED
    BY <1>2, <1>3, <1>4, <1>5

\* What a bounded counter does in a step.
CountedUpTo(bound, n, next) == next = n \/ (n < bound /\ next = n + 1)

\* Losses, kills and signals are counted one by one, the latter up to their bounds.
LEMMA DisturbancesCounted ==
  ASSUME [Next]_vars
  PROVE  /\ losses' \in {losses, losses + 1}
         /\ CountedUpTo(MaxKills, kills, kills')
         /\ CountedUpTo(MaxSignals, signals, signals')
  <1> DEFINE L == losses' \in {losses, losses + 1}
  <1>1. ASSUME NEW h \in Handlers, NEW verdict, NEW after, NEW sent,
               Settle(h, verdict, after, sent)
        PROVE  L
    BY <1>1 DEF Settle, SettleOwn, SettleOther, SettleUnknown, SettleLost
  <1>2. losses' = losses => L
    OBVIOUS
  <1> HIDE DEF L
  <1>3. ASSUME NEW how, Exit(how) PROVE losses' = losses
    BY <1>3 DEF Exit
  <1>4. ASSUME NEW h \in Handlers, NEW failure, HandleError(h, failure) PROVE L
    <2>1. CASE SendToDLQ(h)
      BY <1>1, <1>2, <1>3, <2>1 DEF SendToDLQ, ExitUnhandled
    <2>2. CASE RetryMessage(h)
      BY <1>1, <1>2, <1>3, <2>2 DEF RetryMessage, ExitUnhandled
    <2> QED
      BY <1>2, <1>3, <1>4, <2>1, <2>2 DEF HandleError, ExitUnhandled
  <1>5. ASSUME NEW h \in Handlers, NEW after, NEW b, AckOrFail(h, after, b) PROVE L
    BY <1>1, <1>4, <1>5 DEF AckOrFail
  <1>6. ASSUME NEW h \in Handlers, HandlerStep(h) PROVE L /\ UNCHANGED <<kills, signals>>
    <2>1. UNCHANGED <<kills, signals>>
      BY <1>6 DEF HandlerStep, RequeuePaused, RejectMalformed, SkipDuplicate, PassCheck,
         SaveRawEvent, SaveRawEventFails, UpsertMetrics, UpsertMetricsFails, MarkProcessed,
         external
    <2>2. CASE RequeuePaused(h) \/ RejectMalformed(h) \/ SkipDuplicate(h)
      BY <1>1, <1>2, <1>3, <1>4, <1>5, <2>1, <2>2 DEF RequeuePaused, RejectMalformed,
         SkipDuplicate, ExitUnhandled
    <2>3. CASE PassCheck(h) \/ SaveRawEvent(h) \/ MarkProcessed(h)
      BY <1>2, <2>1, <2>3 DEF PassCheck, SaveRawEvent, MarkProcessed
    <2>4. CASE SaveRawEventFails(h)
      BY <1>4, <2>1, <2>4 DEF SaveRawEventFails
    <2>5. CASE UpsertMetrics(h) \/ UpsertMetricsFails(h)
      BY <1>2, <1>5, <2>1, <2>5 DEF UpsertMetrics, UpsertMetricsFails, FinishProcessing
    <2> QED
      BY <1>6, <2>2, <2>3, <2>4, <2>5 DEF HandlerStep
  <1>7. ASSUME \/ \E m \in Message : RetryTimerFires(m)
               \/ \E h \in Handlers, m \in Message : Deliver(h, m)
               \/ \E e \in Events : Publish(e) \/ ForgetProcessed(e)
               \/ NoticeClose \/ ConnectToMessageBroker \/ StartConsuming \/ Start
               \/ StopDone \/ ExitStopped \/ TimePasses \/ UNCHANGED vars
        PROVE  UNCHANGED <<losses, kills, signals>>
    <2>1. CASE (\E m \in Message : RetryTimerFires(m)) \/ ExitStopped \/ NoticeClose
      BY <1>3, <2>1 DEF RetryTimerFires, ExitStopped, NoticeClose, ExitUnhandled, external
    <2>2. CASE \/ \E h \in Handlers, m \in Message : Deliver(h, m)
               \/ \E e \in Events : Publish(e) \/ ForgetProcessed(e)
      BY <2>2 DEF Deliver, Publish, ForgetProcessed, external
    <2>3. CASE ConnectToMessageBroker \/ StartConsuming \/ Start \/ StopDone \/ TimePasses
      BY <2>3 DEF ConnectToMessageBroker, StartConsuming, Start, StopDone, TimePasses, external
    <2> QED
      BY <1>7, <2>1, <2>2, <2>3 DEF vars
  <1>8. CASE LoseChannel \/ StartFails \/ Shutdown \/ Kill
    BY <1>3, <1>8 DEF LoseChannel, StartFails, Shutdown, Kill, CountedUpTo, external, L
  <1>9. QED
    BY <1>6, <1>7, <1>8 DEF Next, CountedUpTo, L

\* The invariant, for a world that is gentle.
LEMMA UnlessDisturbedAlways ==
  ASSUME Gentle
  PROVE  Spec => [](CInv /\ UnlessDisturbed)
  <1>1. Init => CInv /\ UnlessDisturbed
    <2> SUFFICES ASSUME Init PROVE NInv
      BY DEF UnlessDisturbed, NInv
    <2>1. Idle.pc = "idle" /\ \A h \in Handlers : handler[h] = Idle
      BY DEF Init, Idle
    <2>2. Orderly
      BY <2>1, ConsumerAssumption DEF Init, NoLink, Orderly
    <2>3. \A e \in Events : Unknown(e)
      BY <2>1 DEF Init, Unknown, NoneWaits, NobodyCarries, Carries
    <2>4. QED
      BY <2>2, <2>3, CInvInit DEF NInv, Tracked
  <1>2. CInv /\ UnlessDisturbed /\ [Next]_vars => (CInv /\ UnlessDisturbed)'
    <2> SUFFICES ASSUME CInv, UnlessDisturbed, [Next]_vars PROVE CInv' /\ UnlessDisturbed'
      OBVIOUS
    <2>1. CInv'
      BY CInvStep
    <2> SUFFICES ASSUME losses' = 0, kills' = 0 PROVE NInv'
      BY <2>1 DEF UnlessDisturbed
    <2>2. losses = 0 /\ kills = 0 /\ losses' = losses
      BY DisturbancesCounted DEF CountedUpTo, CInv, TypeOK, MachineOK
    <2>3. NInv
      BY <2>2 DEF UnlessDisturbed
    <2>4. ~LoseChannel /\ ~Kill
      BY <2>2 DEF LoseChannel, Kill
    <2>5. ASSUME NEW h \in Handlers, HandlerStep(h)
          PROVE  Orderly' /\ \A f \in Events : Tracked(f)'
      BY <2>3, <2>5, HandlerStepTracks, PausedTooLong
    <2>6. Orderly' /\ \A f \in Events : Tracked(f)'
      BY <2>2, <2>3, <2>4, <2>5, DeliverTracks, TimerTracks, PublishTracks, WorldTracks DEF Next
    <2>7. QED
      BY <2>1, <2>6 DEF NInv
  <1>3. QED
    BY <1>1, <1>2, PTL DEF Spec

\* A shutdown that has the time to drain leaves no stored event behind in the queue, a
\* timer or a handler, where the next process would trip over it, however many signals,
\* failed starts, crashes of its own and handlers there are (stop() and
\* waitForActiveMessages in consumer.ts).
THEOREM ConsumerStopLeavesNoStoredEvent ==
  ASSUME Gentle
  PROVE  Spec => []StopLeavesNoStoredEvent
  <1>1. CInv /\ UnlessDisturbed => StopLeavesNoStoredEvent
    <2> SUFFICES ASSUME NInv, proc = "exited", NEW e \in mongo
                 PROVE  ~InFlight(e)
      BY DEF UnlessDisturbed, StopLeavesNoStoredEvent
    <2>1. e \in Events /\ \A h \in Handlers : handler[h].pc = "idle"
      BY DEF NInv, Orderly, CInv, TypeOK, StoresOK
    <2>2. NoneWaits(e)
      BY <2>1 DEF NInv, Tracked, Unknown, Over, Ready, Handled
    <2>3. QED
      BY <2>1, <2>2 DEF InFlight, NoneWaits
  <1>2. QED
    BY <1>1, UnlessDisturbedAlways, PTL
=============================================================================
