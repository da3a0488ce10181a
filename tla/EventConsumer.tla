--------------------------- MODULE EventConsumer ----------------------------
(***************************************************************************)
(* The consumer process of ServerStats: EventConsumer (consumer.ts) with   *)
(* the ProcessorService it calls, its idempotency store, its retry         *)
(* strategy, its circuit breaker, and ConsumerStartup, which turns an      *)
(* unhandled rejection into process.exit(1) and which Docker restarts.     *)
(*                                                                         *)
(* Several messages are handled at once (prefetch); every await of         *)
(* handleMessage is a point where other handlers, timers, the channel and  *)
(* the process may move, so a handler is a small state machine and one     *)
(* action runs from one await to the next.  RabbitMQ is modelled from how  *)
(* amqplib is used: unsettled deliveries go back to the queue when their   *)
(* channel goes, delivery tags start again at 1 on a new channel, and an   *)
(* operation on a closed channel throws.                                   *)
(***************************************************************************)
EXTENDS CircuitBreaker, FiniteSets

CONSTANTS
    Events,             \* the monitored API hits (one eventId = messageId each)
    Malformed,          \* those whose message fails PublishingEventDataTypeSchema
    Handlers,           \* handleMessage invocations that may overlap (a bound)
    prefetchCount,      \* unsettled deliveries per channel
    maxRetries,         \* RetryStrategy.maxRetries
    postgresUpsertRetryAttempts,
    MaxPublish,         \* bound: copies of an event the producer publishes
    MaxChannelLosses,   \* bound: channels lost, to the network or to a bad tag
    MaxConsumeLosses,   \* bound: more of them, under a pending consume()
    MaxKills,           \* bound: kills of the process
    MaxSignals,         \* bound: termination signals
    MaxDisturbances,    \* bound: losses, kills and signals together
    StartMayFail,       \* may EventConsumer.start() fail?
    DrainMayTimeOut,    \* may 30 seconds be too short for the active messages?
    MongoFaults,        \* how the raw insert may fail
    PostgresFaults,     \* how the metrics upsert may fail
    RedisMayFail,       \* may Redis be unreachable, or forget a key?
    Backpressure        \* may sendToQueue return false?

Failure == {"retryable", "permanent", "numeric", "lostReply"}

ASSUME ConsumerAssumption ==
    /\ Malformed \subseteq Events
    /\ IsFiniteSet(Handlers)
    /\ prefetchCount \in Nat \ {0}
    /\ maxRetries \in Nat
    /\ postgresUpsertRetryAttempts \in Nat \ {0}
    /\ MaxPublish \in Nat /\ MaxChannelLosses \in Nat
    /\ MaxConsumeLosses \in Nat /\ MaxDisturbances \in Nat
    /\ MaxKills \in Nat /\ MaxSignals \in Nat /\ DrainMayTimeOut \in BOOLEAN
    /\ StartMayFail \in BOOLEAN
    /\ MongoFaults \subseteq Failure
    /\ PostgresFaults \subseteq {"failed", "lostReply"}
    /\ RedisMayFail \in BOOLEAN /\ Backpressure \in BOOLEAN

VARIABLES
    proc,        \* the consumer process
    chan,        \* this.channel, and what the broker thinks of it
    link,        \* reconnect loops, and what they have set up on the channel
    breaker,     \* this.circuitBreaker
    handler,     \* the handleMessage invocations
    timers,      \* armed retry timers, by the message they will republish
    queue,       \* RabbitMQ: messages ready in the main queue
    dlq,         \* RabbitMQ: what has been dead-lettered
    forsaken,    \* history: events a copy of which went for good (see below)
    published,   \* copies of each event published by the producer
    mongo,       \* apiHits: events with a raw document (unique eventId)
    metrics,     \* endpoint_metrics: times each event has been counted
    processed,   \* Redis: events marked as processed
    losses,      \* channels lost so far
    kills,       \* kills so far
    signals      \* termination signals so far

external == <<published, kills, signals>>
stores == <<mongo, metrics, processed>>
vars == <<proc, link, chan, breaker, handler, timers, queue, dlq, forsaken,
          mongo, metrics, processed, published, losses, kills, signals>>

\* A message as the consumer sees it: its event and its x-retry-count header.
Message == [ev : Events, retry : 0..maxRetries]

\* The consumer dead-letters a wrapper around the message it parsed; the
\* broker dead-letters the raw message when it is rejected.
DeadLetter == [ev : Events, form : {"wrapped", "raw"}]

\* A delivery is "live" while its tag is outstanding on the current channel,
\* "gone" once another handler has settled it, "stale" when its channel is
\* gone, "settled" when its handler has settled it.
Idle == [pc |-> "idle"]
Handling == [pc : {"paused", "check", "save", "upsert", "mark"},
             msg : Message,
             delivery : {"live", "gone", "stale", "settled"},
             attempt : 0..(postgresUpsertRetryAttempts - 1)]

Handler == Handling \union {Idle}

\* The calls of reconnectToChannel: those that wait for a channel or for their
\* delay, and those that wait for the answer to consume(); then the "close"
\* listeners of the consumer on its channel, and its consumers there.
Link == [waiting : Nat, consuming : Nat, listeners : Nat, consumers : Nat]

NoLink == [waiting |-> 0, consuming |-> 0, listeners |-> 0, consumers |-> 0]

\* The consumer process and its broker.
MachineOK ==
    /\ proc \in {"running", "idle", "draining", "stopping", "exited", "crashed"}
    /\ chan \in {"null", "open", "broken", "closed"}
    /\ link \in Link
    /\ breaker \in Breaker /\ CountersSane(breaker)
    /\ handler \in [Handlers -> Handler]
    /\ timers \in [Message -> Nat]
    /\ queue \in [Message -> Nat]
    /\ dlq \subseteq DeadLetter
    /\ losses \in Nat
    /\ forsaken \subseteq Events

StoresOK ==
    /\ mongo \subseteq Events
    /\ metrics \in [Events -> Nat]
    /\ processed \subseteq Events

TypeOK ==
    /\ MachineOK
    /\ StoresOK
    /\ published \in [Events -> Nat]
    /\ kills \in Nat
    /\ signals \in Nat

Init ==
    /\ proc = "exited"
    /\ chan = "null"
    /\ link = NoLink
    /\ breaker = NewBreaker
    /\ handler = [h \in Handlers |-> Idle]
    /\ timers = [m \in Message |-> 0]
    /\ queue = [m \in Message |-> 0]
    /\ dlq = {}
    /\ forsaken = {}
    /\ published = [e \in Events |-> 0]
    /\ mongo = {}
    /\ metrics = [e \in Events |-> 0]
    /\ processed = {}
    /\ losses = 0
    /\ kills = 0
    /\ signals = 0

-----------------------------------------------------------------------------
(* Handlers, and the broker's side of a channel.                           *)

At(h, pc) == handler[h].pc = pc

\* this.activeMessages counts these.
Active == {h \in Handlers : handler[h].pc \in {"check", "save", "upsert", "mark"}}

Outstanding ==
    {h \in Handlers : handler[h].pc # "idle" /\ handler[h].delivery = "live"}

\* The queue after the broker has taken back every unsettled delivery.
Requeued ==
    [m \in Message |->
        queue[m] + Cardinality({h \in Outstanding : handler[h].msg = m})]

\* The world may disturb the process once more.
MayDisturb == losses + kills + signals < MaxDisturbances

\* A handler whose channel is gone holds a stale delivery tag.
Detached(r) ==
    IF r.pc # "idle" /\ r.delivery # "settled"
    THEN [r EXCEPT !.delivery = "stale"] ELSE r

\* What the broker does with message m of a settled delivery.
Receive(m, verdict, sent) ==
    /\ queue' = IF verdict = "requeue" THEN [queue EXCEPT ![m] = @ + 1]
                ELSE queue
    /\ dlq' = dlq \union sent \union
              (IF verdict = "reject" THEN {[ev |-> m.ev, form |-> "raw"]} ELSE {})

\* channel.ack / channel.nack of h's delivery, on this.channel, right after
\* publishing `sent' on it; handler h goes on as `after'.  The tag of a stale
\* delivery may equal that of any delivery outstanding on the new channel; a
\* tag the broker does not know makes it close the channel
\* (PRECONDITION_FAILED), which the client has not noticed yet.
SettleOwn(h, verdict, after, sent) ==
    /\ chan = "open" /\ handler[h].delivery = "live"
    /\ Receive(handler[h].msg, verdict, sent)
    /\ handler' = [handler EXCEPT ![h] = after]
    /\ UNCHANGED <<chan, losses, forsaken>>

SettleOther(h, verdict, after, sent) ==
    /\ chan = "open" /\ handler[h].delivery = "stale"
    /\ \E g \in Outstanding :
         /\ Receive(handler[g].msg, verdict, sent)
         /\ handler' = [handler EXCEPT ![h] = after, ![g].delivery = "gone"]
         /\ forsaken' = IF verdict = "ack" THEN forsaken \union {handler[g].msg.ev}
                        ELSE forsaken
    /\ UNCHANGED <<chan, losses>>

SettleUnknown(h, verdict, after, sent) ==
    /\ chan = "open" /\ handler[h].delivery \in {"stale", "gone"}
    /\ queue' = Requeued
    /\ dlq' = dlq \union sent
    /\ handler' = [g \in Handlers |->
                      IF g = h THEN after ELSE Detached(handler[g])]
    /\ chan' = "broken"
    /\ losses < MaxChannelLosses /\ MayDisturb /\ losses' = losses + 1
    /\ UNCHANGED forsaken

\* On a channel that is broken unnoticed, every operation is silently lost.
SettleLost(h, after) ==
    /\ chan = "broken"
    /\ handler' = [handler EXCEPT ![h] = after]
    /\ UNCHANGED <<chan, queue, dlq, losses, forsaken>>

Settle(h, verdict, after, sent) ==
    \/ SettleOwn(h, verdict, after, sent)
    \/ SettleOther(h, verdict, after, sent)
    \/ SettleUnknown(h, verdict, after, sent)
    \/ SettleLost(h, after)

\* The process ends: its memory is gone, and with it what only a retry timer
\* held; its deliveries return to the queue.
Exit(how) ==
    /\ proc' = how
    /\ chan' = "null"
    /\ link' = NoLink
    /\ breaker' = NewBreaker
    /\ handler' = [h \in Handlers |-> Idle]
    /\ timers' = [m \in Message |-> 0]
    /\ queue' = Requeued
    /\ forsaken' = forsaken \union {m.ev : m \in {n \in Message : timers[n] > 0}}
    /\ UNCHANGED <<dlq, losses>>

\* unhandledRejection and uncaughtException call process.exit(1).
ExitUnhandled == Exit("crashed")
-----------------------------------------------------------------------------
(* How a handler fails.                                                    *)

\* RetryStrategy.shouldRetry.
ShouldRetry(attempt) == attempt < maxRetries

\* isRetryableError.  A MongoServerError carries a numeric code, on which
\* error.code.toUpperCase() throws (HandleError); a network error of the
\* driver ("lostReply") carries neither a code nor a statusCode.
IsRetryable(failure) == failure = "retryable"

\* A consumer that drops what it cannot process.
DropMessage(h) ==
    /\ Settle(h, "ack", Idle, {})
    /\ breaker' = OnFailure(breaker)
    /\ UNCHANGED <<proc, link, timers>>

\* Dead-letter h's message.  sendToQueue answers false under backpressure,
\* although the message is buffered and will be sent; the code then rejects
\* the delivery, which the broker dead-letters too.  On a closed channel
\* sendToQueue throws and so does the nack in the catch block.
SendToDLQ(h) ==
    LET wrapped == {[ev |-> handler[h].msg.ev, form |-> "wrapped"]}
    IN  \/ /\ \/ Settle(h, "ack", Idle, wrapped)
              \/ Backpressure /\ Settle(h, "reject", Idle, wrapped)
           /\ breaker' = OnFailure(breaker)
           /\ UNCHANGED <<proc, link, timers>>
        \/ chan = "closed" /\ ExitUnhandled
        \/ /\ chan = "null"
           /\ handler' = [handler EXCEPT ![h] = Idle]
           /\ breaker' = OnFailure(breaker)
           /\ UNCHANGED <<proc, link, chan, timers, queue, dlq, losses, forsaken>>

\* Arm a timer that will republish the message, and acknowledge it at once.
RetryMessage(h) ==
    LET m == [handler[h].msg EXCEPT !.retry = @ + 1]
    IN  \/ /\ Settle(h, "ack", Idle, {})
           /\ timers' = [timers EXCEPT ![m] = @ + 1]
           /\ breaker' = OnFailure(breaker)
           /\ UNCHANGED <<proc, link>>
        \/ chan = "closed" /\ ExitUnhandled
        \/ /\ chan = "null"
           /\ handler' = [handler EXCEPT ![h] = Idle]
           /\ timers' = [timers EXCEPT ![m] = @ + 1]
           /\ breaker' = OnFailure(breaker)
           /\ UNCHANGED <<proc, link, chan, queue, dlq, losses, forsaken>>

\* handleProcessingError
HandleError(h, failure) ==
    \/ failure = "numeric" /\ ExitUnhandled
    \/ /\ failure # "numeric"
       /\ IsRetryable(failure) /\ ShouldRetry(handler[h].msg.retry)
       /\ RetryMessage(h)
    \/ /\ failure # "numeric"
       /\ ~(IsRetryable(failure) /\ ShouldRetry(handler[h].msg.retry))
       /\ SendToDLQ(h)

\* this.channel.ack(msg) inside the try block of handleMessage; `after' and
\* `b' are the handler and the breaker if it returns.  If it throws, the error
\* has neither code nor statusCode.
AckOrFail(h, after, b) ==
    \/ /\ Settle(h, "ack", after, {})
       /\ breaker' = b
       /\ UNCHANGED <<proc, link, timers>>
    \/ chan \in {"closed", "null"} /\ HandleError(h, "permanent")

-----------------------------------------------------------------------------
(* handleMessage, one action per await.                                    *)

\* The broker delivers m to one of the consumers, each of which has a prefetch of
\* its own; handleMessage runs to its first await.
Deliver(h, m) ==
    /\ chan = "open"
    /\ queue[m] > 0
    /\ Cardinality(Outstanding) < prefetchCount * link.consumers
    /\ At(h, "idle")
    /\ handler' = [handler EXCEPT ![h] =
                     [pc |-> IF Allowed(breaker) THEN "check" ELSE "paused",
                      msg |-> m, delivery |-> "live", attempt |-> 0]]
    /\ breaker' = AfterAsking(breaker)
    /\ queue' = [queue EXCEPT ![m] = @ - 1]
    /\ UNCHANGED <<proc, link, chan, timers, dlq, stores, external, losses, forsaken>>

\* The breaker said no: one second later, nack with requeue.  This await is
\* outside the try block.
RequeuePaused(h) ==
    /\ At(h, "paused")
    /\ \/ /\ Settle(h, "requeue", Idle, {})
          /\ UNCHANGED <<proc, link, breaker, timers>>
       \/ chan \in {"closed", "null"} /\ ExitUnhandled
    /\ UNCHANGED <<stores, external>>

RejectMalformed(h) ==
    /\ At(h, "check")
    /\ handler[h].msg.ev \in Malformed
    /\ HandleError(h, "permanent")
    /\ UNCHANGED <<stores, external>>

\* hasProcessed said yes: acknowledge, and tell the breaker nothing.
SkipDuplicate(h) ==
    /\ At(h, "check")
    /\ handler[h].msg.ev \in processed
    /\ AckOrFail(h, Idle, breaker)
    /\ UNCHANGED <<stores, external>>

\* hasProcessed said no, or failed open.
PassCheck(h) ==
    /\ At(h, "check")
    /\ handler[h].msg.ev \notin Malformed
    /\ handler[h].msg.ev \notin processed \/ RedisMayFail
    /\ handler' = [handler EXCEPT ![h].pc = "save"]
    /\ UNCHANGED <<proc, link, chan, breaker, timers, queue, dlq, stores, external,
                   losses, forsaken>>

\* A collection without the unique index on eventId.
CanInsertAgain(e) == TRUE

\* The unique index on apiHits.eventId.
CanInsert(e) == e \notin mongo

\* A consumer that marks the event when its raw document is stored.
SaveAndMark(h) ==
    LET e == handler[h].msg.ev
    IN  /\ At(h, "save")
        /\ CanInsert(e)
        /\ mongo' = mongo \union {e}
        /\ processed' = processed \union {e}
        /\ handler' = [handler EXCEPT ![h].pc = "upsert"]
        /\ UNCHANGED <<proc, link, chan, breaker, timers, queue, dlq,
                       metrics, external, losses, forsaken>>

\* createApiHit returns.
SaveRawEvent(h) ==
    LET e == handler[h].msg.ev
    IN  /\ At(h, "save")
        /\ CanInsert(e)
        /\ mongo' = mongo \union {e}
        /\ handler' = [handler EXCEPT ![h].pc = "upsert"]
        /\ UNCHANGED <<proc, link, chan, breaker, timers, queue, dlq,
                       metrics, processed, external, losses, forsaken>>

\* createApiHit throws: E11000 (code 11000) if the document is there already,
\* else any fault of the database; a reply may be lost after the insert.
SaveRawEventFails(h) ==
    LET e == handler[h].msg.ev
    IN  /\ At(h, "save")
        /\ \/ /\ ~CanInsert(e)
              /\ HandleError(h, "numeric")
              /\ UNCHANGED mongo
           \/ \E failure \in MongoFaults :
                /\ HandleError(h, failure)
                /\ mongo' = IF failure = "lostReply" /\ CanInsert(e)
                            THEN mongo \union {e} ELSE mongo
        /\ UNCHANGED <<metrics, processed, external>>

\* processEvent has returned: ack, onSuccess, and on to markProcessed.
FinishProcessing(h) ==
    AckOrFail(h, [handler[h] EXCEPT !.pc = "mark", !.delivery = "settled"],
              OnSuccess(breaker))

\* A statement that adds the hit whatever the count was.
Counted(e) == [metrics EXCEPT ![e] = @ + 1]

\* An upsert loop that makes one attempt too many.
LastAttemptLate(attempt) == attempt = postgresUpsertRetryAttempts

LastAttempt(attempt) == attempt + 1 = postgresUpsertRetryAttempts

\* upsertEndpointMetrics: the attempt succeeds.
UpsertMetrics(h) ==
    /\ At(h, "upsert")
    /\ metrics' = Counted(handler[h].msg.ev)
    /\ FinishProcessing(h)
    /\ UNCHANGED <<mongo, processed, external>>

\* The attempt throws, perhaps after the statement was applied; after the last
\* attempt processEvent swallows the error.
UpsertMetricsFails(h) ==
    /\ At(h, "upsert")
    /\ \E fault \in PostgresFaults :
         metrics' = IF fault = "lostReply" THEN Counted(handler[h].msg.ev)
                    ELSE metrics
    /\ \/ /\ LastAttempt(handler[h].attempt)
          /\ FinishProcessing(h)
       \/ /\ ~LastAttempt(handler[h].attempt)
          /\ handler' = [handler EXCEPT ![h].attempt = @ + 1]
          /\ UNCHANGED <<proc, link, chan, breaker, timers, queue, dlq, losses, forsaken>>
    /\ UNCHANGED <<mongo, processed, external>>

\* markProcessed swallows a Redis error.
MarkProcessed(h) ==
    /\ At(h, "mark")
    /\ \/ processed' = processed \union {handler[h].msg.ev}
       \/ RedisMayFail /\ UNCHANGED processed
    /\ handler' = [handler EXCEPT ![h] = Idle]
    /\ UNCHANGED <<proc, link, chan, breaker, timers, queue, dlq,
                   mongo, metrics, external, losses, forsaken>>

\* The timer of retryMessage: publish on whatever this.channel is by now.  On
\* none, or on one that is broken unnoticed, the message is gone.
RetryTimerFires(m) ==
    /\ timers[m] > 0
    /\ \/ /\ chan # "closed"
          /\ timers' = [timers EXCEPT ![m] = @ - 1]
          /\ queue' = IF chan = "open" THEN [queue EXCEPT ![m] = @ + 1]
                      ELSE queue
          /\ forsaken' = IF chan = "open" THEN forsaken
                         ELSE forsaken \union {m.ev}
          /\ UNCHANGED <<proc, link, chan, breaker, handler, dlq, losses>>
       \/ chan = "closed" /\ ExitUnhandled
    /\ UNCHANGED <<stores, external>>

HandlerStep(h) ==
    \/ RequeuePaused(h) \/ RejectMalformed(h)
    \/ SkipDuplicate(h) \/ PassCheck(h)
    \/ SaveRawEvent(h) \/ SaveRawEventFails(h)
    \/ UpsertMetrics(h) \/ UpsertMetricsFails(h)
    \/ MarkProcessed(h)

-----------------------------------------------------------------------------
(* The channel, the process, and the world around them.                    *)

\* The connection drops: the broker takes the deliveries back at once.  (Two
\* consume() calls in one millisecond use one consumerTag, and the broker closes
\* the connection on them.)
LoseChannel ==
    /\ chan = "open"
    /\ MayDisturb
    /\ \/ losses < MaxChannelLosses
       \/ link.consuming > 0 /\ losses < MaxChannelLosses + MaxConsumeLosses
    /\ chan' = "broken"
    /\ queue' = Requeued
    /\ handler' = [h \in Handlers |-> Detached(handler[h])]
    /\ losses' = losses + 1
    /\ UNCHANGED <<proc, link, breaker, timers, dlq, stores, forsaken,
                   published, kills, signals>>

\* The reconnect loops there are once the channel has closed: a pending
\* consume() fails and its loop tries again, and while isRunning holds every
\* "close" listener starts a loop of its own.
LoopsAfterClose ==
    IF proc = "running" THEN link.waiting + link.consuming + link.listeners
    ELSE link.waiting

\* The client notices: the channel's "close" event and, unless the listener of
\* the channel manager throws first, its "error" event.  That throw (the manager
\* re-emits the error to nobody), and the answer a prefetch() nobody awaits will
\* not get, may end the process.
NoticeClose ==
    /\ chan = "broken"
    /\ \/ /\ chan' = "closed"
          /\ link' = [NoLink EXCEPT !.waiting = LoopsAfterClose]
          /\ breaker' \in {breaker, OnFailure(breaker)}
          /\ UNCHANGED <<proc, handler, timers, queue, dlq, losses, forsaken>>
       \/ ExitUnhandled
    /\ UNCHANGED <<stores, external>>

\* A consumer that listens only to the channel it started on.
ConnectUnheard ==
    /\ link.waiting > 0
    /\ chan' = IF chan \in {"closed", "null"} THEN "open" ELSE chan
    /\ link' = [link EXCEPT !.waiting = @ - 1, !.consuming = @ + 1]
    /\ UNCHANGED <<proc, breaker, handler, timers, queue, dlq, stores, external,
                   losses, forsaken>>

\* connectToMessageBroker in a reconnect loop: it gets a new channel or joins the
\* one another loop has made, listens to it, and calls consume().  A loop that is
\* past its check of isRunning goes on when stop() has begun.
ConnectToMessageBroker ==
    /\ link.waiting > 0
    /\ chan' = IF chan \in {"closed", "null"} THEN "open" ELSE chan
    /\ link' = [link EXCEPT !.waiting = @ - 1, !.consuming = @ + 1, !.listeners = @ + 1]
    /\ UNCHANGED <<proc, breaker, handler, timers, queue, dlq, stores, external,
                   losses, forsaken>>

\* The broker answers consume(), and the loop returns.
StartConsuming ==
    /\ chan = "open" /\ link.consuming > 0
    /\ link' = [link EXCEPT !.consuming = @ - 1, !.consumers = @ + 1]
    /\ UNCHANGED <<proc, chan, breaker, handler, timers, queue, dlq, stores, external,
                   losses, forsaken>>

\* ConsumerStartup.start, by Docker's restart policy or by a deployment.
Start ==
    /\ proc \in {"exited", "crashed"}
    /\ proc' = "running"
    /\ chan' = "open"
    /\ link' = [NoLink EXCEPT !.listeners = 1, !.consumers = 1]
    /\ UNCHANGED <<breaker, handler, timers, queue, dlq, stores, external, losses, forsaken>>

\* start() meets an error once RabbitMQ or the databases are connected, stops the
\* consumer and returns: the startup loop takes that for a success, and what is
\* still connected keeps the process alive.  (With nothing connected it ends, and
\* Docker starts the next.)  When the error is a channel that closes under
\* consume(), its listener has begun to reconnect before stop() clears isRunning.
StartFails ==
    /\ StartMayFail
    /\ proc \in {"exited", "crashed"}
    /\ proc' = "idle"
    /\ \/ UNCHANGED <<chan, link, losses>>
       \/ /\ losses < MaxChannelLosses /\ MayDisturb /\ losses' = losses + 1
          /\ chan' = "closed"
          /\ link' = [NoLink EXCEPT !.waiting = 1]
    /\ UNCHANGED <<breaker, handler, timers, queue, dlq, stores, external, forsaken>>

\* SIGTERM or SIGINT: stop() waits for the active messages while the consumer
\* goes on receiving.
Shutdown ==
    /\ proc \in {"running", "idle"}
    /\ signals < MaxSignals /\ MayDisturb
    /\ proc' = "draining"
    /\ signals' = signals + 1
    /\ UNCHANGED <<link, chan, breaker, handler, timers, queue, dlq, stores,
                   forsaken, published, losses, kills>>

\* A shutdown that does not wait for the active messages.
DrainedAtOnce == TRUE

Drained == Active = {} \/ DrainMayTimeOut

\* Drained, or 30 seconds have gone by: the channel is closed and dropped (if
\* it is closed already, close() throws and it stays).
StopDone ==
    /\ proc = "draining"
    /\ Drained
    /\ proc' = "stopping"
    /\ chan' = IF chan \in {"open", "null"} THEN "null" ELSE "closed"
    /\ link' = [NoLink EXCEPT !.waiting = link.waiting]
    /\ queue' = Requeued
    /\ handler' = [h \in Handlers |-> Detached(handler[h])]
    /\ UNCHANGED <<breaker, timers, dlq, stores, external, losses, forsaken>>

\* The databases are disconnected and process.exit(0) runs.
ExitStopped ==
    /\ proc = "stopping"
    /\ Exit("exited")
    /\ UNCHANGED <<stores, external>>

\* The process is killed (OOM, host failure).
Kill ==
    /\ proc \in {"running", "idle", "draining", "stopping"}
    /\ kills < MaxKills /\ MayDisturb
    /\ kills' = kills + 1
    /\ Exit("exited")
    /\ UNCHANGED <<stores, published, signals>>

\* The producer publishes event e, perhaps once more because it never saw the
\* broker's confirmation (same messageId).
Publish(e) ==
    LET m == [ev |-> e, retry |-> 0]
    IN  /\ published[e] < MaxPublish
        /\ published' = [published EXCEPT ![e] = @ + 1]
        /\ queue' = [queue EXCEPT ![m] = @ + 1]
        /\ UNCHANGED <<proc, link, chan, breaker, handler, timers, dlq, stores,
                       losses, forsaken, kills, signals>>

\* The cooldown of the breaker goes by.
TimePasses ==
    /\ breaker' = Cooldown(breaker)
    /\ UNCHANGED <<proc, link, chan, handler, timers, queue, dlq, stores, external,
                   losses, forsaken>>

\* The idempotency key of e expires or is evicted.
ForgetProcessed(e) ==
    /\ RedisMayFail
    /\ e \in processed
    /\ processed' = processed \ {e}
    /\ UNCHANGED <<proc, link, chan, breaker, handler, timers, queue, dlq,
                   mongo, metrics, external, losses, forsaken>>

Next ==
    \/ \E h \in Handlers : HandlerStep(h)
    \/ \E h \in Handlers, m \in Message : Deliver(h, m)
    \/ \E m \in Message : RetryTimerFires(m)
    \/ \E e \in Events : Publish(e) \/ ForgetProcessed(e)
    \/ LoseChannel \/ NoticeClose \/ ConnectToMessageBroker \/ StartConsuming
    \/ Start \/ StartFails \/ Shutdown \/ StopDone \/ ExitStopped \/ Kill
    \/ TimePasses

\* Timers fire, promises settle, the broker delivers every ready message,
\* Docker restarts the process.  Nothing obliges the producer, the network,
\* the operator or a database fault to act.
Fairness ==
    /\ \A h \in Handlers : WF_vars(HandlerStep(h))
    /\ \A m \in Message : SF_vars(\E h \in Handlers : Deliver(h, m))
    /\ \A m \in Message : WF_vars(RetryTimerFires(m))
    /\ WF_vars(NoticeClose) /\ WF_vars(ConnectToMessageBroker)
    /\ WF_vars(StartConsuming) /\ WF_vars(Start)
    /\ WF_vars(StopDone) /\ WF_vars(ExitStopped)
    /\ WF_vars(TimePasses)

Spec == Init /\ [][Next]_vars /\ Fairness

-----------------------------------------------------------------------------
(* Properties.                                                             *)

\* Some copy of event e is still in the queue, in a timer or in a handler.
InFlight(e) ==
    \/ \E m \in Message : m.ev = e /\ (queue[m] > 0 \/ timers[m] > 0)
    \/ \E h \in Handlers : /\ handler[h].pc \notin {"idle", "mark"}
                          /\ handler[h].msg.ev = e

DeadLettered(e) == \E d \in dlq : d.ev = e

\* endpoint_metrics counts an event at most once per attempt of one upsert
\* loop, and only when its raw document is there: whatever is redelivered,
\* published twice, dead-lettered, forgotten by Redis or killed half-way, the
\* unique raw insert lets one handler at most into the additive upsert.
MetricsBounded ==
    \A e \in Events :
        /\ metrics[e] <= postgresUpsertRetryAttempts
        /\ metrics[e] > 0 => e \in mongo

\* When no reply of Postgres is lost, the count is exact or missing.
MetricsCountedOnce ==
    "lostReply" \notin PostgresFaults => \A e \in Events : metrics[e] <= 1

\* A message is skipped as a duplicate only if its event is stored: Redis never
\* holds the key of an event that Mongo does not hold.
MarkedOnlyIfStored == processed \subseteq mongo

\* No event disappears but in three ways: an event the producer published is stored,
\* dead-lettered or still has a copy in the queue, in a handler or in a retry timer,
\* unless it is forsaken: a retry timer that held it died with its process
\* (retryMessage acknowledges before the timer fires), or fired without a working
\* channel, or the stale tag of another handler acknowledged its delivery.
OnlyForsakenLost ==
    \A e \in Events : published[e] > 0 =>
        e \in mongo \/ DeadLettered(e) \/ InFlight(e) \/ e \in forsaken

\* A running consumer is never deaf for good (reconnectToChannel): on a channel,
\* whether its loss has been noticed or not, some "close" listener will start to
\* reconnect; without one, some loop is at it already; and at every moment there
\* is a consumer or a loop that will make one, whatever pending consume() the
\* channel closes on.
NeverDeaf ==
    proc = "running" =>
        /\ chan \in {"open", "broken"} => link.listeners > 0
        /\ chan \in {"closed", "null"} => link.waiting > 0
        /\ link.waiting + link.consuming + link.consumers > 0

\* stop() waits for the active messages (consumer.ts:381): when nothing but
\* shutdowns whose drains did not time out has ended the process and its
\* channels, no stored event is left in the queue, where the next process
\* would trip over it.
StopLeavesNoStoredEvent ==
    proc = "exited" /\ kills = 0 /\ losses = 0 =>
        \A e \in mongo : ~InFlight(e)

\* The contract with the stores (module Processing): an event is inserted once,
\* counted by the one upsert that follows its insert and never again, and marked
\* when that is over, whatever is redelivered, published twice, forgotten by
\* Redis, lost or killed half-way.
Counting(e) == \E h \in Handlers : At(h, "upsert") /\ handler[h].msg.ev = e

LifeOf(e) ==
    [stage |-> IF e \notin mongo THEN "unseen"
               ELSE IF Counting(e) THEN "counting" ELSE "settled",
     counted |-> metrics[e],
     key |-> IF e \in processed THEN "written" ELSE "absent"]

Contract == INSTANCE Processing WITH
    MaxCounts <- postgresUpsertRetryAttempts,
    life <- [e \in Events |-> LifeOf(e)]

ProcessedOnce == Contract!Spec

\* README "How it works": every event is processed, or goes to the dead-letter
\* queue; in the end nothing of it is left in flight.
EventuallySettled ==
    \A e \in Events :
        published[e] > 0 ~>
            (e \in mongo \/ DeadLettered(e)) /\ ~InFlight(e)
=============================================================================
