---------------------------- MODULE EventProducer ----------------------------
(***************************************************************************)
(* The publishing side of the ingest API: EventProducer with its circuit   *)
(* breaker and retry strategy, the ConfirmChannelManager that makes its    *)
(* channel on demand, and the AMQPConnection underneath, which forgets a   *)
(* connection only through the listeners it registers at the end of        *)
(* connect().                                                              *)
(*                                                                         *)
(* Every HTTP request is a call of publishApiHits; calls overlap and share *)
(* the breaker, the channel and one attempt to make it.  Promise           *)
(* continuations run before the next event of the loop: while one is due   *)
(* (~Quiet) no I/O event, timer or request is handled.                     *)
(***************************************************************************)
EXTENDS CircuitBreaker, FiniteSets

CONSTANTS
    Calls,              \* calls of publishApiHits, one per event
    ConfirmModes,       \* values globalConfig.amqp.publisherConfirm may have
    maxRetries,         \* RetryStrategy.maxRetries
    MaxLosses,          \* bound: connections lost, attempts to connect failed, restarts
    MaxNacks,           \* bound: messages the broker refuses in confirm mode
    Backpressure        \* may channel.publish return false?

ASSUME ProducerAssumption ==
    /\ IsFiniteSet(Calls)
    /\ maxRetries \in Nat /\ MaxLosses \in Nat /\ MaxNacks \in Nat
    /\ ConfirmModes \subseteq BOOLEAN
    /\ Backpressure \in BOOLEAN

VARIABLES
    breaker,   \* EventProducer.circuitBreaker
    call,      \* the calls of publishApiHits
    conn,      \* AMQPConnection.connection
    chan,      \* ConfirmChannelManager: its channel, or the attempt to make one
    buffer,    \* messages written to the channel and not yet with the broker
    broker,    \* copies of each call's message the main queue has received
    losses, nacks,
    publisherConfirm   \* globalConfig.amqp.publisherConfirm: read once

vars == <<breaker, call, conn, chan, buffer, broker, losses, nacks, publisherConfirm>>

\* conn "stale": closed, but with no listener registered that would forget it.
\* chan "dial", "setup", "opening": isConnecting, in amqp.connect, in the
\* declaration of the queues, in createConfirmChannel; "broken": the
\* connection, or the channel alone, is dead and the process has not noticed.
\* A call that is "hung" is never answered.
Connecting == {"dial", "setup", "opening"}

Waiting == {"connect", "wait", "drain", "confirm", "backoff"}
Due == {"resolved", "threw"}               \* promise continuations
Answered == {"accepted", "rejected", "failed"}

Call == [pc : {"new", "hung"} \union Waiting \union Due \union Answered,
         attempt : 0..maxRetries]

TypeOK ==
    /\ breaker \in Breaker /\ CountersSane(breaker)
    /\ call \in [Calls -> Call]
    /\ conn \in {"none", "up", "stale"}
    /\ chan \in {"none", "open", "broken"} \union Connecting
    /\ buffer \subseteq Calls
    /\ broker \in [Calls -> Nat]
    /\ losses \in 0..MaxLosses
    /\ nacks \in 0..MaxNacks
    /\ publisherConfirm \in ConfirmModes

\* The server listens once amqpConnection.connect() has returned.
Init ==
    /\ breaker = NewBreaker
    /\ call = [c \in Calls |-> [pc |-> "new", attempt |-> 0]]
    /\ conn = "up"
    /\ chan = "none"
    /\ buffer = {}
    /\ broker = [c \in Calls |-> 0]
    /\ losses = 0 /\ nacks = 0
    /\ publisherConfirm \in ConfirmModes

At(pc) == {c \in Calls : call[c].pc = pc}

Quiet == At("resolved") \union At("threw") = {}

\* The calls of S move to pc.
Move(S, pc) == [c \in Calls |-> IF c \in S THEN [call[c] EXCEPT !.pc = pc] ELSE call[c]]

-----------------------------------------------------------------------------
(* publish.                                                                 *)

\* A producer that takes a confirm channel's write for a confirmation.
AwaitsNothing(c, held) == "resolved"

\* What a call awaits when it has written its message; `held' are the calls
\* for which channel.publish returned false.
Awaits(c, held) ==
    IF publisherConfirm THEN "confirm"
    ELSE IF c \in held THEN "drain" ELSE "resolved"

\* The calls of S write their messages.  What is written on a connection that
\* is dead goes nowhere.
Write(S, alive) ==
    \E held \in SUBSET S :
        /\ held # {} => Backpressure /\ ~publisherConfirm
        /\ call' = [c \in Calls |-> IF c \in S THEN [call[c] EXCEPT !.pc = Awaits(c, held)]
                                    ELSE call[c]]
        /\ buffer' = IF alive THEN buffer \union S ELSE buffer

\* A manager that connects for every call that finds no channel.
GetChannelAlone(c) ==
    \/ /\ chan \in {"open", "broken"}
       /\ Write({c}, chan = "open")
       /\ UNCHANGED chan
    \/ /\ chan \notin {"open", "broken"}
       /\ call' = Move({c}, "connect")
       /\ chan' = IF conn = "none" THEN "dial" ELSE "opening"
       /\ UNCHANGED buffer

\* getChannel, and the write if it has a channel already.
GetChannel(c) ==
    \/ /\ chan \in {"open", "broken"}
       /\ Write({c}, chan = "open")
       /\ UNCHANGED chan
    \/ /\ chan \in Connecting
       /\ call' = Move({c}, "wait")
       /\ UNCHANGED <<chan, buffer>>
    \/ /\ chan = "none"
       /\ call' = Move({c}, "connect")
       /\ chan' = IF conn = "none" THEN "dial" ELSE "opening"
       /\ UNCHANGED buffer

\* A producer that publishes before it asks the breaker.
PublishThenAsk(c) ==
    /\ Quiet /\ c \in At("new")
    /\ breaker' = AfterAsking(breaker)
    /\ \/ Allowed(breaker) /\ GetChannel(c)
       \/ /\ ~Allowed(breaker)
          /\ call' = Move({c}, "rejected")
          /\ buffer' = IF chan = "open" THEN buffer \union {c} ELSE buffer
          /\ UNCHANGED chan
    /\ UNCHANGED <<conn, broker, losses, nacks, publisherConfirm>>

\* publishApiHits up to its first await.
Publish(c) ==
    /\ Quiet /\ c \in At("new")
    /\ breaker' = AfterAsking(breaker)
    /\ IF Allowed(breaker) THEN GetChannel(c)
       ELSE call' = Move({c}, "rejected") /\ UNCHANGED <<chan, buffer>>
    /\ UNCHANGED <<conn, broker, losses, nacks, publisherConfirm>>

\* await this.publish() returns.
Accept(c) ==
    /\ c \in At("resolved")
    /\ breaker' = OnSuccess(breaker)
    /\ call' = Move({c}, "accepted")
    /\ UNCHANGED <<conn, chan, buffer, broker, losses, nacks, publisherConfirm>>

\* A strategy that retries once too often.
ShouldRetryInclusive(attempt) == attempt <= maxRetries

ShouldRetry(attempt) == attempt < maxRetries

\* A producer that does not count its attempts.
FailUncounted(c) ==
    /\ c \in At("threw")
    /\ breaker' = OnFailure(breaker)
    /\ call' = IF ShouldRetry(call[c].attempt) THEN Move({c}, "backoff")
               ELSE Move({c}, "failed")
    /\ UNCHANGED <<conn, chan, buffer, broker, losses, nacks, publisherConfirm>>

\* await this.publish() throws.  (The code counts the attempt when the timer
\* has fired; nothing reads it before that.)
Fail(c) ==
    /\ c \in At("threw")
    /\ breaker' = OnFailure(breaker)
    /\ call' = IF ShouldRetry(call[c].attempt)
               THEN [call EXCEPT ![c] = [pc |-> "backoff", attempt |-> @.attempt + 1]]
               ELSE Move({c}, "failed")
    /\ UNCHANGED <<conn, chan, buffer, broker, losses, nacks, publisherConfirm>>

\* waitForRetry resolves: publish again, whatever the breaker says by now.
Retry(c) ==
    /\ Quiet /\ c \in At("backoff")
    /\ GetChannel(c)
    /\ UNCHANGED <<breaker, conn, broker, losses, nacks, publisherConfirm>>

-----------------------------------------------------------------------------
(* ConfirmChannelManager.connect and AMQPConnection.connect.                *)

\* A manager that forgets the waiters of an attempt that failed.
ConnectThrowsAlone == call' = Move(At("connect"), "threw") /\ chan' = "none"

\* The attempt fails, for the call that made it and for its waiters.
ConnectThrows ==
    /\ call' = Move(At("connect") \union At("wait"), "threw")
    /\ chan' = "none"

\* amqp.connect and createChannel succeed.
Dial ==
    /\ Quiet /\ chan = "dial"
    /\ conn' = "up" /\ chan' = "setup"
    /\ UNCHANGED <<breaker, call, buffer, broker, losses, nacks, publisherConfirm>>

\* amqp.connect fails, or createChannel on a connection that closes meanwhile
\* and that this.connection holds already.
DialFails ==
    /\ Quiet /\ chan = "dial"
    /\ losses < MaxLosses /\ losses' = losses + 1
    /\ conn' \in {"none", "stale"}
    /\ ConnectThrows
    /\ UNCHANGED <<breaker, buffer, broker, nacks, publisherConfirm>>

\* setupDLQ and setupMainQueue return; the listeners are registered.
SetUp ==
    /\ Quiet /\ chan = "setup"
    /\ chan' = "opening"
    /\ UNCHANGED <<breaker, call, conn, buffer, broker, losses, nacks, publisherConfirm>>

\* The broker closes the connection meanwhile: connect() throws, and
\* this.connection stays, with no listener to clear it.
SetUpFails ==
    /\ Quiet /\ chan = "setup"
    /\ losses < MaxLosses /\ losses' = losses + 1
    /\ conn' = "stale"
    /\ ConnectThrows
    /\ UNCHANGED <<breaker, buffer, broker, nacks, publisherConfirm>>

\* createConfirmChannel returns: the attempt and its waiters all write.
OpenChannel ==
    /\ Quiet /\ chan = "opening" /\ conn = "up"
    /\ chan' = "open"
    /\ Write(At("connect") \union At("wait"), TRUE)
    /\ UNCHANGED <<breaker, conn, broker, losses, nacks, publisherConfirm>>

\* createConfirmChannel throws: the connection is closed, or closes now.
OpenChannelFails ==
    /\ Quiet /\ chan = "opening"
    /\ \/ conn = "stale" /\ UNCHANGED <<conn, losses>>
       \/ /\ conn = "up" /\ conn' = "none"
          /\ losses < MaxLosses /\ losses' = losses + 1
    /\ ConnectThrows
    /\ UNCHANGED <<breaker, buffer, broker, nacks, publisherConfirm>>

-----------------------------------------------------------------------------
(* The broker and the network.                                              *)

Flush(c) ==
    /\ c \in buffer
    /\ buffer' = buffer \ {c}
    /\ broker' = [broker EXCEPT ![c] = @ + 1]
    /\ UNCHANGED <<breaker, call, conn, chan, losses, nacks, publisherConfirm>>

\* The confirm callback without an error.
Confirm(c) ==
    /\ Quiet /\ chan = "open" /\ c \in At("confirm") \ buffer
    /\ call' = Move({c}, "resolved")
    /\ UNCHANGED <<breaker, conn, chan, buffer, broker, losses, nacks, publisherConfirm>>

\* The confirm callback with an error: the broker did not take the message.
Nack(c) ==
    /\ Quiet /\ chan = "open" /\ c \in At("confirm") \intersect buffer
    /\ nacks < MaxNacks /\ nacks' = nacks + 1
    /\ buffer' = buffer \ {c}
    /\ call' = Move({c}, "threw")
    /\ UNCHANGED <<breaker, conn, chan, broker, losses, publisherConfirm>>

\* The channel emits "drain".
Drain ==
    /\ Quiet /\ chan = "open" /\ buffer = {} /\ At("drain") # {}
    /\ call' = Move(At("drain"), "resolved")
    /\ UNCHANGED <<breaker, conn, chan, buffer, broker, losses, nacks, publisherConfirm>>

\* The connection is lost; what was not sent is lost with it.  With no channel
\* in use the close event is all there is to see.
LoseConnection ==
    /\ conn = "up" /\ chan \in {"none", "open"}
    /\ losses < MaxLosses /\ losses' = losses + 1
    /\ \/ chan = "none" /\ conn' = "none" /\ UNCHANGED chan
       \/ chan = "open" /\ chan' = "broken" /\ UNCHANGED conn
    /\ buffer' = {}
    /\ UNCHANGED <<breaker, call, broker, nacks, publisherConfirm>>

\* The channel's events.  On "close" nobody tells the calls that wait for
\* "drain", and amqplib rejects the confirmations that are out, in their order,
\* up to the first that an answer has overtaken.  An "error" of the channel alone
\* leaves the connection; the manager emits it once more, to nobody, and that
\* throws before the rejections.
NoticeClose ==
    /\ Quiet /\ chan = "broken"
    /\ conn' \in {"none", "up"} /\ chan' = "none"
    /\ \E told \in SUBSET At("confirm") :
         call' = [c \in Calls |->
                    IF c \in told THEN [call[c] EXCEPT !.pc = "threw"]
                    ELSE IF call[c].pc \in {"confirm", "drain"}
                         THEN [call[c] EXCEPT !.pc = "hung"] ELSE call[c]]
    /\ UNCHANGED <<breaker, buffer, broker, losses, nacks, publisherConfirm>>

\* The process ends, be it by the exception that nobody catches, and Docker
\* starts the next; the requests it had are never answered.
Restart ==
    /\ Quiet
    /\ losses < MaxLosses /\ losses' = losses + 1
    /\ breaker' = NewBreaker
    /\ conn' = "up" /\ chan' = "none" /\ buffer' = {}
    /\ call' = Move({c \in Calls : call[c].pc \in Waiting}, "hung")
    /\ UNCHANGED <<broker, nacks, publisherConfirm>>

\* cooldownTimeInMs goes by without a failure.
TimePasses ==
    /\ breaker' = Cooldown(breaker)
    /\ UNCHANGED <<call, conn, chan, buffer, broker, losses, nacks, publisherConfirm>>

ConnectStep == \/ Dial \/ DialFails \/ SetUp \/ SetUpFails
               \/ OpenChannel \/ OpenChannelFails

CallStep(c) == Accept(c) \/ Fail(c) \/ Retry(c) \/ Flush(c) \/ Confirm(c) \/ Nack(c)

Next ==
    \/ \E c \in Calls : Publish(c) \/ CallStep(c)
    \/ ConnectStep
    \/ Drain
    \/ LoseConnection \/ NoticeClose \/ Restart
    \/ TimePasses

\* Continuations run and timers fire; an attempt to connect ends, one way or
\* the other; the broker takes and confirms what reaches it; a dead connection
\* is noticed (heartbeats).  Requests and faults come as they please.
Fairness ==
    /\ \A c \in Calls : WF_vars(CallStep(c))
    /\ WF_vars(ConnectStep) /\ WF_vars(Drain)
    /\ WF_vars(NoticeClose) /\ WF_vars(TimePasses)

Spec == Init /\ [][Next]_vars /\ Fairness

-----------------------------------------------------------------------------
(* Properties.                                                              *)

\* With publisher confirms, a 202 means that the main queue has the event:
\* whatever was lost, refused, retried or waited for in between.
AcceptedIsDelivered ==
    publisherConfirm => \A c \in At("accepted") : broker[c] >= 1

\* A retry may duplicate a message whose confirmation was lost, but no event
\* reaches the queue more often than it has been attempted.
CopiesBounded == \A c \in Calls : broker[c] <= call[c].attempt + 1

\* confirmChannelManager.ts:32: one attempt to connect at a time, and nobody
\* waits for an attempt that nobody makes.
OneConnectAttempt ==
    /\ \A c, d \in At("connect") : c = d
    /\ At("connect") # {} <=> chan \in Connecting
    /\ At("wait") # {} => At("connect") # {}

\* The contract with the HTTP layer (module Publishing): an answer is final and
\* true.  A rejected event never reaches the queue, a failed one not after its
\* answer, an accepted one has reached it if confirms are on.
Answers == [c \in Calls |-> IF call[c].pc \in Answered THEN call[c].pc ELSE "open"]

Contract == INSTANCE Publishing WITH
    MaxAttempts <- maxRetries + 1,
    answer <- Answers, copies <- broker, confirms <- publisherConfirm

AnswersAreTrue == Contract!Spec

\* No call waits for ever for a channel: whether it makes the attempt to connect or
\* waits for another's, it has the channel in the end or the attempt's error, however
\* often attempts fail, connections die half set up and calls come to wait.
NobodyWaitsForever ==
    \A c \in Calls : call[c].pc \in {"connect", "wait"} ~>
                      call[c].pc \notin {"connect", "wait"}

\* A half-open breaker that has spent its probes hears from them, unless a call
\* hangs (and that may be a probe).
ProbesDecide ==
    (/\ breaker.state = "HALF_OPEN"
     /\ breaker.halfOpenStateAttempts = halfOpenStateMaxAttempts)
        ~> breaker.state # "HALF_OPEN" \/ At("hung") # {}
=============================================================================
