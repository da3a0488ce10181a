------------------------- MODULE EventProducer_proofs -------------------------
(***************************************************************************)
(* Proofs about EventProducer: its types, the single attempt to connect,   *)
(* the bound on copies and, with publisher confirms, that an accepted      *)
(* event is in the queue, for any number of calls, retries and losses.     *)
(***************************************************************************)
EXTENDS EventProducer, TLAPS

\* A new breaker is closed with clean counters.
LEMMA NewBreakerSane == NewBreaker \in Breaker /\ CountersSane(NewBreaker)
  BY ThresholdAssumption, HalfOpenAssumption
  DEF NewBreaker, Breaker, CircuitBreakerState, CountersSane

\* Every operation on the circuit breaker keeps the type of its record and the sanity of
\* its counters.
LEMMA BreakerStaysSane ==
  ASSUME NEW b \in Breaker, CountersSane(b)
  PROVE  /\ AfterAsking(b) \in Breaker /\ CountersSane(AfterAsking(b))
         /\ OnSuccess(b) \in Breaker /\ CountersSane(OnSuccess(b))
         /\ OnFailure(b) \in Breaker /\ CountersSane(OnFailure(b))
         /\ Cooldown(b) \in Breaker /\ CountersSane(Cooldown(b))
<1>1. ASSUME NEW c \in Breaker
      PROVE  /\ OpenCircuit(c) \in Breaker /\ CountersSane(OpenCircuit(c))
             /\ CloseCircuit(c) \in Breaker /\ CountersSane(CloseCircuit(c))
  <2> DEFINE r == ResetCounters(c)
             q == [r EXCEPT !.cooled = FALSE]
  <2>1. /\ r \in Breaker /\ r.failureCount = 0
        /\ r.halfOpenStateAttempts = 0 /\ r.halfOpenSuccessCount = 0
    BY DEF ResetCounters, Breaker
  <2>2. OpenCircuit(c) = [q EXCEPT !.state = "OPEN"] /\ CloseCircuit(c) = [r EXCEPT !.state = "CLOSED"]
    BY DEF OpenCircuit, CloseCircuit
  <2> HIDE DEF r
  <2>3. /\ q \in Breaker /\ q.failureCount = 0
        /\ q.halfOpenStateAttempts = 0 /\ q.halfOpenSuccessCount = 0
    BY <2>1 DEF Breaker
  <2> HIDE DEF q
  <2> QED
    BY <2>1, <2>2, <2>3, ThresholdAssumption, HalfOpenAssumption
    DEF Breaker, CircuitBreakerState, CountersSane
<1>2. AfterAsking(b) \in Breaker /\ CountersSane(AfterAsking(b))
  BY HalfOpenAssumption
  DEF AfterAsking, MoveToHalfOpenIfReady, ProbesLeft, Breaker, CircuitBreakerState, CountersSane
<1>3. OnSuccess(b) \in Breaker /\ CountersSane(OnSuccess(b))
  <2> DEFINE c == [b EXCEPT !.halfOpenSuccessCount = @ + 1]
  <2>1. /\ c \in Breaker /\ c.state = b.state /\ c.failureCount = b.failureCount
        /\ c.halfOpenStateAttempts = b.halfOpenStateAttempts /\ c.halfOpenSuccessCount \in Nat
    BY DEF Breaker
  <2>2. OnSuccess(b) = IF b.state # "HALF_OPEN" THEN b
                       ELSE IF c.halfOpenSuccessCount >= halfOpenStateMaxAttempts
                            THEN CloseCircuit(c) ELSE c
    BY DEF OnSuccess
  <2> HIDE DEF c
  <2> QED
    BY <1>1, <2>1, <2>2, HalfOpenAssumption DEF CountersSane
<1>4. OnFailure(b) \in Breaker /\ CountersSane(OnFailure(b))
  <2> DEFINE d == [b EXCEPT !.failureCount = @ + 1]
             c == [d EXCEPT !.cooled = FALSE]
  <2>1. OnFailure(b) = IF b.state = "HALF_OPEN" THEN OpenCircuit(b)
                       ELSE IF c.failureCount >= failureThreshold THEN OpenCircuit(c) ELSE c
    BY DEF OnFailure
  <2>2. d \in Breaker
    BY DEF Breaker
  <2>3. /\ c \in Breaker /\ c.failureCount \in Nat /\ c.state = b.state
        /\ c.halfOpenStateAttempts = b.halfOpenStateAttempts
        /\ c.halfOpenSuccessCount = b.halfOpenSuccessCount
    BY <2>2 DEF Breaker
  <2> HIDE DEF c
  <2> QED
    BY <1>1, <2>1, <2>3, ThresholdAssumption DEF CountersSane
<1>5. Cooldown(b) \in Breaker /\ CountersSane(Cooldown(b))
  BY DEF Cooldown, Breaker, CountersSane
<1> QED
  BY <1>2, <1>3, <1>4, <1>5

Steps == {"new", "hung"} \union Waiting \union Due \union Answered

\* Nothing is written and unsent without an open channel.
BufferInv == chan # "open" => buffer = {}

\* A message that is still in the buffer is not counted yet; a call that is
\* going to write has nothing left in it.
CopiesInv ==
    \A c \in Calls :
        /\ call[c].pc \in {"new", "connect", "wait", "backoff"} =>
             c \notin buffer /\ broker[c] <= call[c].attempt
        /\ call[c].pc = "threw" => c \notin buffer
        /\ c \in buffer => broker[c] <= call[c].attempt
        /\ broker[c] <= call[c].attempt + 1

\* A call that waits for its confirmation is on a channel that has been opened.
ConfirmInv ==
    \A c \in Calls :
        /\ call[c].pc = "confirm" => publisherConfirm /\ chan \in {"open", "broken"}
        /\ call[c].pc = "drain" => ~publisherConfirm

\* With confirms, a message that has left the buffer of an open channel is with
\* the broker, and so is that of a call which has been told so.
SentInv ==
    publisherConfirm =>
        \A c \in Calls :
            \/ call[c].pc \in {"resolved", "accepted"}
            \/ call[c].pc = "confirm" /\ chan = "open" /\ c \notin buffer
            => broker[c] # 0

\* What cannot reach the queue any more: a call that has not started has made
\* no attempt, one that failed or was rejected has nothing left to send, nor
\* has one that has been confirmed.
SilentInv ==
    \A c \in Calls :
        /\ call[c].pc = "new" => call[c].attempt = 0
        /\ call[c].pc \in {"rejected", "failed"} => c \notin buffer
        /\ publisherConfirm /\ call[c].pc \in {"resolved", "accepted"} => c \notin buffer

PInv == /\ TypeOK /\ OneConnectAttempt /\ BufferInv /\ CopiesInv
        /\ ConfirmInv /\ SentInv /\ SilentInv

-----------------------------------------------------------------------------
\* The inductive invariant holds initially.
LEMMA PInvInit == Init => PInv
<1> SUFFICES ASSUME Init PROVE PInv
  OBVIOUS
<1>1. call \in [Calls -> Call] /\ \A c \in Calls : call[c].pc = "new" /\ call[c].attempt = 0
  <2>1. [pc |-> "new", attempt |-> 0] \in Call
    BY ProducerAssumption DEF Call
  <2> QED
    BY <2>1 DEF Init
<1>2. TypeOK
  <2>1. breaker \in Breaker /\ CountersSane(breaker)
    BY NewBreakerSane DEF Init
  <2>2. broker \in [Calls -> Nat]
    BY DEF Init
  <2>3. losses \in 0..MaxLosses /\ nacks \in 0..MaxNacks
    BY ProducerAssumption DEF Init
  <2> QED
    BY <1>1, <2>1, <2>2, <2>3 DEF Init, TypeOK
<1>3. OneConnectAttempt
  BY <1>1 DEF Init, OneConnectAttempt, At, Connecting
<1>4. BufferInv /\ CopiesInv
  BY <1>1 DEF Init, BufferInv, CopiesInv
<1>5. ConfirmInv /\ SentInv /\ SilentInv
  BY <1>1 DEF Init, ConfirmInv, SentInv, SilentInv
<1> QED
  BY <1>2, <1>3, <1>4, <1>5 DEF PInv

\* Moving calls changes where they are and nothing else.
LEMMA MoveEffect ==
  ASSUME call \in [Calls -> Call], NEW S, NEW pc \in Steps
  PROVE  /\ Move(S, pc) \in [Calls -> Call]
         /\ \A c \in Calls : /\ Move(S, pc)[c].attempt = call[c].attempt
                             /\ c \in S => Move(S, pc)[c].pc = pc
                             /\ c \notin S => Move(S, pc)[c] = call[c]
<1>1. ASSUME NEW c \in Calls
      PROVE  /\ [call[c] EXCEPT !.pc = pc] \in Call
             /\ [call[c] EXCEPT !.pc = pc].pc = pc
             /\ [call[c] EXCEPT !.pc = pc].attempt = call[c].attempt
  BY DEF Call, Steps
<1> QED
  BY <1>1 DEF Move

\* A write moves the writers to what they await and fills the buffer, if the
\* connection is alive.
LEMMA WriteEffect ==
  ASSUME TypeOK, NEW S \in SUBSET Calls, NEW alive, Write(S, alive)
  PROVE  /\ call' \in [Calls -> Call]
         /\ \A c \in Calls : /\ call'[c].attempt = call[c].attempt
                             /\ c \notin S => call'[c] = call[c]
                             /\ c \in S => call'[c].pc \in {"confirm", "drain", "resolved"}
                             /\ c \in S => (call'[c].pc = "confirm" <=> publisherConfirm)
         /\ buffer' = (IF alive THEN buffer \union S ELSE buffer)
         /\ buffer' \subseteq Calls
<1>1. PICK held \in SUBSET S :
         /\ call' = [c \in Calls |-> IF c \in S THEN [call[c] EXCEPT !.pc = Awaits(c, held)]
                                     ELSE call[c]]
         /\ buffer' = (IF alive THEN buffer \union S ELSE buffer)
  BY Zenon DEF Write
<1>2. ASSUME NEW c \in Calls
      PROVE  /\ Awaits(c, held) \in {"confirm", "drain", "resolved"}
             /\ Awaits(c, held) = "confirm" <=> publisherConfirm
  <2>1. "confirm" # "drain" /\ "confirm" # "resolved"
    OBVIOUS
  <2> QED
    BY <2>1, Zenon DEF Awaits
<1>3. ASSUME NEW c \in Calls, NEW pc \in {"confirm", "drain", "resolved"}
      PROVE  /\ [call[c] EXCEPT !.pc = pc] \in Call
             /\ [call[c] EXCEPT !.pc = pc].pc = pc
             /\ [call[c] EXCEPT !.pc = pc].attempt = call[c].attempt
  BY DEF TypeOK, Call, Waiting, Due
<1>4. call' \in [Calls -> Call]
  BY <1>1, <1>2, <1>3 DEF TypeOK
<1>5. ASSUME NEW c \in Calls
      PROVE  /\ call'[c].attempt = call[c].attempt
             /\ c \notin S => call'[c] = call[c]
             /\ c \in S => call'[c].pc = Awaits(c, held)
  BY <1>1, <1>2, <1>3
<1>6. buffer' \subseteq Calls
  BY <1>1 DEF TypeOK
<1> QED
  BY <1>1, <1>2, <1>4, <1>5, <1>6

\* Finding a channel, waiting for one, or making one.
LEMMA GetChannelStep ==
  ASSUME PInv, NEW c \in Calls, call[c].pc \in {"new", "backoff"}, GetChannel(c),
         breaker' \in Breaker /\ CountersSane(breaker'),
         UNCHANGED <<conn, broker, losses, nacks, publisherConfirm>>
  PROVE  PInv'
<1> USE DEF PInv
<1>1. CASE /\ chan \in {"open", "broken"}
           /\ Write({c}, chan = "open")
           /\ UNCHANGED chan
  <2>1. /\ call' \in [Calls -> Call]
        /\ \A d \in Calls : /\ call'[d].attempt = call[d].attempt
                            /\ d \notin {c} => call'[d] = call[d]
                            /\ d \in {c} => call'[d].pc \in {"confirm", "drain", "resolved"}
                            /\ d \in {c} => (call'[d].pc = "confirm" <=> publisherConfirm)
        /\ buffer' = (IF chan = "open" THEN buffer \union {c} ELSE buffer)
        /\ buffer' \subseteq Calls
    <3> HIDE DEF PInv
    <3> QED
      BY <1>1, WriteEffect, Zenon DEF PInv
  <2>2. TypeOK'
    BY <2>1, <1>1 DEF TypeOK
  <2>3. OneConnectAttempt'
    BY <2>1, <1>1 DEF OneConnectAttempt, At, Connecting
  <2>4. BufferInv'
    BY <2>1, <1>1 DEF BufferInv
  <2>5. CopiesInv'
    BY <2>1, <1>1 DEF CopiesInv
  <2>6. ConfirmInv'
    BY <2>1, <1>1 DEF ConfirmInv
  <2>7. SentInv' /\ SilentInv'
    BY <2>1, <1>1 DEF SentInv, SilentInv
  <2> QED
    BY <2>2, <2>3, <2>4, <2>5, <2>6, <2>7
<1>2. CASE /\ chan \in Connecting
           /\ call' = Move({c}, "wait")
           /\ UNCHANGED <<chan, buffer>>
  <2>1. /\ call' \in [Calls -> Call]
        /\ \A d \in Calls : /\ call'[d].attempt = call[d].attempt
                            /\ d = c => call'[d].pc = "wait"
                            /\ d # c => call'[d] = call[d]
    BY <1>2, MoveEffect DEF TypeOK, Steps, Waiting
  <2>2. TypeOK'
    BY <2>1, <1>2 DEF TypeOK
  <2>3. OneConnectAttempt'
    <3>1. PICK d \in Calls : call[d].pc = "connect"
      BY <1>2 DEF OneConnectAttempt, At
    <3>2. call'[d].pc = "connect"
      BY <2>1, <3>1
    <3>3. \A e \in Calls : call'[e].pc = "connect" => call[e].pc = "connect"
      BY <2>1
    <3> QED
      BY <3>1, <3>2, <3>3, <1>2 DEF OneConnectAttempt, At
  <2>4. BufferInv' /\ CopiesInv'
    BY <2>1, <1>2 DEF BufferInv, CopiesInv
  <2>5. ConfirmInv' /\ SentInv' /\ SilentInv'
    BY <2>1, <1>2 DEF ConfirmInv, SentInv, SilentInv
  <2> QED
    BY <2>2, <2>3, <2>4, <2>5
<1>3. CASE /\ chan = "none"
           /\ call' = Move({c}, "connect")
           /\ chan' = IF conn = "none" THEN "dial" ELSE "opening"
           /\ UNCHANGED buffer
  <2>1. /\ call' \in [Calls -> Call]
        /\ \A d \in Calls : /\ call'[d].attempt = call[d].attempt
                            /\ d = c => call'[d].pc = "connect"
                            /\ d # c => call'[d] = call[d]
    BY <1>3, MoveEffect DEF TypeOK, Steps, Waiting
  <2>2. TypeOK'
    BY <2>1, <1>3 DEF TypeOK, Connecting
  <2>3. OneConnectAttempt'
    <3>1. \A d \in Calls : call[d].pc \notin {"connect", "wait"}
      BY <1>3 DEF OneConnectAttempt, At, Connecting
    <3>2. \A d \in Calls : call'[d].pc = "connect" <=> d = c
      BY <2>1, <3>1
    <3>3. chan' \in Connecting
      BY <1>3 DEF Connecting
    <3> QED
      BY <3>2, <3>3 DEF OneConnectAttempt, At
  <2>4. BufferInv' /\ CopiesInv'
    BY <2>1, <1>3 DEF BufferInv, CopiesInv
  <2>5. ConfirmInv' /\ SentInv' /\ SilentInv'
    BY <2>1, <1>3 DEF ConfirmInv, SentInv, SilentInv
  <2> QED
    BY <2>2, <2>3, <2>4, <2>5
<1> QED
  BY <1>1, <1>2, <1>3, Zenon DEF GetChannel

\* A failed attempt to connect, whatever becomes of the connection.
LEMMA ConnectThrowsStep ==
  ASSUME PInv, chan \in Connecting, ConnectThrows,
         conn' \in {"none", "up", "stale"}, losses' \in 0..MaxLosses,
         UNCHANGED <<breaker, buffer, broker, nacks, publisherConfirm>>
  PROVE  PInv'
<1> USE DEF PInv
<1>1. /\ call' \in [Calls -> Call]
      /\ \A c \in Calls :
            /\ call'[c].attempt = call[c].attempt
            /\ call[c].pc \in {"connect", "wait"} => call'[c].pc = "threw"
            /\ call[c].pc \notin {"connect", "wait"} => call'[c] = call[c]
  BY MoveEffect DEF ConnectThrows, TypeOK, Steps, Due, At
<1>2. chan' = "none"
  BY DEF ConnectThrows
<1>3. TypeOK'
  BY <1>1, <1>2 DEF TypeOK
<1>4. OneConnectAttempt'
  BY <1>1, <1>2 DEF OneConnectAttempt, At, Connecting
<1>5. BufferInv' /\ CopiesInv'
  BY <1>1, <1>2 DEF BufferInv, CopiesInv, Connecting
<1>6. ConfirmInv' /\ SentInv' /\ SilentInv'
  BY <1>1, <1>2 DEF ConfirmInv, SentInv, SilentInv, Connecting
<1> QED
  BY <1>3, <1>4, <1>5, <1>6

\* The attempt succeeds: it and its waiters write.
LEMMA OpenChannelStep == PInv /\ OpenChannel => PInv'
<1> SUFFICES ASSUME PInv, OpenChannel PROVE PInv'
  OBVIOUS
<1> DEFINE S == At("connect") \union At("wait")
<1>1. /\ chan = "opening" /\ chan' = "open"
      /\ Write(S, TRUE)
      /\ UNCHANGED <<breaker, conn, broker, losses, nacks, publisherConfirm>>
  BY DEF OpenChannel
<1>2. S \in SUBSET Calls /\ \A c \in Calls : c \in S <=> call[c].pc \in {"connect", "wait"}
  BY DEF At
<1> HIDE DEF S
<1>3. /\ call' \in [Calls -> Call]
      /\ \A c \in Calls : /\ call'[c].attempt = call[c].attempt
                          /\ c \notin S => call'[c] = call[c]
                          /\ c \in S => call'[c].pc \in {"confirm", "drain", "resolved"}
                          /\ c \in S => (call'[c].pc = "confirm" <=> publisherConfirm)
      /\ buffer' = buffer \union S
      /\ buffer' \subseteq Calls
  BY <1>1, <1>2, WriteEffect DEF PInv
<1> USE DEF PInv
<1>4. TypeOK'
  BY <1>1, <1>3 DEF TypeOK
<1>5. OneConnectAttempt'
  <2>1. \A c \in Calls : call'[c].pc \notin {"connect", "wait"}
    BY <1>2, <1>3
  <2> QED
    BY <1>1, <2>1 DEF OneConnectAttempt, At, Connecting
<1>6. BufferInv' /\ CopiesInv'
  BY <1>1, <1>2, <1>3 DEF BufferInv, CopiesInv
<1>7. ConfirmInv'
  BY <1>1, <1>2, <1>3 DEF ConfirmInv
<1>8. SentInv' /\ SilentInv'
  BY <1>1, <1>2, <1>3 DEF SentInv, SilentInv, ConfirmInv
<1> QED
  BY <1>4, <1>5, <1>6, <1>7, <1>8

\* A call moves on from a point at which it awaits no channel.
LEMMA OnwardStep ==
  ASSUME PInv, NEW S \in SUBSET Calls, NEW pc \in {"rejected", "accepted", "failed", "threw", "resolved"},
         \A c \in S : call[c].pc \notin {"connect", "wait"},
         call' = Move(S, pc),
         breaker' \in Breaker /\ CountersSane(breaker'),
         UNCHANGED <<conn, chan, broker, losses, publisherConfirm>>,
         nacks' \in 0..MaxNacks,
         buffer' \subseteq buffer,
         \A c \in buffer \ buffer' : c \in S,
         pc \in {"rejected", "failed", "threw"} => \A c \in S : c \notin buffer',
         pc \in {"accepted", "resolved"} =>
            \A c \in S : publisherConfirm => broker[c] # 0 /\ c \notin buffer'
  PROVE  PInv'
<1> USE DEF PInv
<1>1. /\ call' \in [Calls -> Call]
      /\ \A c \in Calls : /\ call'[c].attempt = call[c].attempt
                          /\ c \in S => call'[c].pc = pc
                          /\ c \notin S => call'[c] = call[c]
  BY MoveEffect DEF TypeOK, Steps, Due, Answered
<1>2. TypeOK'
  BY <1>1 DEF TypeOK
<1>3. OneConnectAttempt'
  <2>1. \A c \in Calls : /\ call'[c].pc = "connect" <=> call[c].pc = "connect"
                         /\ call'[c].pc = "wait" <=> call[c].pc = "wait"
    BY <1>1
  <2> QED
    BY <2>1 DEF OneConnectAttempt, At
<1>4. BufferInv' /\ CopiesInv'
  BY <1>1 DEF BufferInv, CopiesInv
<1>5. ConfirmInv'
  BY <1>1 DEF ConfirmInv
<1>6. SentInv' /\ SilentInv'
  BY <1>1 DEF SentInv, SilentInv
<1> QED
  BY <1>2, <1>3, <1>4, <1>5, <1>6

-----------------------------------------------------------------------------
\* One step of each kind.

\* publishApiHits, and its retries.
LEMMA CallsStep ==
  ASSUME PInv, NEW c \in Calls, Publish(c) \/ Accept(c) \/ Fail(c) \/ Retry(c)
  PROVE  PInv'
<1>1. breaker \in Breaker /\ CountersSane(breaker)
  BY DEF PInv, TypeOK
<1>2. losses' = losses => losses' \in 0..MaxLosses
  BY DEF PInv, TypeOK
<1>3. nacks' = nacks => nacks' \in 0..MaxNacks
  BY DEF PInv, TypeOK
<1>4. CASE Publish(c)
  <2>1. call[c].pc = "new" /\ c \notin buffer
    BY <1>4 DEF Publish, At, PInv, CopiesInv
  <2>2. breaker' \in Breaker /\ CountersSane(breaker')
    BY <1>1, <1>4, BreakerStaysSane, Zenon DEF Publish
  <2>3. CASE GetChannel(c)
    BY <1>4, <2>1, <2>2, <2>3, GetChannelStep DEF Publish
  <2>4. CASE call' = Move({c}, "rejected") /\ UNCHANGED <<chan, buffer>>
    BY <1>3, <1>4, <2>1, <2>2, <2>4, OnwardStep DEF Publish
  <2> QED
    BY <1>4, <2>3, <2>4, Zenon DEF Publish
<1>5. CASE Accept(c)
  <2>1. call[c].pc = "resolved"
    BY <1>5 DEF Accept, At
  <2>2. breaker' \in Breaker /\ CountersSane(breaker')
    BY <1>1, <1>5, BreakerStaysSane, Zenon DEF Accept
  <2>3. publisherConfirm => broker[c] # 0 /\ c \notin buffer
    BY <2>1 DEF PInv, SentInv, SilentInv
  <2> QED
    BY <1>3, <1>5, <2>1, <2>2, <2>3, OnwardStep DEF Accept
<1>6. CASE Fail(c)
  <2>1. call[c].pc = "threw" /\ c \notin buffer
    BY <1>6 DEF Fail, At, PInv, CopiesInv
  <2>2. breaker' \in Breaker /\ CountersSane(breaker')
    BY <1>1, <1>6, BreakerStaysSane, Zenon DEF Fail
  <2>3. UNCHANGED <<conn, chan, buffer, broker, losses, nacks, publisherConfirm>>
    BY <1>6 DEF Fail
  <2>4. CASE ShouldRetry(call[c].attempt)
    <3>1. /\ call' = [call EXCEPT ![c] = [pc |-> "backoff", attempt |-> call[c].attempt + 1]]
          /\ call[c].attempt \in 0..maxRetries /\ call[c].attempt < maxRetries
      BY <1>6, <2>4 DEF Fail, ShouldRetry, PInv, TypeOK, Call
    <3>2. /\ call' \in [Calls -> Call]
          /\ call'[c].pc = "backoff" /\ call'[c].attempt = call[c].attempt + 1
          /\ \A d \in Calls : d # c => call'[d] = call[d]
      BY <3>1, ProducerAssumption DEF PInv, TypeOK, Call, Waiting
    <3> USE DEF PInv
    <3>3. TypeOK'
      BY <2>2, <2>3, <3>2 DEF TypeOK
    <3>4. OneConnectAttempt'
      <4>1. \A d \in Calls : /\ call'[d].pc = "connect" <=> call[d].pc = "connect"
                             /\ call'[d].pc = "wait" <=> call[d].pc = "wait"
        BY <2>1, <3>2
      <4> QED
        BY <2>3, <4>1 DEF OneConnectAttempt, At
    <3>5. BufferInv'
      BY <2>3 DEF BufferInv
    <3>6. CopiesInv'
      BY <2>1, <2>3, <3>1, <3>2 DEF CopiesInv, TypeOK
    <3>7. ConfirmInv' /\ SentInv' /\ SilentInv'
      BY <2>3, <3>2 DEF ConfirmInv, SentInv, SilentInv
    <3> QED
      BY <3>3, <3>4, <3>5, <3>6, <3>7
  <2>5. CASE ~ShouldRetry(call[c].attempt)
    <3>1. call' = Move({c}, "failed")
      BY <1>6, <2>5 DEF Fail
    <3> QED
      BY <1>3, <2>1, <2>2, <2>3, <3>1, OnwardStep
  <2> QED
    BY <2>4, <2>5
<1>7. CASE Retry(c)
  <2>1. call[c].pc = "backoff"
    BY <1>7 DEF Retry, At
  <2> QED
    BY <1>1, <1>7, <2>1, GetChannelStep DEF Retry
<1> QED
  BY <1>4, <1>5, <1>6, <1>7

\* ConfirmChannelManager.connect and AMQPConnection.connect.
LEMMA ConnectingStep == PInv /\ ConnectStep => PInv'
<1> SUFFICES ASSUME PInv, ConnectStep PROVE PInv'
  OBVIOUS
<1>1. losses \in 0..MaxLosses /\ conn \in {"none", "up", "stale"}
  BY DEF PInv, TypeOK
<1>2. losses < MaxLosses => losses + 1 \in 0..MaxLosses
  BY <1>1, ProducerAssumption
<1>3. CASE Dial \/ SetUp
  <2>1. /\ chan \in Connecting /\ chan' \in Connecting
        /\ conn' \in {"none", "up", "stale"}
        /\ UNCHANGED <<breaker, call, buffer, broker, losses, nacks, publisherConfirm>>
    BY <1>1, <1>3 DEF Dial, SetUp, Connecting
  <2> USE DEF PInv
  <2>2. TypeOK'
    BY <2>1 DEF TypeOK
  <2>3. OneConnectAttempt' /\ CopiesInv'
    BY <2>1 DEF OneConnectAttempt, At, CopiesInv
  <2>4. BufferInv' /\ ConfirmInv' /\ SentInv' /\ SilentInv'
    BY <2>1 DEF BufferInv, ConfirmInv, SentInv, SilentInv, Connecting
  <2> QED
    BY <2>2, <2>3, <2>4
<1>4. CASE DialFails \/ SetUpFails \/ OpenChannelFails
  <2>1. chan \in Connecting /\ ConnectThrows
        /\ UNCHANGED <<breaker, buffer, broker, nacks, publisherConfirm>>
    BY <1>4 DEF DialFails, SetUpFails, OpenChannelFails, Connecting
  <2>2. conn' \in {"none", "up", "stale"} /\ losses' \in 0..MaxLosses
    BY <1>1, <1>2, <1>4 DEF DialFails, SetUpFails, OpenChannelFails
  <2> QED
    BY <2>1, <2>2, ConnectThrowsStep
<1>5. CASE OpenChannel
  BY <1>5, OpenChannelStep
<1> QED
  BY <1>3, <1>4, <1>5 DEF ConnectStep

\* The broker takes a message.
LEMMA FlushStep ==
  ASSUME PInv, NEW c \in Calls, Flush(c)
  PROVE  PInv'
<1> USE DEF PInv
<1>1. /\ c \in buffer /\ buffer' = buffer \ {c}
      /\ broker' = [broker EXCEPT ![c] = @ + 1]
      /\ UNCHANGED <<breaker, call, conn, chan, losses, nacks, publisherConfirm>>
  BY DEF Flush
<1>2. /\ broker' \in [Calls -> Nat]
      /\ broker'[c] = broker[c] + 1 /\ broker'[c] # 0
      /\ \A d \in Calls : d # c => broker'[d] = broker[d]
  BY <1>1 DEF TypeOK
<1>3. TypeOK'
  BY <1>1, <1>2 DEF TypeOK
<1>4. OneConnectAttempt' /\ BufferInv' /\ ConfirmInv'
  BY <1>1 DEF OneConnectAttempt, At, BufferInv, ConfirmInv
<1>5. CopiesInv'
  <2>1. broker[c] <= call[c].attempt
        /\ call[c].pc \notin {"new", "connect", "wait", "backoff"}
        /\ broker[c] \in Nat /\ call[c].attempt \in Nat
    BY <1>1 DEF CopiesInv, TypeOK, Call
  <2> QED
    BY <1>1, <1>2, <2>1 DEF CopiesInv
<1>6. SentInv' /\ SilentInv'
  BY <1>1, <1>2 DEF SentInv, SilentInv
<1> QED
  BY <1>3, <1>4, <1>5, <1>6

\* The broker and the channel answer.
LEMMA AnswerStep ==
  ASSUME PInv, NEW c \in Calls, Confirm(c) \/ Nack(c) \/ Drain
  PROVE  PInv'
<1>1. breaker \in Breaker /\ CountersSane(breaker)
      /\ nacks \in 0..MaxNacks
  BY DEF PInv, TypeOK
<1>2. nacks < MaxNacks => nacks + 1 \in 0..MaxNacks
  BY <1>1, ProducerAssumption
<1>3. CASE Confirm(c)
  <2>1. call[c].pc = "confirm" /\ chan = "open" /\ c \notin buffer
    BY <1>3 DEF Confirm, At
  <2>2. publisherConfirm => broker[c] # 0 /\ c \notin buffer
    BY <2>1 DEF PInv, SentInv
  <2> QED
    BY <1>1, <1>3, <2>1, <2>2, OnwardStep DEF Confirm
<1>4. CASE Nack(c)
  <2>1. call[c].pc = "confirm"
    BY <1>4 DEF Nack, At
  <2>2. /\ call' = Move({c}, "threw") /\ buffer' = buffer \ {c}
        /\ nacks' \in 0..MaxNacks
        /\ UNCHANGED <<breaker, conn, chan, broker, losses, publisherConfirm>>
    BY <1>2, <1>4 DEF Nack
  <2> QED
    BY <1>1, <2>1, <2>2, OnwardStep
<1>5. CASE Drain
  <2>1. /\ At("drain") \in SUBSET Calls
        /\ \A d \in At("drain") : call[d].pc = "drain"
    BY DEF At
  <2>2. \A d \in At("drain") : ~publisherConfirm
    BY <2>1 DEF PInv, ConfirmInv
  <2>3. /\ call' = Move(At("drain"), "resolved")
        /\ UNCHANGED <<breaker, conn, chan, buffer, broker, losses, nacks, publisherConfirm>>
    BY <1>5 DEF Drain
  <2> QED
    BY <1>1, <2>1, <2>2, <2>3, OnwardStep
<1> QED
  BY <1>3, <1>4, <1>5

\* The connection is lost, and its loss is noticed.
LEMMA LossStep == PInv /\ (LoseConnection \/ NoticeClose \/ Restart) => PInv'
<1> SUFFICES ASSUME PInv, LoseConnection \/ NoticeClose \/ Restart PROVE PInv'
  OBVIOUS
<1> USE DEF PInv
<1>1. CASE LoseConnection
  <2>1. /\ chan \in {"none", "open"} /\ chan' \in {"none", "broken"}
        /\ chan = "open" => chan' = "broken"
        /\ chan = "none" => chan' = "none"
        /\ conn' \in {"none", "up"} /\ buffer' = {}
        /\ UNCHANGED <<breaker, call, broker, nacks, publisherConfirm>>
    BY <1>1 DEF LoseConnection
  <2>2. losses' \in 0..MaxLosses
    BY <1>1, ProducerAssumption DEF LoseConnection, TypeOK
  <2>3. TypeOK'
    BY <2>1, <2>2 DEF TypeOK
  <2>4. OneConnectAttempt' /\ BufferInv'
    BY <2>1 DEF OneConnectAttempt, At, BufferInv, Connecting
  <2>5. CopiesInv' /\ ConfirmInv' /\ SentInv' /\ SilentInv'
    BY <2>1 DEF CopiesInv, ConfirmInv, SentInv, SilentInv
  <2> QED
    BY <2>3, <2>4, <2>5
<1>2. CASE NoticeClose
  <2>1. /\ chan = "broken" /\ conn' \in {"none", "up"} /\ chan' = "none"
        /\ UNCHANGED <<breaker, buffer, broker, losses, nacks, publisherConfirm>>
    BY <1>2 DEF NoticeClose
  <2>2. PICK told \in SUBSET At("confirm") :
           call' = [c \in Calls |->
                      IF c \in told THEN [call[c] EXCEPT !.pc = "threw"]
                      ELSE IF call[c].pc \in {"confirm", "drain"}
                           THEN [call[c] EXCEPT !.pc = "hung"] ELSE call[c]]
    BY <1>2, Zenon DEF NoticeClose
  <2>3. \A c \in told : call[c].pc = "confirm"
    BY <2>2 DEF At
  <2>4. ASSUME NEW c \in Calls
        PROVE  /\ call'[c] \in Call
               /\ call'[c].attempt = call[c].attempt
               /\ call[c].pc \in {"confirm", "drain"} => call'[c].pc \in {"threw", "hung"}
               /\ call[c].pc \notin {"confirm", "drain"} => call'[c] = call[c]
    BY <2>2, <2>3 DEF TypeOK, Call, Due
  <2>5. call' \in [Calls -> Call]
    BY <2>2, <2>4
  <2>6. TypeOK'
    BY <2>1, <2>5 DEF TypeOK
  <2>7. OneConnectAttempt'
    <3>1. \A c \in Calls : /\ call'[c].pc = "connect" <=> call[c].pc = "connect"
                           /\ call'[c].pc = "wait" <=> call[c].pc = "wait"
      BY <2>4
    <3> QED
      BY <2>1, <3>1 DEF OneConnectAttempt, At, Connecting
  <2>8. BufferInv' /\ CopiesInv'
    BY <2>1, <2>4 DEF BufferInv, CopiesInv
  <2>9. ConfirmInv' /\ SentInv' /\ SilentInv'
    BY <2>1, <2>4 DEF ConfirmInv, SentInv, SilentInv
  <2> QED
    BY <2>6, <2>7, <2>8, <2>9
<1>3. CASE Restart
  <2> DEFINE S == {c \in Calls : call[c].pc \in Waiting}
  <2>1. /\ breaker' = NewBreaker /\ conn' = "up" /\ chan' = "none" /\ buffer' = {}
        /\ call' = Move(S, "hung")
        /\ UNCHANGED <<broker, nacks, publisherConfirm>>
    BY <1>3 DEF Restart
  <2>2. /\ call' \in [Calls -> Call]
        /\ \A c \in Calls : /\ call'[c].attempt = call[c].attempt
                            /\ call[c].pc \in Waiting => call'[c].pc = "hung"
                            /\ call[c].pc \notin Waiting => call'[c] = call[c]
    BY <2>1, MoveEffect DEF TypeOK, Steps
  <2>3. losses' \in 0..MaxLosses
    BY <1>3, ProducerAssumption DEF Restart, TypeOK
  <2> HIDE DEF S
  <2>4. TypeOK'
    BY <2>1, <2>2, <2>3, NewBreakerSane DEF TypeOK
  <2>5. OneConnectAttempt' /\ BufferInv'
    BY <2>1, <2>2 DEF OneConnectAttempt, At, BufferInv, Connecting, Waiting
  <2>6. CopiesInv'
    BY <2>1, <2>2 DEF CopiesInv, Waiting
  <2>7. ConfirmInv'
    BY <2>1, <2>2 DEF ConfirmInv, Waiting
  <2>8. SentInv' /\ SilentInv'
    BY <2>1, <2>2 DEF SentInv, SilentInv, Waiting
  <2> QED
    BY <2>4, <2>5, <2>6, <2>7, <2>8
<1> QED
  BY <1>1, <1>2, <1>3

\* Time passes, or nothing happens.
LEMMA QuietStep == PInv /\ (TimePasses \/ UNCHANGED vars) => PInv'
<1> SUFFICES ASSUME PInv, TimePasses \/ UNCHANGED vars PROVE PInv'
  OBVIOUS
<1>1. UNCHANGED <<call, conn, chan, buffer, broker, losses, nacks, publisherConfirm>>
  BY DEF TimePasses, vars
<1>2. breaker' \in Breaker /\ CountersSane(breaker')
  <2>1. breaker \in Breaker /\ CountersSane(breaker)
    BY DEF PInv, TypeOK
  <2>2. CASE TimePasses
    BY <2>1, <2>2, BreakerStaysSane, Zenon DEF TimePasses
  <2>3. CASE UNCHANGED vars
    BY <2>1, <2>3 DEF vars
  <2> QED
    BY <2>2, <2>3
<1>3. TypeOK'
  BY <1>1, <1>2 DEF PInv, TypeOK
<1>4. (OneConnectAttempt /\ BufferInv /\ CopiesInv /\ ConfirmInv /\ SentInv /\ SilentInv)'
  BY <1>1 DEF PInv, OneConnectAttempt, At, BufferInv, CopiesInv, ConfirmInv, SentInv, SilentInv
<1> QED
  BY <1>3, <1>4 DEF PInv

-----------------------------------------------------------------------------
\* The inductive invariant holds in every reachable state.
THEOREM PInvAlways == Spec => []PInv
<1>1. PInv /\ [Next]_vars => PInv'
  <2> SUFFICES ASSUME PInv, [Next]_vars PROVE PInv'
    OBVIOUS
  <2>1. ASSUME NEW c \in Calls, Publish(c) \/ CallStep(c) PROVE PInv'
    BY <2>1, CallsStep, FlushStep, AnswerStep DEF CallStep
  <2>2. CASE ConnectStep
    BY <2>2, ConnectingStep
  <2>3. CASE Drain
    <3>1. \E c \in Calls : TRUE
      BY <2>3 DEF Drain, At
    <3> QED
      BY <2>3, <3>1, AnswerStep
  <2>4. CASE LoseConnection \/ NoticeClose \/ Restart
    BY <2>4, LossStep
  <2>5. CASE TimePasses \/ UNCHANGED vars
    BY <2>5, QuietStep
  <2> QED
    BY <2>1, <2>2, <2>3, <2>4, <2>5 DEF Next
<1> QED
  BY PInvInit, <1>1, PTL DEF Spec

\* Breaker, calls, connection, channel, buffer and queue are well typed.
THEOREM ProducerTypeCorrect == Spec => []TypeOK
  BY PInvAlways, PTL DEF PInv

\* confirmChannelManager.ts:32-41: however many calls arrive while a channel is
\* being made, one of them makes it and the others wait for that one.
THEOREM ProducerOneConnectAttempt == Spec => []OneConnectAttempt
  BY PInvAlways, PTL DEF PInv

\* eventProducer.ts:161-209: an event is in the queue at most once per attempt.
THEOREM ProducerCopiesBounded == Spec => []CopiesBounded
<1>1. PInv => CopiesBounded
  BY DEF PInv, CopiesInv, CopiesBounded
<1> QED
  BY PInvAlways, <1>1, PTL

\* eventProducer.ts:71-91: with publisher confirms no event is accepted that the
\* queue has not received, whatever was lost, refused or retried before.
THEOREM ProducerAcceptedIsDelivered == Spec => []AcceptedIsDelivered
<1>1. PInv => AcceptedIsDelivered
  BY DEF PInv, SentInv, TypeOK, AcceptedIsDelivered, At
<1> QED
  BY PInvAlways, <1>1, PTL
-----------------------------------------------------------------------------
(* The producer implements Publishing.                                      *)

\* No call has an answer when the process starts.
LEMMA ContractInit == Init => Contract!Init
<1> SUFFICES ASSUME Init PROVE Contract!Init
  OBVIOUS
<1>1. Answers = [c \in Calls |-> "open"]
  <2>1. \A c \in Calls : call[c].pc = "new"
    BY DEF Init
  <2> QED
    BY <2>1 DEF Answers, Answered
<1>2. publisherConfirm \in BOOLEAN /\ broker = [c \in Calls |-> 0]
  BY ProducerAssumption DEF Init
<1> QED
  BY <1>1, <1>2 DEF Contract!Init

\* A step that gives the call no answer and takes none back.
NoNewAnswer(c) ==
    \/ call'[c].pc = call[c].pc
    \/ call[c].pc \notin Answered /\ call'[c].pc \notin Answered

\* A step that touches neither answers, queue nor mode is invisible.
LEMMA ContractStutter ==
  ASSUME \A c \in Calls : NoNewAnswer(c),
         UNCHANGED <<broker, publisherConfirm>>
  PROVE  UNCHANGED Contract!vars
<1>1. Answers' = Answers
  BY DEF Answers, NoNewAnswer
<1> QED
  BY <1>1 DEF Contract!vars

\* Looking for a channel answers nobody.
LEMMA GetChannelIsSilent ==
  ASSUME PInv, NEW c \in Calls, call[c].pc \notin Answered, GetChannel(c)
  PROVE  \A d \in Calls : NoNewAnswer(d)
<1>0. call \in [Calls -> Call]
  BY DEF PInv, TypeOK
<1>1. CASE Write({c}, chan = "open")
  <2>1. \A d \in Calls : /\ d # c => call'[d] = call[d]
                         /\ d = c => call'[d].pc \in {"confirm", "drain", "resolved"}
    <3>1. TypeOK /\ {c} \in SUBSET Calls
      BY DEF PInv
    <3>2. \A d \in Calls : /\ d \notin {c} => call'[d] = call[d]
                           /\ d \in {c} => call'[d].pc \in {"confirm", "drain", "resolved"}
      BY <1>1, <3>1, WriteEffect, Zenon
    <3> QED
      BY <3>2
  <2>2. ASSUME NEW d \in Calls
        PROVE  NoNewAnswer(d)
    <3>1. CASE d = c
      BY <2>1, <3>1 DEF NoNewAnswer, Answered
    <3>2. CASE d # c
      BY <2>1, <3>2 DEF NoNewAnswer
    <3> QED
      BY <3>1, <3>2
  <2> QED
    BY <2>2
<1>2. CASE call' = Move({c}, "wait") \/ call' = Move({c}, "connect")
  <2>1. \A d \in Calls : /\ d # c => call'[d] = call[d]
                         /\ d = c => call'[d].pc \in {"wait", "connect"}
    BY <1>0, <1>2, MoveEffect DEF Steps, Waiting
  <2>2. ASSUME NEW d \in Calls
        PROVE  NoNewAnswer(d)
    <3>1. CASE d = c
      BY <2>1, <3>1 DEF NoNewAnswer, Answered
    <3>2. CASE d # c
      BY <2>1, <3>2 DEF NoNewAnswer
    <3> QED
      BY <3>1, <3>2
  <2> QED
    BY <2>2
<1> QED
  BY <1>1, <1>2, Zenon DEF GetChannel

\* A call that moves to an answer is a step of the contract, if the answer is
\* justified.
LEMMA ContractAnswer ==
  ASSUME PInv, NEW c \in Calls, NEW a \in Answered,
         call[c].pc \notin Answered, call' = Move({c}, a),
         UNCHANGED <<broker, publisherConfirm>>,
         a = "accepted" /\ publisherConfirm => broker[c] # 0,
         a = "rejected" => broker[c] = 0
  PROVE  Contract!Next
<1>1. a \in Steps /\ call \in [Calls -> Call] /\ broker[c] \in Nat
  BY DEF Steps, PInv, TypeOK
<1>2. /\ call'[c].pc = a
      /\ \A d \in Calls : d # c => call'[d] = call[d]
  BY <1>1, MoveEffect
<1>3. Answers[c] = "open" /\ Answers' = [Answers EXCEPT ![c] = a]
  BY <1>2 DEF Answers
<1>4. Contract!Justified(c, a)
  <2>1. a \in {"accepted", "rejected", "failed"}
    BY DEF NoNewAnswer, Answered
  <2>2. CASE a = "accepted"
    BY <1>1, <2>2 DEF Contract!Justified
  <2>3. CASE a = "rejected"
    BY <2>3 DEF Contract!Justified
  <2>4. CASE a = "failed"
    BY <2>4 DEF Contract!Justified
  <2> QED
    BY <2>1, <2>2, <2>3, <2>4
<1>5. Contract!Answer(c, a)
  BY <1>3, <1>4 DEF Contract!Answer
<1> QED
  BY <1>5 DEF Contract!Next, Answered

\* Every step of the producer is a step of the contract or invisible to it.
LEMMA ContractStep == PInv /\ [Next]_vars => [Contract!Next]_(Contract!vars)
<1> SUFFICES ASSUME PInv, [Next]_vars PROVE [Contract!Next]_(Contract!vars)
  OBVIOUS
<1>0. call \in [Calls -> Call] /\ broker \in [Calls -> Nat]
  BY DEF PInv, TypeOK
<1>1. ASSUME NEW c \in Calls, Publish(c) PROVE [Contract!Next]_(Contract!vars)
  <2>1. /\ call[c].pc = "new" /\ call[c].pc \notin Answered
        /\ broker[c] = 0
        /\ UNCHANGED <<broker, publisherConfirm>>
    BY <1>0, <1>1 DEF Publish, At, Answered, PInv, CopiesInv, SilentInv
  <2>2. CASE GetChannel(c)
    BY <1>0, <2>1, <2>2, GetChannelIsSilent, ContractStutter
  <2>3. CASE call' = Move({c}, "rejected")
    BY <2>1, <2>3, ContractAnswer DEF Answered
  <2> QED
    BY <1>1, <2>2, <2>3, Zenon DEF Publish
<1>2. ASSUME NEW c \in Calls, Accept(c) PROVE [Contract!Next]_(Contract!vars)
  <2>1. /\ call[c].pc \notin Answered /\ call' = Move({c}, "accepted")
        /\ publisherConfirm => broker[c] # 0
        /\ UNCHANGED <<broker, publisherConfirm>>
    BY <1>2 DEF Accept, At, Answered, PInv, SentInv
  <2> QED
    BY <2>1, ContractAnswer DEF Answered
<1>3. ASSUME NEW c \in Calls, Fail(c) PROVE [Contract!Next]_(Contract!vars)
  <2>1. /\ call[c].pc \notin Answered
        /\ UNCHANGED <<broker, publisherConfirm>>
    BY <1>3 DEF Fail, At, Answered
  <2>2. CASE call' = Move({c}, "failed")
    BY <2>1, <2>2, ContractAnswer DEF Answered
  <2>3. CASE call' = [call EXCEPT ![c] = [pc |-> "backoff", attempt |-> @.attempt + 1]]
    <3>1. /\ call'[c].pc = "backoff" /\ "backoff" \notin Answered
          /\ \A d \in Calls : d # c => call'[d] = call[d]
      BY <1>0, <2>3 DEF Answered
    <3>2. \A d \in Calls : NoNewAnswer(d)
      BY <2>1, <3>1 DEF NoNewAnswer
    <3> QED
      BY <2>1, <3>2, ContractStutter
  <2> QED
    BY <1>3, <2>2, <2>3 DEF Fail
<1>4. ASSUME NEW c \in Calls, Retry(c) PROVE [Contract!Next]_(Contract!vars)
  <2>1. /\ call[c].pc \notin Answered /\ GetChannel(c)
        /\ UNCHANGED <<broker, publisherConfirm>>
    BY <1>4 DEF Retry, At, Answered
  <2> QED
    BY <1>0, <2>1, GetChannelIsSilent, ContractStutter
<1>5. ASSUME NEW c \in Calls, Flush(c) PROVE [Contract!Next]_(Contract!vars)
  <2>1. /\ c \in buffer /\ broker' = [broker EXCEPT ![c] = @ + 1]
        /\ UNCHANGED <<call, publisherConfirm>>
    BY <1>5 DEF Flush
  <2>2. broker[c] < maxRetries + 1
    BY <1>0, <2>1, ProducerAssumption DEF PInv, TypeOK, CopiesInv, Call
  <2>3. Contract!Deliverable(c)
    <3>1. Answers[c] = IF call[c].pc \in Answered THEN call[c].pc ELSE "open"
      BY DEF Answers
    <3>2. CASE call[c].pc \notin Answered
      BY <3>1, <3>2 DEF Contract!Deliverable
    <3>3. CASE call[c].pc \in Answered
      <4>1. call[c].pc = "accepted" /\ ~publisherConfirm
        BY <2>1, <3>3 DEF NoNewAnswer, Answered, PInv, SilentInv
      <4> QED
        BY <3>1, <4>1 DEF Contract!Deliverable, Answered
    <3> QED
      BY <3>2, <3>3
  <2>4. Answers' = Answers
    BY <2>1 DEF Answers
  <2>5. Contract!Deliver(c)
    BY <2>1, <2>2, <2>3, <2>4 DEF Contract!Deliver
  <2> QED
    BY <2>5 DEF Contract!Next
<1>6. ASSUME NEW c \in Calls, Confirm(c) \/ Nack(c) PROVE [Contract!Next]_(Contract!vars)
  <2>1. /\ call[c].pc \notin Answered
        /\ call' = Move({c}, "resolved") \/ call' = Move({c}, "threw")
        /\ UNCHANGED <<broker, publisherConfirm>>
    BY <1>6 DEF Confirm, Nack, At, Answered
  <2>2. /\ call'[c].pc \notin Answered
        /\ \A d \in Calls : d # c => call'[d] = call[d]
    BY <1>0, <2>1, MoveEffect DEF Steps, Due, Answered
  <2>3. \A d \in Calls : NoNewAnswer(d)
    BY <2>1, <2>2 DEF NoNewAnswer
  <2> QED
    BY <2>1, <2>3, ContractStutter
<1>7. CASE Drain
  <2>1. /\ At("drain") \subseteq Calls
        /\ \A c \in At("drain") : call[c].pc = "drain"
        /\ call' = Move(At("drain"), "resolved")
        /\ UNCHANGED <<broker, publisherConfirm>>
    BY <1>7 DEF Drain, At
  <2>2. \A c \in Calls : /\ c \in At("drain") => call'[c].pc = "resolved"
                         /\ c \notin At("drain") => call'[c] = call[c]
    BY <1>0, <2>1, MoveEffect DEF Steps, Due
  <2>3. \A c \in Calls : NoNewAnswer(c)
    <3>1. \A c \in Calls : call'[c] = call[c] => call'[c].pc = call[c].pc
      OBVIOUS
    <3> QED
      BY <2>1, <2>2, <3>1 DEF NoNewAnswer, Answered
  <2> QED
    BY <2>1, <2>3, ContractStutter
<1>8. CASE ConnectStep
  <2>1. UNCHANGED <<broker, publisherConfirm>>
    BY <1>8 DEF ConnectStep, Dial, DialFails, SetUp, SetUpFails, OpenChannel, OpenChannelFails
  <2>2. CASE Dial \/ SetUp
    BY <2>1, <2>2, ContractStutter DEF NoNewAnswer, Dial, SetUp
  <2>3. CASE DialFails \/ SetUpFails \/ OpenChannelFails
    <3> DEFINE S == At("connect") \union At("wait")
    <3>1. /\ call' = Move(S, "threw")
          /\ \A c \in S : call[c].pc \in {"connect", "wait"}
      BY <2>3 DEF DialFails, SetUpFails, OpenChannelFails, ConnectThrows, At
    <3> HIDE DEF S
    <3>2. \A c \in Calls : /\ c \in S => call'[c].pc = "threw"
                           /\ c \notin S => call'[c] = call[c]
      BY <1>0, <3>1, MoveEffect DEF Steps, Due
    <3>3. \A c \in Calls : NoNewAnswer(c)
      <4>1. \A c \in Calls : call'[c] = call[c] => call'[c].pc = call[c].pc
        OBVIOUS
      <4> QED
        BY <3>1, <3>2, <4>1 DEF NoNewAnswer, Answered
    <3> QED
      BY <2>1, <3>3, ContractStutter
  <2>4. CASE OpenChannel
    <3> DEFINE S == At("connect") \union At("wait")
    <3>1. /\ Write(S, TRUE) /\ S \in SUBSET Calls
          /\ \A c \in S : call[c].pc \in {"connect", "wait"}
      BY <2>4 DEF OpenChannel, At
    <3> HIDE DEF S
    <3>2. \A c \in Calls : /\ c \in S => call'[c].pc \in {"confirm", "drain", "resolved"}
                           /\ c \notin S => call'[c] = call[c]
      BY <3>1, WriteEffect DEF PInv
    <3>3. \A c \in Calls : NoNewAnswer(c)
      <4>1. \A c \in Calls : call'[c] = call[c] => call'[c].pc = call[c].pc
        OBVIOUS
      <4> QED
        BY <3>1, <3>2, <4>1 DEF NoNewAnswer, Answered
    <3> QED
      BY <2>1, <3>3, ContractStutter
  <2> QED
    BY <1>8, <2>2, <2>3, <2>4 DEF ConnectStep
<1>9. CASE LoseConnection \/ TimePasses \/ UNCHANGED vars
  <2>1. UNCHANGED <<call, broker, publisherConfirm>>
    BY <1>9 DEF LoseConnection, TimePasses, vars
  <2> QED
    BY <2>1, ContractStutter DEF NoNewAnswer
<1>10. CASE NoticeClose
  <2>1. UNCHANGED <<broker, publisherConfirm>>
    BY <1>10 DEF NoticeClose
  <2>2. PICK told \in SUBSET At("confirm") :
           call' = [c \in Calls |->
                      IF c \in told THEN [call[c] EXCEPT !.pc = "threw"]
                      ELSE IF call[c].pc \in {"confirm", "drain"}
                           THEN [call[c] EXCEPT !.pc = "hung"] ELSE call[c]]
    BY <1>10, Zenon DEF NoticeClose
  <2>3. \A c \in Calls : \/ call'[c] = call[c]
                         \/ /\ call[c].pc \in {"confirm", "drain"}
                            /\ call'[c].pc \in {"threw", "hung"}
    BY <1>0, <2>2 DEF At, Call
  <2> QED
    BY <2>1, <2>3, ContractStutter DEF NoNewAnswer, Answered
<1>11. CASE Restart
  <2> DEFINE S == {c \in Calls : call[c].pc \in Waiting}
  <2>1. call' = Move(S, "hung") /\ UNCHANGED <<broker, publisherConfirm>>
    BY <1>11 DEF Restart
  <2>2. \A c \in Calls : /\ call[c].pc \in Waiting => call'[c].pc = "hung"
                         /\ call[c].pc \notin Waiting => call'[c] = call[c]
    BY <1>0, <2>1, MoveEffect DEF Steps
  <2>3. \A c \in Calls : NoNewAnswer(c)
    BY <2>2 DEF NoNewAnswer, Answered, Waiting
  <2> HIDE DEF S
  <2> QED
    BY <2>1, <2>3, ContractStutter
<1> QED
  BY <1>1, <1>2, <1>3, <1>4, <1>5, <1>6, <1>7, <1>8, <1>9, <1>10, <1>11 DEF Next, CallStep

\* eventProducer.ts:134-230: publishApiHits keeps its contract with the HTTP
\* layer (module Publishing) for any number of calls, retries and losses.
THEOREM ProducerKeepsContract == Spec => AnswersAreTrue
<1>1. Spec => Contract!Init /\ [][Contract!Next]_(Contract!vars)
  BY PInvAlways, ContractInit, ContractStep, PTL DEF Spec
<1> QED
  BY <1>1 DEF AnswersAreTrue, Contract!Spec
=============================================================================
