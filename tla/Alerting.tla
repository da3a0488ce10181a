------------------------------ MODULE Alerting ------------------------------
(***************************************************************************)
(* Alert rules and the process that watches them: AlertingService (the     *)
(* CRUD side, in the API process) and AlertingWorker with its evaluator,   *)
(* dispatcher and fire log.                                                *)
(*                                                                         *)
(* The worker reads a page of enabled rules and then works through it on   *)
(* the documents it read, one await after another, while the API process   *)
(* changes the rules underneath.  One action runs from one await of        *)
(* runEvaluationCycle to the next; the process may end at any of them.     *)
(***************************************************************************)
EXTENDS Naturals, FiniteSets

CONSTANTS
    MaxAlerts,          \* bound: alert rules ever created (_id order = creation order)
    Summaries,          \* the rules of type daily_summary or weekly_summary
    Cooldowns,          \* values of conditions.cooldown_minutes, in ticks
    PageSize,           \* the limit of findEnabled (100 in the code)
    NumChannels,        \* channels of a rule
    ChannelsMayFail,    \* may the receiver of a channel get nothing?
    MongoMayFail,       \* may a query or a write of the worker or the API fail?
    StatsMayFail,       \* may getOverviewStats throw?
    MaxTime,            \* bound: ticks of the clock
    MaxExits            \* bound: ends of the worker process

Alerts == 1..MaxAlerts
Channels == 1..NumChannels

ASSUME AlertingAssumption ==
    /\ MaxAlerts \in Nat
    /\ Summaries \subseteq Alerts
    /\ Cooldowns \subseteq Nat /\ Cooldowns # {}
    /\ PageSize \in Nat \ {0}
    /\ NumChannels \in Nat \ {0}
    /\ {ChannelsMayFail, MongoMayFail, StatsMayFail} \subseteq BOOLEAN
    /\ MaxTime \in Nat /\ MaxExits \in Nat

VARIABLES
    clock,
    rules,       \* the alertings collection
    fireLog,     \* the alert_fire_logs collection
    deleting,    \* rules whose document is deleted and whose logs are not
    breaching,   \* rules whose thresholds the metrics of their client cross
    received,    \* what the receivers of the channels have been sent
    worker,      \* AlertingWorker
    exits        \* ends of the worker process so far

vars == <<clock, rules, fireLog, deleting, breaching, received, worker, exits>>

Never == 0                       \* lastFiredAt: null; the clock starts at 1
NoCursor == MaxAlerts + 1        \* every _id is below it

Rule == [state : {"absent", "enabled", "disabled", "deleted"},
         cooldown : Cooldowns, lastFired : Nat]

\* What is left of a rule that is not in the collection.
Blank(state) == [state |-> state, cooldown |-> CHOOSE c \in Cooldowns : TRUE,
                 lastFired |-> Never]

\* A document of a page, as it was when it was read.
Doc == [id : Alerts, cooldown : Cooldowns, lastFired : Nat]

FireLogEntry == [alert : Alerts, at : Nat]
Notification == [alert : Alerts, at : Nat, channel : Channels]

Worker == [pc : {"down", "fetch", "check", "evaluate", "dispatch", "log", "stamp",
                 "sleep"},
           page : SUBSET Doc,           \* what is left of the page
           cursor : Alerts \union {NoCursor},
           next : Alerts \union {NoCursor},  \* nextCursor, or none
           channel : 1..(NumChannels + 1),   \* the next channel to dispatch to
           firedAt : Nat]                    \* recordFire's `now'

TypeOK ==
    /\ clock \in 1..(MaxTime + 1)
    /\ rules \in [Alerts -> Rule]
    /\ fireLog \subseteq FireLogEntry
    /\ deleting \subseteq Alerts
    /\ breaching \subseteq Alerts
    /\ received \subseteq Notification
    /\ worker \in Worker
    /\ exits \in 0..MaxExits

DownWorker == [pc |-> "down", page |-> {}, cursor |-> NoCursor, next |-> NoCursor,
               channel |-> 1, firedAt |-> Never]

Init ==
    /\ clock = 1
    /\ rules = [a \in Alerts |-> Blank("absent")]
    /\ fireLog = {}
    /\ deleting = {}
    /\ breaching \in SUBSET (Alerts \ Summaries)
    /\ received = {}
    /\ worker = DownWorker
    /\ exits = 0

-----------------------------------------------------------------------------
(* findEnabled: the newest PageSize enabled rules below the cursor, and the  *)
(* one after them as the next cursor.                                       *)

Enabled == {a \in Alerts : rules[a].state = "enabled"}

Matches(a, cursor) == a < cursor

Candidates(cursor) == {a \in Enabled : Matches(a, cursor)}

Newer(S, a) == {b \in S : b > a}

FirstOf(S, n) == {a \in S : Cardinality(Newer(S, a)) < n}

\* nextCursor is the _id of items[safeLimit], the item after the page.
NextCursor(S) ==
    IF Cardinality(S) > PageSize
    THEN CHOOSE a \in S : Cardinality(Newer(S, a)) = PageSize
    ELSE NoCursor

\* The documents are worked through in the order of the query.
Current == CHOOSE d \in worker.page : \A e \in worker.page : e.id <= d.id

\* The loop goes on to the next document, page or cycle.
Advance(w) ==
    LET rest == w.page \ {Current}
    IN  [w EXCEPT !.page = rest, !.channel = 1, !.firedAt = Never,
                  !.cursor = IF rest = {} THEN w.next ELSE @,
                  !.next = IF rest = {} THEN NoCursor ELSE @,
                  !.pc = IF rest # {} THEN "check"
                         ELSE IF w.next # NoCursor THEN "fetch" ELSE "sleep"]

\* A worker that ignores the cooldown of a rule.
NeverInCooldown(d, now) == FALSE

\* A rule that fires once and is held back for good.
InCooldownForGood(d, now) == d.lastFired # Never

\* AlertFireLogService.isInCooldown, on the document that was read.
InCooldown(d, now) == d.lastFired # Never /\ now - d.lastFired < d.cooldown

-----------------------------------------------------------------------------
(* AlertingWorker.                                                          *)

\* start() runs a cycle at once.
StartWorker ==
    /\ worker.pc = "down"
    /\ worker' = [DownWorker EXCEPT !.pc = "fetch"]
    /\ UNCHANGED <<clock, rules, fireLog, deleting, breaching, received, exits>>

\* The poll timer: a new cycle.
Poll ==
    /\ worker.pc = "sleep"
    /\ worker' = [DownWorker EXCEPT !.pc = "fetch"]
    /\ UNCHANGED <<clock, rules, fireLog, deleting, breaching, received, exits>>

FetchPage ==
    LET S == Candidates(worker.cursor)
    IN  /\ worker.pc = "fetch"
        /\ worker' = [worker EXCEPT
             !.page = {[id |-> a, cooldown |-> rules[a].cooldown,
                        lastFired |-> rules[a].lastFired] : a \in FirstOf(S, PageSize)},
             !.next = NextCursor(S),
             !.pc = IF S = {} THEN "sleep" ELSE "check"]
        /\ UNCHANGED <<clock, rules, fireLog, deleting, breaching, received, exits>>

\* findEnabled throws: the cycle ends.
FetchFails ==
    /\ worker.pc = "fetch"
    /\ MongoMayFail
    /\ worker' = [DownWorker EXCEPT !.pc = "sleep"]
    /\ UNCHANGED <<clock, rules, fireLog, deleting, breaching, received, exits>>

CheckCooldown ==
    /\ worker.pc = "check"
    /\ worker' = IF InCooldown(Current, clock) THEN Advance(worker)
                 ELSE [worker EXCEPT !.pc = "evaluate"]
    /\ UNCHANGED <<clock, rules, fireLog, deleting, breaching, received, exits>>

\* AlertEvaluatorService.evaluate: a summary always fires.
Fires(d) == d.id \in Summaries \/ d.id \in breaching

\* The evaluator answers "not fired" when the statistics cannot be read.
Evaluate ==
    /\ worker.pc = "evaluate"
    /\ \/ /\ Fires(Current)
          /\ worker' = [worker EXCEPT !.pc = "dispatch"]
       \/ /\ ~Fires(Current) \/ StatsMayFail
          /\ worker' = Advance(worker)
    /\ UNCHANGED <<clock, rules, fireLog, deleting, breaching, received, exits>>

\* A dispatcher whose loop runs once too often.
LastChannelLate(c) == c = NumChannels + 1

LastChannel(c) == c = NumChannels

\* AlertDispatcherService.dispatch, one channel: it goes on to the next one,
\* whether it sent the message, threw (perhaps after the receiver got it), returned
\* without sending for lack of an address, or has no handler for the type.
DispatchChannel ==
    /\ worker.pc = "dispatch"
    /\ \/ received' = received \union {[alert |-> Current.id, at |-> clock,
                                        channel |-> worker.channel]}
       \/ ChannelsMayFail /\ UNCHANGED received
    /\ worker' = [worker EXCEPT
         !.channel = @ + 1,
         !.pc = IF LastChannel(worker.channel) THEN "log" ELSE "dispatch"]
    /\ UNCHANGED <<clock, rules, fireLog, deleting, breaching, exits>>

Logged == fireLog \union {[alert |-> Current.id, at |-> clock]}

\* recordFire: the fire log entry.
LogFire ==
    /\ worker.pc = "log"
    /\ fireLog' = Logged
    /\ worker' = [worker EXCEPT !.pc = "stamp", !.firedAt = clock]
    /\ UNCHANGED <<clock, rules, deleting, breaching, received, exits>>

\* A recordFire that logs the failure and goes on to the stamp.
LogFireSwallows ==
    /\ worker.pc = "log"
    /\ MongoMayFail
    /\ worker' = [worker EXCEPT !.pc = "stamp", !.firedAt = clock]
    /\ UNCHANGED <<clock, rules, fireLog, deleting, breaching, received, exits>>

\* The write fails, or only its reply is lost: recordFire throws, and the loop
\* takes the next rule.
LogFireFails ==
    /\ worker.pc = "log"
    /\ MongoMayFail
    /\ fireLog' \in {fireLog, Logged}
    /\ worker' = Advance(worker)
    /\ UNCHANGED <<clock, rules, deleting, breaching, received, exits>>

\* recordFire: lastFiredAt, of a rule that still exists.
Stamped(a, at) ==
    IF rules[a].state \in {"enabled", "disabled"}
    THEN [rules EXCEPT ![a].lastFired = at] ELSE rules

StampFire ==
    /\ worker.pc = "stamp"
    /\ \/ rules' = Stamped(Current.id, worker.firedAt)
       \/ MongoMayFail /\ UNCHANGED rules
    /\ worker' = Advance(worker)
    /\ UNCHANGED <<clock, fireLog, deleting, breaching, received, exits>>

\* SIGTERM or a kill: stop() does not wait for the cycle.
ExitWorker ==
    /\ worker.pc # "down"
    /\ exits < MaxExits
    /\ exits' = exits + 1
    /\ worker' = DownWorker
    /\ UNCHANGED <<clock, rules, fireLog, deleting, breaching, received>>

WorkerStep ==
    \/ StartWorker \/ Poll \/ FetchPage \/ FetchFails \/ CheckCooldown
    \/ Evaluate \/ DispatchChannel \/ LogFire \/ LogFireFails \/ StampFire

-----------------------------------------------------------------------------
(* AlertingService, and the world.                                          *)

CreateAlert(a, cooldown) ==
    /\ rules[a].state = "absent"
    /\ \A b \in Alerts : b < a => rules[b].state # "absent"
    /\ rules' = [rules EXCEPT ![a] = [state |-> "enabled", cooldown |-> cooldown,
                                     lastFired |-> Never]]
    /\ UNCHANGED <<clock, fireLog, deleting, breaching, received, worker, exits>>

Exists(a) == rules[a].state \in {"enabled", "disabled"}

UpdateAlert(a, cooldown) ==
    /\ Exists(a)
    /\ rules' = [rules EXCEPT ![a].cooldown = cooldown]
    /\ UNCHANGED <<clock, fireLog, deleting, breaching, received, worker, exits>>

SetEnabled(a, state) ==
    /\ Exists(a)
    /\ state \in {"enabled", "disabled"}
    /\ rules' = [rules EXCEPT ![a].state = state]
    /\ UNCHANGED <<clock, fireLog, deleting, breaching, received, worker, exits>>

Purged(a) == {l \in fireLog : l.alert # a}

\* A service that removes the history before it removes the rule.
DeleteLogsFirst(a) ==
    /\ Exists(a)
    /\ IF a \in deleting
       THEN /\ rules' = [rules EXCEPT ![a] = Blank("deleted")]
            /\ deleting' = deleting \ {a}
            /\ UNCHANGED fireLog
       ELSE /\ fireLog' = Purged(a)
            /\ deleting' = deleting \union {a}
            /\ UNCHANGED rules
    /\ UNCHANGED <<clock, breaching, received, worker, exits>>

\* deleteAlert: the document first, then its history.
DeleteAlert(a) ==
    /\ Exists(a)
    /\ rules' = [rules EXCEPT ![a] = Blank("deleted")]
    /\ deleting' = deleting \union {a}
    /\ UNCHANGED <<clock, fireLog, breaching, received, worker, exits>>

\* Nothing obliges the second step to follow: the query may fail, or the API
\* process end, and nobody deletes the history of a deleted rule again.
DeleteHistory(a) ==
    /\ a \in deleting /\ rules[a].state = "deleted"
    /\ fireLog' = Purged(a)
    /\ deleting' = deleting \ {a}
    /\ UNCHANGED <<clock, rules, breaching, received, worker, exits>>

\* The metrics of a rule's client cross its thresholds, or no longer do.
MetricsMove(a) ==
    /\ a \notin Summaries
    /\ breaching' \in {breaching \union {a}, breaching \ {a}}
    /\ UNCHANGED <<clock, rules, fireLog, deleting, received, worker, exits>>

Tick ==
    /\ clock <= MaxTime
    /\ clock' = clock + 1
    /\ UNCHANGED <<rules, fireLog, deleting, breaching, received, worker, exits>>

Next ==
    \/ WorkerStep
    \/ ExitWorker
    \/ \E a \in Alerts :
         \/ DeleteAlert(a) \/ DeleteHistory(a) \/ MetricsMove(a)
         \/ \E c \in Cooldowns : CreateAlert(a, c) \/ UpdateAlert(a, c)
         \/ \E s \in {"enabled", "disabled"} : SetEnabled(a, s)
    \/ Tick

Notified == {n.alert : n \in received}

\* The worker's promises settle and its timer fires; it is started again.  No
\* query and no channel fails every time it is tried.
Fairness ==
    /\ WF_vars(WorkerStep)
    /\ SF_vars(FetchPage)
    /\ \A a \in Alerts :
         /\ SF_vars(Evaluate /\ Current.id = a /\ Fires(Current) /\ worker'.pc = "dispatch")
         /\ SF_vars(DispatchChannel /\ a \notin Notified /\ a \in Notified')

Spec == Init /\ [][Next]_vars /\ Fairness

-----------------------------------------------------------------------------
(* Properties.                                                              *)

\* isInCooldown works on a document read earlier: whatever has happened since,
\* nobody is notified while the cooldown the rule was read with, counted from
\* the lastFiredAt that is stored now, is running.
RefiresRespectStamp ==
    [][DispatchChannel =>
         LET stamp == rules[Current.id].lastFired
         IN  stamp = Never \/ clock - stamp >= Current.cooldown]_vars

\* The history explains every cooldown: recordFire stamps a rule only with a
\* firing its history shows, whichever of the two writes fails or loses its reply,
\* whenever the worker ends and whatever the API does to the rule meanwhile.
StampsAreLogged ==
    \A a \in Alerts :
        Exists(a) /\ rules[a].lastFired # Never =>
            [alert |-> a, at |-> rules[a].lastFired] \in fireLog

\* Once deleteAlert has deleted the history of a rule, at most one entry comes
\* after it: that of the fire that was under way.
AtMostOneOrphan ==
    \A a \in Alerts :
        rules[a].state = "deleted" /\ a \notin deleting =>
            Cardinality({l \in fireLog : l.alert = a}) <= 1

\* Would isInCooldown hold back the rule as it is stored now?
CoolingDown(a) ==
    rules[a].lastFired # Never /\ clock - rules[a].lastFired < rules[a].cooldown

\* A rule that stays enabled, breached and out of its cooldown is noticed:
\* somebody is notified, whatever has failed or ended before.
BreachesAreNoticed ==
    \A a \in Alerts :
        <>[](rules[a].state = "enabled" /\ a \in breaching /\ ~CoolingDown(a))
            => <>(a \in Notified)
=============================================================================
