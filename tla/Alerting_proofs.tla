---------------------------- MODULE Alerting_proofs ----------------------------
(***************************************************************************)
(* Proofs about Alerting, for any number of rules and channels, any page   *)
(* size and any cooldowns: its types, that a stamp is respected although   *)
(* the worker decides on old documents, what the fire log may claim, and   *)
(* what the deletion of a rule may leave behind.                           *)
(***************************************************************************)
EXTENDS Alerting, FiniteSetTheorems, WellFoundedInduction, TLAPS

-----------------------------------------------------------------------------
(* Pages.                                                                   *)

\* A set of ids that is not empty has a newest one.
LEMMA NewestExists ==
  ASSUME NEW n \in Nat, NEW S \in SUBSET (1..n), S # {}
  PROVE  IsFiniteSet(S) /\ \E m \in S : \A x \in S : x <= m
<1> DEFINE T == {Newer(S, a) : a \in S}
<1>1. IsFiniteSet(S)
  <2>1. IsFiniteSet(1..n)
    BY FS_Interval
  <2> QED
    BY <2>1, FS_Subset
<1>2. T \subseteq FiniteSubsetsOf(S) /\ T # {}
  <2>1. ASSUME NEW a \in S PROVE Newer(S, a) \in FiniteSubsetsOf(S)
    <3>1. Newer(S, a) \in SUBSET S
      BY DEF Newer
    <3>2. IsFiniteSet(Newer(S, a))
      BY <1>1, <3>1, FS_Subset
    <3> QED
      BY <3>1, <3>2 DEF FiniteSubsetsOf
  <2> QED
    BY <2>1
<1>3. PICK N \in T : \A M \in T : <<M, N>> \notin StrictSubsetOrdering(S)
  <2> HIDE DEF T
  <2> QED
    BY <1>2, FS_StrictSubsetOrderingWellFounded, WFMin
<1>4. PICK m \in S : N = Newer(S, m)
  BY <1>3
<1>5. ASSUME NEW x \in S, x > m PROVE FALSE
  <2>1. x \in Nat /\ m \in Nat /\ \A y \in S : y \in Nat
    OBVIOUS
  <2>2. Newer(S, x) \subseteq Newer(S, m)
    <3> SUFFICES ASSUME NEW b \in S, b > x PROVE b > m
      BY DEF Newer
    <3> QED
      BY <1>5, <2>1
  <2>3. x \in Newer(S, m) /\ x \notin Newer(S, x)
    BY <1>5, <2>1 DEF Newer
  <2>4. <<Newer(S, x), Newer(S, m)>> \in StrictSubsetOrdering(S)
    BY <2>2, <2>3 DEF StrictSubsetOrdering, Newer
  <2> QED
    BY <1>3, <1>4, <2>4
<1>6. \A x \in S : x <= m
  BY <1>5
<1> QED
  BY <1>1, <1>6

\* And an oldest one.
LEMMA OldestExists ==
  ASSUME NEW n \in Nat, NEW S \in SUBSET (1..n), S # {}
  PROVE  \E m \in S : \A x \in S : m <= x
<1> DEFINE T == {n + 1 - x : x \in S}
<1>1. T \in SUBSET (1..n) /\ T # {}
  <2>1. ASSUME NEW x \in S PROVE n + 1 - x \in 1..n
    OBVIOUS
  <2> QED
    BY <2>1
<1>2. PICK k \in T : \A y \in T : y <= k
  <2> HIDE DEF T
  <2> QED
    BY <1>1, NewestExists
<1>3. PICK m \in S : k = n + 1 - m
  BY <1>2
<1>4. ASSUME NEW x \in S PROVE m <= x
  <2>1. n + 1 - x <= k
    BY <1>2
  <2> QED
    BY <1>3, <2>1
<1> QED
  BY <1>4

\* More than P ids have one with exactly P newer ones: NextCursor finds it.
LEMMA CursorExists ==
  ASSUME NEW n \in Nat, NEW S \in SUBSET (1..n), NEW P \in Nat, Cardinality(S) > P
  PROVE  \E a \in S : Cardinality(Newer(S, a)) = P
<1> DEFINE T == {a \in S : Cardinality(Newer(S, a)) >= P}
<1>1. \A U \in SUBSET S : IsFiniteSet(U) /\ Cardinality(U) \in Nat
  <2>1. IsFiniteSet(1..n)
    BY FS_Interval
  <2>2. ASSUME NEW U \in SUBSET S PROVE IsFiniteSet(U)
    BY <2>1, <2>2, FS_Subset
  <2> QED
    BY <2>2, FS_CardinalityType
<1>2. S # {}
  BY FS_EmptySet
<1>3. ASSUME NEW U \in SUBSET S, NEW a \in U, \A x \in U : a <= x, \A x \in S : x > a => x \in U
      PROVE  Newer(S, a) = U \ {a} /\ Cardinality(Newer(S, a)) = Cardinality(U) - 1
  <2>1. Newer(S, a) = U \ {a}
    <3>1. \A x \in S : x \in Nat
      OBVIOUS
    <3>2. ASSUME NEW x \in S PROVE x > a <=> x \in U /\ x # a
      BY <1>3, <3>1
    <3> QED
      BY <3>2 DEF Newer
  <2> QED
    BY <1>1, <2>1, FS_RemoveElement
<1>4. T # {}
  <2>1. PICK a \in S : \A x \in S : a <= x
    BY <1>2, OldestExists
  <2>2. Cardinality(Newer(S, a)) = Cardinality(S) - 1
    BY <1>3, <2>1
  <2>3. Cardinality(S) \in Nat
    BY <1>1
  <2>4. a \in T
    BY <2>2, <2>3
  <2> QED
    BY <2>4
<1>5. PICK m \in T : \A x \in T : x <= m
  <2>1. T \in SUBSET (1..n)
    OBVIOUS
  <2> HIDE DEF T
  <2> QED
    BY <1>4, <2>1, NewestExists
<1> DEFINE N == Newer(S, m)
<1>6. m \in S /\ N \in SUBSET S /\ Cardinality(N) \in Nat /\ Cardinality(N) >= P
  BY <1>1 DEF Newer
<1>7. ASSUME Cardinality(N) > P PROVE FALSE
  <2>1. N # {}
    BY <1>7, FS_EmptySet
  <2>2. PICK b \in N : \A x \in N : b <= x
    <3>1. N \in SUBSET (1..n)
      BY <1>6
    <3> HIDE DEF N
    <3> QED
      BY <2>1, <3>1, OldestExists
  <2>3. b \in S /\ b > m
    BY <2>2 DEF Newer
  <2>4. \A x \in S : x > b => x \in N
    BY <1>6, <2>3 DEF Newer
  <2>5. Cardinality(Newer(S, b)) = Cardinality(N) - 1
    BY <1>3, <1>6, <2>2, <2>4
  <2>6. b \in T
    BY <1>6, <1>7, <2>3, <2>5
  <2> QED
    BY <1>5, <1>6, <2>3, <2>6
<1>8. Cardinality(N) = P
  BY <1>6, <1>7
<1> QED
  BY <1>6, <1>8

-----------------------------------------------------------------------------
(* The inductive invariant.                                                 *)

\* From the cooldown of a rule to its stamp, the rule is still in the page.
Busy == worker.pc \in {"check", "evaluate", "dispatch", "log", "stamp"}

BusyOnPage == Busy => worker.page # {}

\* The dispatch has a channel to go to.
BeforeDispatch ==
    worker.pc \in {"fetch", "check", "evaluate", "dispatch"} => worker.channel \in Channels

\* One document of a rule in a page.
OneDocEach == \A d, e \in worker.page : d.id = e.id => d = e

\* A document knows the stamp of its rule, unless the rule is gone.
StampsKnown ==
    \A d \in worker.page : rules[d.id].lastFired \in {Never, d.lastFired}

\* Who is evaluated and dispatched was out of its cooldown; time only helps.
OutOfCooldown == worker.pc \in {"evaluate", "dispatch"} => ~InCooldown(Current, clock)

\* Who is about to be stamped has its entry, unless the rule is deleted: no rule
\* comes back.
FiringLogged ==
    worker.pc = "stamp" =>
        \/ rules[Current.id].state = "deleted"
        \/ [alert |-> Current.id, at |-> worker.firedAt] \in fireLog

\* A rule of the page that has not been logged yet.
Pending(a) ==
    \E d \in worker.page : d.id = a /\ ~(worker.pc = "stamp" /\ d = Current)

\* The entries of a deleted rule, once its history has been deleted.
OneOrphan ==
    \A a \in Alerts : rules[a].state = "deleted" /\ a \notin deleting =>
        /\ \A l, m \in fireLog : l.alert = a /\ m.alert = a => l = m
        /\ Pending(a) => \A l \in fireLog : l.alert # a

LInv ==
    /\ TypeOK /\ BusyOnPage /\ BeforeDispatch /\ OneDocEach
    /\ StampsKnown /\ OutOfCooldown /\ OneOrphan

\* The history explains every stamp, those to come included.
SInv == LInv /\ FiringLogged /\ StampsAreLogged

\* The document the worker is at is in its page.
LEMMA CurrentInPage ==
  ASSUME TypeOK, worker.page # {}
  PROVE  Current \in worker.page /\ Current \in Doc /\ Current.id \in Alerts
<1>1. worker.page \subseteq Doc
  BY DEF TypeOK, Worker
<1> DEFINE ids == {d.id : d \in worker.page}
<1>2. ids \in SUBSET (1..MaxAlerts) /\ ids # {}
  BY <1>1 DEF Doc, Alerts
<1>3. PICK m \in ids : \A x \in ids : x <= m
  <2> HIDE DEF ids
  <2> QED
    BY <1>2, AlertingAssumption, NewestExists
<1>4. \E d \in worker.page : \A e \in worker.page : e.id <= d.id
  BY <1>3
<1>5. Current \in worker.page
  BY <1>4 DEF Current
<1> QED
  BY <1>1, <1>5 DEF Doc

\* What Advance does to the worker.
LEMMA AdvanceShape ==
  ASSUME TypeOK, worker.page # {}
  PROVE  LET w == Advance(worker)
         IN  /\ w \in Worker
             /\ w.page = worker.page \ {Current}
             /\ w.pc \in {"check", "fetch", "sleep"}
             /\ w.pc = "check" => w.page # {}
             /\ w.channel = 1
<1>1. worker \in Worker
  BY DEF TypeOK
<1>2. 1 \in 1..(NumChannels + 1) /\ NoCursor \in Alerts \union {NoCursor}
  BY AlertingAssumption
<1> DEFINE rest == worker.page \ {Current}
           cursor == IF rest = {} THEN worker.next ELSE worker.cursor
           next == IF rest = {} THEN NoCursor ELSE worker.next
           pc == IF rest # {} THEN "check" ELSE IF worker.next # NoCursor THEN "fetch" ELSE "sleep"
<1>3. Advance(worker) = [worker EXCEPT !.page = rest, !.channel = 1,
                                       !.firedAt = Never, !.cursor = cursor, !.next = next,
                                       !.pc = pc]
  BY DEF Advance
<1>4. /\ rest \in SUBSET Doc /\ cursor \in Alerts \union {NoCursor}
      /\ next \in Alerts \union {NoCursor}
      /\ pc \in {"check", "fetch", "sleep"}
      /\ pc = "check" => rest # {}
  BY <1>1, <1>2 DEF Worker
<1> HIDE DEF rest, cursor, next, pc
<1>5. Advance(worker) = [pc |-> pc, page |-> rest, cursor |-> cursor, next |-> next,
                         channel |-> 1, firedAt |-> Never]
  BY <1>1, <1>3 DEF Worker
<1>6. Advance(worker) \in Worker
  BY <1>2, <1>4, <1>5 DEF Worker, Never
<1> QED
  BY <1>4, <1>5, <1>6 DEF rest

\* The next rule, page or cycle keeps the invariant, and so does the stamp.
LEMMA AdvanceKeepsLInv ==
  ASSUME LInv, Busy, worker' = Advance(worker),
         rules' = rules \/ (worker.firedAt \in Nat /\ rules' = Stamped(Current.id, worker.firedAt)),
         fireLog' = fireLog \/ (worker.pc = "log" /\ fireLog' = Logged),
         UNCHANGED <<clock, deleting, breaching, received, exits>>
  PROVE  LInv'
<1>1. /\ TypeOK /\ worker.page # {}
      /\ Current \in worker.page /\ Current \in Doc /\ Current.id \in Alerts
  BY CurrentInPage DEF LInv, BusyOnPage
<1>2. /\ worker' \in Worker /\ worker'.page = worker.page \ {Current}
      /\ worker'.pc \in {"check", "fetch", "sleep"}
      /\ worker'.pc = "check" => worker'.page # {}
      /\ worker'.channel = 1
  BY <1>1, AdvanceShape
<1>3. /\ rules' \in [Alerts -> Rule]
      /\ \A a \in Alerts : rules'[a].state = rules[a].state
      /\ \A a \in Alerts : a # Current.id => rules'[a].lastFired = rules[a].lastFired
  <2>1. rules \in [Alerts -> Rule]
    BY <1>1 DEF TypeOK
  <2> QED
    BY <1>1, <2>1 DEF Stamped, Rule
<1>4. TypeOK'
  <2>1. [alert |-> Current.id, at |-> clock] \in FireLogEntry
    BY <1>1 DEF FireLogEntry, TypeOK
  <2>2. fireLog' \subseteq FireLogEntry
    BY <1>1, <2>1 DEF Logged, TypeOK
  <2> QED
    BY <1>1, <1>2, <1>3, <2>2 DEF TypeOK
<1>5. BusyOnPage' /\ BeforeDispatch' /\ OutOfCooldown'
  BY <1>2, AlertingAssumption DEF BusyOnPage, Busy, BeforeDispatch, OutOfCooldown, Channels
<1>6. OneDocEach'
  BY <1>2 DEF LInv, OneDocEach
<1>7. StampsKnown'
  <2> SUFFICES ASSUME NEW d \in worker.page, d # Current
               PROVE  rules'[d.id].lastFired \in {Never, d.lastFired}
    BY <1>2 DEF StampsKnown
  <2>1. d.id # Current.id /\ d.id \in Alerts
    BY <1>1 DEF LInv, OneDocEach, TypeOK, Worker, Doc
  <2> QED
    BY <1>3, <2>1 DEF LInv, StampsKnown
<1>8. OneOrphan'
  <2> SUFFICES ASSUME NEW a \in Alerts, rules[a].state = "deleted", a \notin deleting
               PROVE  /\ \A l, m \in fireLog' : l.alert = a /\ m.alert = a => l = m
                      /\ Pending(a)' => \A l \in fireLog' : l.alert # a
    BY <1>3 DEF OneOrphan
  <2> DEFINE entry == [alert |-> Current.id, at |-> clock]
  <2>1. entry.alert = Current.id
    OBVIOUS
  <2>2. Logged = fireLog \union {entry}
    BY DEF Logged
  <2>3. /\ \A l, m \in fireLog : l.alert = a /\ m.alert = a => l = m
        /\ Pending(a) => \A l \in fireLog : l.alert # a
    BY DEF LInv, OneOrphan
  <2>4. Pending(a)' => Pending(a)
    BY <1>2 DEF Pending
  <2> HIDE DEF entry
  <2>5. CASE fireLog' = fireLog
    BY <2>3, <2>4, <2>5
  <2>6. CASE worker.pc = "log" /\ fireLog' = Logged /\ a = Current.id
    <3>1. Pending(a)
      BY <1>1, <2>6 DEF Pending
    <3>2. ~Pending(a)'
      BY <1>1, <1>2, <2>6 DEF Pending, LInv, OneDocEach
    <3> QED
      BY <2>1, <2>2, <2>3, <2>6, <3>1, <3>2
  <2>7. CASE worker.pc = "log" /\ fireLog' = Logged /\ a # Current.id
    BY <2>1, <2>2, <2>3, <2>4, <2>7
  <2> QED
    BY <2>5, <2>6, <2>7
<1> QED
  BY <1>4, <1>5, <1>6, <1>7, <1>8 DEF LInv

\* A worker that begins or ends a cycle, or ends, keeps the invariant.
LEMMA FreshWorkerKeepsLInv ==
  ASSUME LInv, NEW pc \in {"down", "fetch", "sleep"}, worker' = [DownWorker EXCEPT !.pc = pc],
         exits' \in 0..MaxExits,
         UNCHANGED <<clock, rules, fireLog, deleting, breaching, received>>
  PROVE  LInv'
<1>1. /\ worker' \in Worker /\ worker'.pc = pc /\ worker'.page = {}
      /\ worker'.channel = 1 /\ 1 \in Channels
  BY AlertingAssumption DEF DownWorker, Worker, Channels, NoCursor, Never
<1>2. TypeOK'
  BY <1>1 DEF LInv, TypeOK
<1>3. BusyOnPage' /\ BeforeDispatch' /\ OneDocEach' /\ StampsKnown' /\ OutOfCooldown'
  BY <1>1 DEF BusyOnPage, Busy, BeforeDispatch, OneDocEach, StampsKnown, OutOfCooldown, Channels
<1>4. OneOrphan'
  BY <1>1 DEF LInv, OneOrphan, Pending
<1> QED
  BY <1>2, <1>3, <1>4 DEF LInv

\* The ids of a page.
LEMMA PageOfFetch ==
  ASSUME NEW S \in SUBSET Alerts
  PROVE  /\ FirstOf(S, PageSize) \subseteq S
         /\ S # {} => FirstOf(S, PageSize) # {}
         /\ NextCursor(S) \in Alerts \union {NoCursor}
<1>1. S \in SUBSET (1..MaxAlerts) /\ MaxAlerts \in Nat /\ PageSize \in Nat \ {0}
  BY AlertingAssumption DEF Alerts
<1>2. FirstOf(S, PageSize) \subseteq S
  BY DEF FirstOf
<1>3. ASSUME S # {} PROVE FirstOf(S, PageSize) # {}
  <2>1. PICK m \in S : \A x \in S : x <= m
    BY <1>1, <1>3, NewestExists
  <2>2. \A x \in S : x \in Nat
    BY <1>1
  <2>3. Newer(S, m) = {}
    BY <2>1, <2>2 DEF Newer
  <2>4. Cardinality(Newer(S, m)) < PageSize
    BY <1>1, <2>3, FS_EmptySet
  <2> QED
    BY <2>4 DEF FirstOf
<1>4. NextCursor(S) \in Alerts \union {NoCursor}
  <2>1. CASE Cardinality(S) > PageSize
    <3>1. \E a \in S : Cardinality(Newer(S, a)) = PageSize
      BY <1>1, <2>1, CursorExists
    <3>2. NextCursor(S) \in S
      BY <2>1, <3>1 DEF NextCursor
    <3> QED
      BY <3>2
  <2>2. CASE ~(Cardinality(S) > PageSize)
    BY <2>2 DEF NextCursor
  <2> QED
    BY <2>1, <2>2
<1> QED
  BY <1>2, <1>3, <1>4

\* Reading a page keeps the invariant: it is read as it is stored.
LEMMA FetchKeepsLInv == ASSUME LInv, FetchPage PROVE LInv'
<1> DEFINE S == Candidates(worker.cursor)
           doc(a) == [id |-> a, cooldown |-> rules[a].cooldown, lastFired |-> rules[a].lastFired]
           page == {doc(a) : a \in FirstOf(S, PageSize)}
           pc == IF S = {} THEN "sleep" ELSE "check"
<1>1. S \in SUBSET Alerts /\ \A a \in S : rules[a].state = "enabled"
  BY DEF Candidates, Enabled
<1>2. /\ worker.pc = "fetch" /\ TypeOK /\ worker \in Worker
      /\ UNCHANGED <<clock, rules, fireLog, deleting, breaching, received, exits>>
  BY DEF FetchPage, LInv, TypeOK
<1>3. worker' = [worker EXCEPT !.page = page, !.next = NextCursor(S), !.pc = pc]
  BY DEF FetchPage
<1>4. /\ FirstOf(S, PageSize) \subseteq S
      /\ S # {} => FirstOf(S, PageSize) # {}
      /\ NextCursor(S) \in Alerts \union {NoCursor}
  BY <1>1, PageOfFetch
<1>5. \A d \in page : /\ d \in Doc /\ d.lastFired = rules[d.id].lastFired
                      /\ rules[d.id].state = "enabled" /\ d = doc(d.id)
  BY <1>1, <1>2, <1>4 DEF TypeOK, Rule, Doc
<1>6. pc \in {"sleep", "check"} /\ (pc = "check" => page # {})
  BY <1>4
<1> HIDE DEF S, page, pc
<1>7. /\ worker' = [pc |-> pc, page |-> page, cursor |-> worker.cursor,
                    next |-> NextCursor(S), channel |-> worker.channel,
                    firedAt |-> worker.firedAt]
  BY <1>2, <1>3 DEF Worker
<1>8. worker' \in Worker
  BY <1>2, <1>4, <1>5, <1>6, <1>7 DEF Worker
<1>9. worker'.page = page /\ worker'.pc = pc
      /\ worker'.channel = worker.channel
  BY <1>7
<1>10. TypeOK'
  BY <1>2, <1>8 DEF TypeOK
<1>11. BusyOnPage' /\ BeforeDispatch' /\ OutOfCooldown'
  BY <1>2, <1>6, <1>9 DEF LInv, BusyOnPage, Busy, BeforeDispatch, OutOfCooldown
<1>12. OneDocEach'
  <2> SUFFICES ASSUME NEW d \in page, NEW e \in page, d.id = e.id PROVE d = e
    BY <1>9 DEF OneDocEach
  <2>1. d = doc(d.id) /\ e = doc(e.id)
    BY <1>5
  <2> QED
    BY <2>1
<1>13. StampsKnown'
  BY <1>2, <1>5, <1>9 DEF StampsKnown
<1>14. OneOrphan'
  <2>1. ASSUME NEW a \in Alerts, Pending(a)' PROVE rules[a].state = "enabled"
    BY <1>5, <1>9, <2>1 DEF Pending
  <2> QED
    BY <1>2, <2>1 DEF LInv, OneOrphan
<1> QED
  BY <1>10, <1>11, <1>12, <1>13, <1>14 DEF LInv

\* Going on with the same rule keeps the invariant.
LEMMA SameRuleKeepsLInv ==
  ASSUME LInv, Busy, NEW pc \in {"evaluate", "dispatch", "log"},
         NEW channel \in 1..(NumChannels + 1),
         worker' = [worker EXCEPT !.pc = pc, !.channel = channel],
         worker.pc # "stamp", pc # "log" => channel \in Channels,
         pc = "evaluate" => ~InCooldown(Current, clock),
         pc = "dispatch" => worker.pc \in {"evaluate", "dispatch"},
         received' \subseteq Notification,
         UNCHANGED <<clock, rules, fireLog, deleting, breaching, exits>>
  PROVE  LInv' /\ Current' = Current
<1>1. worker \in Worker
  BY DEF LInv, TypeOK
<1>2. /\ worker' \in Worker /\ worker'.page = worker.page /\ worker'.pc = pc
      /\ worker'.channel = channel
  BY <1>1 DEF Worker
<1>3. Current' = Current
  BY <1>2 DEF Current
<1>4. TypeOK'
  BY <1>2 DEF LInv, TypeOK
<1>5. BusyOnPage' /\ BeforeDispatch' /\ OneDocEach' /\ StampsKnown'
  BY <1>2 DEF LInv, BusyOnPage, Busy, BeforeDispatch, OneDocEach, StampsKnown
<1>6. OutOfCooldown'
  BY <1>2, <1>3 DEF LInv, OutOfCooldown, InCooldown
<1>7. OneOrphan'
  <2>1. ASSUME NEW a \in Alerts, Pending(a)' PROVE Pending(a)
    BY <1>2, <2>1 DEF Pending
  <2> QED
    BY <2>1 DEF LInv, OneOrphan
<1> QED
  BY <1>3, <1>4, <1>5, <1>6, <1>7 DEF LInv

\* Writing the fire log keeps the invariant.
LEMMA LogFireKeepsLInv == ASSUME LInv, LogFire PROVE LInv' /\ Current' = Current
<1>1. /\ TypeOK /\ worker \in Worker /\ worker.pc = "log" /\ worker.page # {}
      /\ clock \in Nat
  BY DEF LogFire, LInv, TypeOK, BusyOnPage, Busy
<1>2. Current \in worker.page /\ Current.id \in Alerts
  BY <1>1, CurrentInPage
<1>3. /\ worker' \in Worker /\ worker'.page = worker.page /\ worker'.pc = "stamp"
      /\ worker'.channel = worker.channel
  BY <1>1 DEF LogFire, Worker
<1>4. Current' = Current
  BY <1>3 DEF Current
<1>5. TypeOK'
  <2>1. [alert |-> Current.id, at |-> clock] \in FireLogEntry
    BY <1>1, <1>2 DEF FireLogEntry, Worker
  <2> QED
    BY <1>1, <1>3, <2>1 DEF LogFire, Logged, TypeOK
<1>6. BusyOnPage' /\ BeforeDispatch' /\ OneDocEach' /\ StampsKnown' /\ OutOfCooldown'
  BY <1>3 DEF LogFire, LInv, BusyOnPage, Busy, BeforeDispatch, OneDocEach, StampsKnown,
     OutOfCooldown
<1>7. OneOrphan'
  <2> SUFFICES ASSUME NEW a \in Alerts, rules[a].state = "deleted", a \notin deleting
               PROVE  /\ \A l, m \in fireLog' : l.alert = a /\ m.alert = a => l = m
                      /\ Pending(a)' => \A l \in fireLog' : l.alert # a
    BY DEF LogFire, OneOrphan
  <2> DEFINE entry == [alert |-> Current.id, at |-> clock]
  <2>1. fireLog' = fireLog \union {entry} /\ entry.alert = Current.id
    BY DEF LogFire, Logged
  <2>2. /\ \A l, m \in fireLog : l.alert = a /\ m.alert = a => l = m
        /\ Pending(a) => \A l \in fireLog : l.alert # a
    BY DEF LInv, OneOrphan
  <2> HIDE DEF entry
  <2>3. CASE a = Current.id
    <3>1. Pending(a)
      BY <1>1, <1>2, <2>3 DEF Pending
    <3>2. ~Pending(a)'
      BY <1>2, <1>3, <1>4, <2>3 DEF Pending, LInv, OneDocEach
    <3> QED
      BY <2>1, <2>2, <3>1, <3>2
  <2>4. CASE a # Current.id
    <3>1. Pending(a)' => Pending(a)
      BY <1>1, <1>3 DEF Pending
    <3> QED
      BY <2>1, <2>2, <2>4, <3>1
  <2> QED
    BY <2>3, <2>4
<1> QED
  BY <1>4, <1>5, <1>6, <1>7 DEF LInv

\* What the API does to one rule keeps the invariant: it never moves a stamp but
\* to forget it.
LEMMA RuleChangeKeepsLInv ==
  ASSUME LInv, NEW a \in Alerts, NEW rule \in Rule,
         rules' = [rules EXCEPT ![a] = rule],
         rule.lastFired \in {Never, rules[a].lastFired},
         rule.state = "deleted" => deleting' = deleting \union {a},
         rule.state # "deleted" => deleting' = deleting,
         UNCHANGED <<clock, fireLog, breaching, received, worker, exits>>
  PROVE  LInv' /\ Current' = Current
<1>1. rules \in [Alerts -> Rule] /\ worker.page \subseteq Doc
  BY DEF LInv, TypeOK, Worker
<1>2. /\ rules' \in [Alerts -> Rule] /\ rules'[a] = rule
      /\ \A b \in Alerts \ {a} : rules'[b] = rules[b]
  BY <1>1
<1>3. TypeOK'
  BY <1>2 DEF LInv, TypeOK
<1>4. StampsKnown'
  <2> SUFFICES ASSUME NEW d \in worker.page
               PROVE  rules'[d.id].lastFired \in {Never, d.lastFired}
    BY DEF StampsKnown
  <2>1. d.id \in Alerts /\ rules[d.id].lastFired \in {Never, d.lastFired}
    BY <1>1 DEF LInv, StampsKnown, Doc
  <2> QED
    BY <1>2, <2>1
<1>5. Current' = Current
  BY DEF Current
<1>6. OneOrphan'
  <2>1. ASSUME NEW b \in Alerts, rules'[b].state = "deleted", b \notin deleting'
        PROVE  rules[b].state = "deleted" /\ b \notin deleting
    BY <1>2, <2>1
  <2>2. \A b \in Alerts : Pending(b)' <=> Pending(b)
    BY <1>5 DEF Pending
  <2> QED
    BY <2>1, <2>2 DEF LInv, OneOrphan
<1>7. BusyOnPage' /\ BeforeDispatch' /\ OneDocEach' /\ OutOfCooldown'
  BY <1>5 DEF LInv, BusyOnPage, Busy, BeforeDispatch, OneDocEach, OutOfCooldown, InCooldown
<1> QED
  BY <1>3, <1>4, <1>5, <1>6, <1>7 DEF LInv

\* The operations of the API keep the invariant.
LEMMA ApiKeepsLInv ==
  ASSUME LInv, NEW a \in Alerts,
         \/ DeleteAlert(a)
         \/ \E c \in Cooldowns : CreateAlert(a, c) \/ UpdateAlert(a, c)
         \/ \E s \in {"enabled", "disabled"} : SetEnabled(a, s)
  PROVE  LInv' /\ Current' = Current /\ received' = received /\ fireLog' = fireLog
         /\ clock' = clock /\ worker' = worker
<1>1. rules \in [Alerts -> Rule] /\ rules[a] \in Rule
  BY DEF LInv, TypeOK
<1>2. CASE DeleteAlert(a)
  <2>1. Blank("deleted") \in Rule
    BY AlertingAssumption DEF Blank, Rule, Never
  <2> QED
    BY <1>2, <2>1, RuleChangeKeepsLInv DEF DeleteAlert, Blank
<1>3. ASSUME NEW c \in Cooldowns, CreateAlert(a, c)
      PROVE  LInv' /\ Current' = Current /\ received' = received /\ fireLog' = fireLog
             /\ clock' = clock /\ worker' = worker
  <2> DEFINE rule == [state |-> "enabled", cooldown |-> c, lastFired |-> Never]
  <2>1. rule \in Rule /\ rule.state # "deleted" /\ rule.lastFired = Never
    BY DEF Rule, Never
  <2>2. rules' = [rules EXCEPT ![a] = rule]
    BY <1>3 DEF CreateAlert
  <2> HIDE DEF rule
  <2> QED
    BY <1>3, <2>1, <2>2, RuleChangeKeepsLInv DEF CreateAlert
<1>4. ASSUME NEW c \in Cooldowns, UpdateAlert(a, c)
      PROVE  LInv' /\ Current' = Current /\ received' = received /\ fireLog' = fireLog
             /\ clock' = clock /\ worker' = worker
  <2> DEFINE rule == [rules[a] EXCEPT !.cooldown = c]
  <2>1. rule \in Rule /\ rule.state # "deleted" /\ rule.lastFired = rules[a].lastFired
    BY <1>1, <1>4 DEF Rule, UpdateAlert, Exists
  <2>2. rules' = [rules EXCEPT ![a] = rule]
    BY <1>4 DEF UpdateAlert
  <2> HIDE DEF rule
  <2> QED
    BY <1>4, <2>1, <2>2, RuleChangeKeepsLInv DEF UpdateAlert
<1>5. ASSUME NEW s \in {"enabled", "disabled"}, SetEnabled(a, s)
      PROVE  LInv' /\ Current' = Current /\ received' = received /\ fireLog' = fireLog
             /\ clock' = clock /\ worker' = worker
  <2> DEFINE rule == [rules[a] EXCEPT !.state = s]
  <2>1. rule \in Rule /\ rule.state # "deleted" /\ rule.lastFired = rules[a].lastFired
    BY <1>1 DEF Rule
  <2>2. rules' = [rules EXCEPT ![a] = rule]
    BY <1>5 DEF SetEnabled
  <2> HIDE DEF rule
  <2> QED
    BY <1>5, <2>1, <2>2, RuleChangeKeepsLInv DEF SetEnabled
<1> QED
  BY <1>2, <1>3, <1>4, <1>5 DEF DeleteAlert

\* Deleting the history of a rule keeps the invariant.
LEMMA HistoryKeepsLInv ==
  ASSUME LInv, NEW a \in Alerts, DeleteHistory(a)
  PROVE  LInv' /\ Current' = Current
<1>1. /\ UNCHANGED <<clock, rules, breaching, received, worker, exits>>
      /\ fireLog' = Purged(a) /\ deleting' = deleting \ {a}
  BY DEF DeleteHistory
<1>2. Current' = Current
  BY <1>1 DEF Current
<1>3. fireLog' \subseteq fireLog /\ \A l \in fireLog' : l.alert # a
  BY <1>1 DEF Purged
<1>4. OneOrphan'
  <2>1. \A b \in Alerts : Pending(b)' <=> Pending(b)
    BY <1>1, <1>2 DEF Pending
  <2> QED
    BY <1>1, <1>3, <2>1 DEF LInv, OneOrphan
<1>5. TypeOK'
  BY <1>1, <1>3 DEF LInv, TypeOK
<1>6. BusyOnPage' /\ BeforeDispatch' /\ OneDocEach' /\ StampsKnown' /\ OutOfCooldown'
  BY <1>1, <1>2 DEF LInv, BusyOnPage, Busy, BeforeDispatch, OneDocEach, StampsKnown,
     OutOfCooldown, InCooldown
<1> QED
  BY <1>2, <1>4, <1>5, <1>6 DEF LInv

\* Time and metrics keep the invariant.
LEMMA WorldKeepsLInv ==
  ASSUME LInv, clock' \in clock..(MaxTime + 1), breaching' \subseteq Alerts,
         UNCHANGED <<rules, fireLog, deleting, received, worker, exits>>
  PROVE  LInv' /\ Current' = Current
<1>1. Current' = Current
  BY DEF Current
<1>2. TypeOK'
  BY AlertingAssumption DEF LInv, TypeOK
<1>3. OutOfCooldown'
  <2> SUFFICES ASSUME worker.pc \in {"evaluate", "dispatch"} PROVE ~InCooldown(Current, clock')
    BY <1>1 DEF OutOfCooldown, InCooldown
  <2>1. worker.page # {} /\ TypeOK
    BY DEF LInv, BusyOnPage, Busy
  <2>2. /\ Current.lastFired \in Nat /\ Current.cooldown \in Nat
        /\ clock \in Nat /\ clock' \in Nat /\ clock <= clock'
    BY <2>1, CurrentInPage, AlertingAssumption DEF Doc, TypeOK
  <2> QED
    BY <2>2 DEF LInv, OutOfCooldown, InCooldown
<1>4. OneOrphan'
  <2>1. \A b \in Alerts : Pending(b)' <=> Pending(b)
    BY <1>1 DEF Pending
  <2> QED
    BY <2>1 DEF LInv, OneOrphan
<1>5. BusyOnPage' /\ BeforeDispatch' /\ OneDocEach' /\ StampsKnown'
  BY DEF LInv, BusyOnPage, Busy, BeforeDispatch, OneDocEach, StampsKnown
<1> QED
  BY <1>1, <1>2, <1>3, <1>4, <1>5 DEF LInv

\* The invariant holds at the start.
LEMMA LInvInit == Init => LInv
<1> SUFFICES ASSUME Init PROVE LInv
  OBVIOUS
<1>1. /\ DownWorker \in Worker /\ DownWorker.pc = "down" /\ DownWorker.page = {}
      /\ Blank("absent") \in Rule /\ Blank("absent").state = "absent"
  BY AlertingAssumption DEF DownWorker, Worker, Blank, Rule, NoCursor, Never
<1>2. TypeOK
  BY <1>1, AlertingAssumption DEF Init, TypeOK
<1>3. BusyOnPage /\ BeforeDispatch /\ OneDocEach /\ StampsKnown /\ OutOfCooldown
  BY <1>1 DEF Init, BusyOnPage, Busy, BeforeDispatch, OneDocEach, StampsKnown, OutOfCooldown
<1>4. OneOrphan
  BY <1>1 DEF Init, OneOrphan
<1> QED
  BY <1>2, <1>3, <1>4 DEF LInv

\* Dispatching to a channel keeps the invariant.
LEMMA DispatchKeepsLInv == ASSUME LInv, DispatchChannel PROVE LInv' /\ Current' = Current
<1>1. /\ worker.pc = "dispatch" /\ worker \in Worker /\ worker.channel \in Channels
      /\ clock \in Nat /\ received \subseteq Notification /\ worker.page # {}
  BY DEF DispatchChannel, LInv, TypeOK, BeforeDispatch, BusyOnPage, Busy
<1>2. /\ \/ received' = received \union {[alert |-> Current.id, at |-> clock,
                                         channel |-> worker.channel]}
         \/ received' = received
      /\ worker' = [worker EXCEPT
           !.channel = @ + 1,
           !.pc = IF LastChannel(worker.channel) THEN "log" ELSE "dispatch"]
  BY DEF DispatchChannel
<1> DEFINE pc == IF LastChannel(worker.channel) THEN "log" ELSE "dispatch"
           channel == worker.channel + 1
<1>3. Current.id \in Alerts
  BY <1>1, CurrentInPage DEF LInv
<1>4. received' \subseteq Notification
  BY <1>1, <1>2, <1>3 DEF Notification
<1>5. /\ pc \in {"dispatch", "log"} /\ channel \in 1..(NumChannels + 1)
      /\ pc # "log" => channel \in Channels
  BY <1>1, AlertingAssumption DEF Channels, LastChannel, Worker
<1>6. worker' = [worker EXCEPT !.pc = pc, !.channel = channel]
  BY <1>1, <1>2 DEF Worker
<1>7. UNCHANGED <<clock, rules, fireLog, deleting, breaching, exits>>
  BY DEF DispatchChannel
<1> HIDE DEF pc, channel
<1> QED
  BY <1>1, <1>4, <1>5, <1>6, <1>7, SameRuleKeepsLInv DEF Busy

\* A rule that is not evaluated or dispatched further, and one that is.
LEMMA DecisionKeepsLInv ==
  ASSUME LInv, CheckCooldown \/ Evaluate
  PROVE  LInv' /\ (worker' = Advance(worker) \/ Current' = Current)
<1>1. /\ Busy /\ worker \in Worker /\ worker.pc \in {"check", "evaluate"}
      /\ worker.channel \in Channels /\ worker.channel \in 1..(NumChannels + 1)
      /\ received' \subseteq Notification
      /\ UNCHANGED <<clock, rules, fireLog, deleting, breaching, received, exits>>
  <2>1. worker.pc \in {"check", "evaluate"} /\ TypeOK /\ BeforeDispatch
        /\ UNCHANGED <<clock, rules, fireLog, deleting, breaching, received, exits>>
    BY DEF CheckCooldown, Evaluate, LInv
  <2> QED
    BY <2>1 DEF Busy, TypeOK, BeforeDispatch, Worker
<1>2. CASE worker' = Advance(worker)
  BY <1>1, <1>2, AdvanceKeepsLInv
<1>3. ASSUME NEW pc \in {"evaluate", "dispatch"}, worker' = [worker EXCEPT !.pc = pc],
             pc = "evaluate" => ~InCooldown(Current, clock),
             pc = "dispatch" => worker.pc = "evaluate"
      PROVE  LInv' /\ Current' = Current
  <2>1. worker' = [worker EXCEPT !.pc = pc, !.channel = worker.channel]
    BY <1>1, <1>3 DEF Worker
  <2>2. /\ pc \in {"evaluate", "dispatch", "log"} /\ worker.pc # "stamp"
        /\ pc = "dispatch" => worker.pc \in {"evaluate", "dispatch"}
    BY <1>1, <1>3
  <2> QED
    BY <1>1, <1>3, <2>1, <2>2, SameRuleKeepsLInv
<1>4. CASE worker' = [worker EXCEPT !.pc = "dispatch"] /\ worker.pc = "evaluate"
  BY <1>3, <1>4
<1>5. \/ worker' = Advance(worker)
      \/ worker' = [worker EXCEPT !.pc = "evaluate"] /\ ~InCooldown(Current, clock)
      \/ worker' = [worker EXCEPT !.pc = "dispatch"] /\ worker.pc = "evaluate"
  BY DEF CheckCooldown, Evaluate
<1> QED
  BY <1>2, <1>3, <1>4, <1>5

\* A page that is left behind, whole or for the next of its rules.
LEMMA LeavingKeepsLInv ==
  ASSUME LInv, StartWorker \/ Poll \/ FetchFails \/ ExitWorker \/ LogFireFails \/ StampFire
  PROVE  LInv'
<1>1. CASE StartWorker \/ Poll
  BY <1>1, FreshWorkerKeepsLInv DEF StartWorker, Poll, LInv, TypeOK
<1>2. CASE FetchFails
  BY <1>2, FreshWorkerKeepsLInv DEF FetchFails, LInv, TypeOK
<1>3. CASE ExitWorker
  <2>1. worker' = [DownWorker EXCEPT !.pc = "down"]
    BY <1>3 DEF ExitWorker, DownWorker
  <2>2. exits' \in 0..MaxExits
    BY <1>3, AlertingAssumption DEF ExitWorker, LInv, TypeOK
  <2> QED
    BY <1>3, <2>1, <2>2, FreshWorkerKeepsLInv DEF ExitWorker
<1>4. CASE LogFireFails
  BY <1>4, AdvanceKeepsLInv DEF LogFireFails, Busy
<1>5. CASE StampFire
  <2>1. worker.firedAt \in Nat
    BY DEF LInv, TypeOK, Worker
  <2> QED
    BY <1>5, <2>1, AdvanceKeepsLInv DEF StampFire, Busy
<1> QED
  BY <1>1, <1>2, <1>3, <1>4, <1>5

\* The clock and the metrics.
LEMMA OutsideKeepsLInv ==
  ASSUME LInv, Tick \/ (\E a \in Alerts : MetricsMove(a)) \/ UNCHANGED vars
  PROVE  LInv' /\ Current' = Current /\ received' = received /\ fireLog' = fireLog
         /\ worker' = worker /\ clock <= clock'
<1>1. clock \in Nat /\ MaxTime \in Nat /\ clock <= MaxTime + 1 /\ breaching \subseteq Alerts
  BY AlertingAssumption DEF LInv, TypeOK
<1>2. CASE Tick
  BY <1>1, <1>2, WorldKeepsLInv DEF Tick
<1>3. ASSUME NEW a \in Alerts, MetricsMove(a)
      PROVE  clock' \in clock..(MaxTime + 1) /\ breaching' \subseteq Alerts
             /\ UNCHANGED <<clock, rules, fireLog, deleting, received, worker, exits>>
  BY <1>1, <1>3 DEF MetricsMove
<1>4. CASE \E a \in Alerts : MetricsMove(a)
  BY <1>1, <1>3, <1>4, WorldKeepsLInv
<1>5. CASE UNCHANGED vars
  BY <1>1, <1>5, WorldKeepsLInv DEF vars
<1> QED
  BY <1>2, <1>4, <1>5

\* What the kinds of steps are.
LEMMA StepKinds ==
  ASSUME [Next]_vars
  PROVE  \/ StartWorker \/ Poll \/ FetchFails \/ ExitWorker \/ LogFireFails \/ StampFire
         \/ FetchPage \/ LogFire \/ DispatchChannel
         \/ CheckCooldown \/ Evaluate
         \/ \E a \in Alerts : \/ DeleteAlert(a)
                              \/ \E c \in Cooldowns : CreateAlert(a, c) \/ UpdateAlert(a, c)
                              \/ \E s \in {"enabled", "disabled"} : SetEnabled(a, s)
         \/ \E a \in Alerts : DeleteHistory(a)
         \/ Tick \/ (\E a \in Alerts : MetricsMove(a)) \/ UNCHANGED vars
  BY DEF Next, WorkerStep

\* Every step keeps the invariant.
LEMMA LInvStep == LInv /\ [Next]_vars => LInv'
<1> SUFFICES ASSUME LInv, [Next]_vars PROVE LInv'
  OBVIOUS
<1>1. CASE StartWorker \/ Poll \/ FetchFails \/ ExitWorker \/ LogFireFails \/ StampFire
  BY <1>1, LeavingKeepsLInv
<1>2. CASE FetchPage
  BY <1>2, FetchKeepsLInv
<1>3. CASE LogFire
  BY <1>3, LogFireKeepsLInv
<1>4. CASE DispatchChannel
  BY <1>4, DispatchKeepsLInv
<1>5. CASE CheckCooldown \/ Evaluate
  BY <1>5, DecisionKeepsLInv
<1>6. ASSUME NEW a \in Alerts,
             \/ DeleteAlert(a)
             \/ \E c \in Cooldowns : CreateAlert(a, c) \/ UpdateAlert(a, c)
             \/ \E s \in {"enabled", "disabled"} : SetEnabled(a, s)
      PROVE  LInv'
  BY <1>6, ApiKeepsLInv
<1>7. ASSUME NEW a \in Alerts, DeleteHistory(a) PROVE LInv'
  BY <1>7, HistoryKeepsLInv
<1>8. CASE Tick \/ (\E a \in Alerts : MetricsMove(a)) \/ UNCHANGED vars
  BY <1>8, OutsideKeepsLInv
<1> QED
  BY <1>1, <1>2, <1>3, <1>4, <1>5, <1>6, <1>7, <1>8, StepKinds

LEMMA LInvAlways == Spec => []LInv
<1> QED
  BY LInvInit, LInvStep, PTL DEF Spec

-----------------------------------------------------------------------------
(* The theorems.                                                            *)

\* The collections and the worker hold what their types say: the page and its
\* cursor (findEnabled in alerting.repo.ts) as well as what is logged.
THEOREM AlertingTypeCorrect == Spec => []TypeOK
<1>1. LInv => TypeOK
  BY DEF LInv
<1> QED
  BY <1>1, LInvAlways, PTL

\* Whatever the API or a fire of the worker has done to a rule since it was read,
\* a notification leaves only when the stamp that is stored now is out of the
\* cooldown the rule was read with (isInCooldown in alertFireLog.service.ts,
\* runEvaluationCycle in alertingWorker.ts).
THEOREM AlertingRefiresRespectStamp == Spec => RefiresRespectStamp
<1>1. ASSUME LInv, DispatchChannel
      PROVE  LET stamp == rules[Current.id].lastFired
             IN  stamp = Never \/ clock - stamp >= Current.cooldown
  <2>1. worker.pc = "dispatch" /\ worker.page # {} /\ TypeOK
    BY <1>1 DEF DispatchChannel, LInv, BusyOnPage, Busy
  <2>2. Current \in worker.page /\ Current \in Doc
    BY <2>1, CurrentInPage
  <2>3. rules[Current.id].lastFired \in {Never, Current.lastFired}
    BY <1>1, <2>2 DEF LInv, StampsKnown
  <2>4. ~InCooldown(Current, clock)
    BY <1>1, <2>1 DEF LInv, OutOfCooldown
  <2>5. clock \in Nat /\ Current.lastFired \in Nat /\ Current.cooldown \in Nat
    <3>1. clock \in Nat
      BY <2>1 DEF TypeOK
    <3>2. Current.lastFired \in Nat /\ Current.cooldown \in Cooldowns
      BY <2>2 DEF Doc
    <3> QED
      BY <3>1, <3>2, AlertingAssumption
  <2>6. CASE rules[Current.id].lastFired = Never
    BY <2>6
  <2>7. CASE rules[Current.id].lastFired = Current.lastFired
    <3>1. Current.lastFired = Never \/ ~(clock - Current.lastFired < Current.cooldown)
      BY <2>4 DEF InCooldown
    <3>2. Current.lastFired = Never \/ clock - Current.lastFired >= Current.cooldown
      BY <2>5, <3>1
    <3> QED
      BY <2>7, <3>2
  <2> QED
    BY <2>3, <2>6, <2>7
<1>2. LInv /\ [Next]_vars =>
        [DispatchChannel =>
           LET stamp == rules[Current.id].lastFired
           IN  stamp = Never \/ clock - stamp >= Current.cooldown]_vars
  BY <1>1
<1> QED
  BY <1>2, LInvAlways, PTL DEF Spec, RefiresRespectStamp

\* deleteAlert leaves at most one entry behind once it has deleted the history of
\* a rule: recordFire never looks whether the rule still exists, but the rule is
\* in one page, once (alerting.service.ts, alertFireLog.service.ts).
THEOREM AlertingAtMostOneOrphan == Spec => []AtMostOneOrphan
<1>1. ASSUME LInv, NEW a \in Alerts, rules[a].state = "deleted", a \notin deleting
      PROVE  Cardinality({l \in fireLog : l.alert = a}) <= 1
  <2> DEFINE L == {l \in fireLog : l.alert = a}
  <2>1. \A l, m \in L : l = m
    BY <1>1 DEF LInv, OneOrphan
  <2> HIDE DEF L
  <2>2. CASE L = {}
    BY <2>2, FS_EmptySet DEF L
  <2>3. ASSUME NEW l \in L PROVE Cardinality(L) = 1
    <3>1. L = {l}
      BY <2>1
    <3> QED
      BY <3>1, FS_Singleton
  <2> QED
    BY <2>2, <2>3 DEF L
<1>2. LInv => AtMostOneOrphan
  BY <1>1 DEF AtMostOneOrphan
<1> QED
  BY <1>2, LInvAlways, PTL

\* The entry comes before the stamp: every step keeps the history complete.
LEMMA SInvStep == SInv /\ [Next]_vars => SInv'
<1> SUFFICES ASSUME SInv, [Next]_vars PROVE SInv'
  OBVIOUS
<1>1. /\ LInv /\ LInv' /\ FiringLogged /\ StampsAreLogged
      /\ rules \in [Alerts -> Rule] /\ rules' \in [Alerts -> Rule] /\ worker \in Worker
  BY LInvStep DEF SInv, LInv, TypeOK
<1> SUFFICES FiringLogged' /\ StampsAreLogged'
  BY <1>1 DEF SInv
<1>2. Busy => /\ worker.page # {} /\ Current.id \in Alerts
              /\ Advance(worker).pc \in {"check", "fetch", "sleep"}
  BY <1>1, CurrentInPage, AdvanceShape DEF LInv, BusyOnPage
<1>3. ASSUME rules' = rules, fireLog \subseteq fireLog', worker'.pc # "stamp"
      PROVE  FiringLogged' /\ StampsAreLogged'
  BY <1>1, <1>3 DEF FiringLogged, StampsAreLogged, Exists
<1>4. CASE StartWorker \/ Poll \/ FetchFails \/ ExitWorker
  <2>1. worker'.pc # "stamp" /\ rules' = rules /\ fireLog' = fireLog
    BY <1>4 DEF StartWorker, Poll, FetchFails, ExitWorker, DownWorker
  <2> QED
    BY <1>3, <2>1
<1>5. CASE FetchPage
  <2>1. worker'.pc # "stamp" /\ rules' = rules /\ fireLog' = fireLog
    BY <1>1, <1>5 DEF FetchPage, Worker
  <2> QED
    BY <1>3, <2>1
<1>6. CASE CheckCooldown \/ Evaluate
  <2>1. /\ Busy /\ rules' = rules /\ fireLog' = fireLog
        /\ \/ worker' = Advance(worker)
           \/ \E pc \in {"evaluate", "dispatch"} : worker' = [worker EXCEPT !.pc = pc]
    BY <1>6 DEF CheckCooldown, Evaluate, Busy
  <2>2. worker'.pc # "stamp"
    BY <1>1, <1>2, <2>1 DEF Worker
  <2> QED
    BY <1>3, <2>1, <2>2
<1>7. CASE DispatchChannel
  <2>1. worker'.pc # "stamp" /\ rules' = rules /\ fireLog' = fireLog
    BY <1>1, <1>7 DEF DispatchChannel, Worker
  <2> QED
    BY <1>3, <2>1
<1>8. CASE LogFire
  <2>1. /\ rules' = rules /\ worker'.page = worker.page /\ worker'.firedAt = clock
        /\ fireLog' = fireLog \union {[alert |-> Current.id, at |-> clock]}
    BY <1>1, <1>8 DEF LogFire, Logged, Worker
  <2>2. Current' = Current
    BY <2>1 DEF Current
  <2>3. FiringLogged'
    BY <2>1, <2>2 DEF FiringLogged
  <2>4. StampsAreLogged'
    BY <1>1, <2>1 DEF StampsAreLogged, Exists
  <2> QED
    BY <2>3, <2>4
<1>9. CASE LogFireFails
  <2>1. Busy /\ worker' = Advance(worker) /\ rules' = rules /\ fireLog \subseteq fireLog'
    BY <1>9 DEF LogFireFails, Logged, Busy
  <2> QED
    BY <1>2, <1>3, <2>1
<1>10. CASE StampFire
  <2>1. /\ Busy /\ worker.pc = "stamp" /\ worker' = Advance(worker) /\ fireLog' = fireLog
        /\ rules' \in {rules, Stamped(Current.id, worker.firedAt)}
    BY <1>10 DEF StampFire, Busy
  <2>2. FiringLogged'
    BY <1>2, <2>1 DEF FiringLogged
  <2>3. CASE rules' = rules
    BY <1>2, <1>3, <2>1, <2>3
  <2>4. CASE rules' = Stamped(Current.id, worker.firedAt) /\ Exists(Current.id)
    <3>1. [alert |-> Current.id, at |-> worker.firedAt] \in fireLog
      BY <1>1, <2>1, <2>4 DEF FiringLogged, Exists
    <3>2. rules' = [rules EXCEPT ![Current.id].lastFired = worker.firedAt]
      BY <2>4 DEF Stamped, Exists
    <3>3. /\ rules'[Current.id].lastFired = worker.firedAt
          /\ \A a \in Alerts \ {Current.id} : rules'[a] = rules[a]
      BY <1>1, <1>2, <2>1, <3>2 DEF Rule
    <3>4. StampsAreLogged'
      BY <1>1, <2>1, <3>1, <3>3 DEF StampsAreLogged, Exists
    <3> QED
      BY <2>2, <3>4
  <2>5. CASE rules' = Stamped(Current.id, worker.firedAt) /\ ~Exists(Current.id)
    <3>1. rules' = rules
      BY <2>5 DEF Stamped, Exists
    <3> QED
      BY <2>3, <3>1
  <2> QED
    BY <2>1, <2>3, <2>4, <2>5
<1>11. ASSUME NEW a \in Alerts,
             \/ DeleteAlert(a)
             \/ \E c \in Cooldowns : CreateAlert(a, c) \/ UpdateAlert(a, c)
             \/ \E s \in {"enabled", "disabled"} : SetEnabled(a, s)
      PROVE  FiringLogged' /\ StampsAreLogged'
  <2>1. Current' = Current /\ worker' = worker /\ fireLog' = fireLog
    BY <1>1, <1>11, ApiKeepsLInv
  <2>2. /\ \A b \in Alerts \ {a} : rules'[b] = rules[b]
        /\ rules[a].state # "deleted"
        /\ rules'[a].lastFired = Never \/ (Exists(a) /\ rules'[a].lastFired = rules[a].lastFired)
    BY <1>1, <1>11 DEF DeleteAlert, CreateAlert, UpdateAlert, SetEnabled, Exists, Blank, Rule
  <2>3. worker.pc = "stamp" => Current.id \in Alerts
    BY <1>2 DEF Busy
  <2>4. FiringLogged'
    BY <1>1, <2>1, <2>2, <2>3 DEF FiringLogged
  <2>5. StampsAreLogged'
    BY <1>1, <2>1, <2>2 DEF StampsAreLogged, Exists
  <2> QED
    BY <2>4, <2>5
<1>12. ASSUME NEW a \in Alerts, DeleteHistory(a) PROVE FiringLogged' /\ StampsAreLogged'
  <2>1. /\ Current' = Current /\ worker' = worker /\ rules' = rules
        /\ rules[a].state = "deleted" /\ fireLog' = Purged(a)
    BY <1>1, <1>12, HistoryKeepsLInv DEF DeleteHistory
  <2>2. \A b, t : b # a /\ [alert |-> b, at |-> t] \in fireLog
          => [alert |-> b, at |-> t] \in fireLog'
    BY <2>1 DEF Purged
  <2>3. FiringLogged'
    BY <1>1, <2>1, <2>2 DEF FiringLogged
  <2>4. StampsAreLogged'
    BY <1>1, <2>1, <2>2 DEF StampsAreLogged, Exists
  <2> QED
    BY <2>3, <2>4
<1>13. CASE Tick \/ (\E a \in Alerts : MetricsMove(a)) \/ UNCHANGED vars
  <2>1. Current' = Current /\ worker' = worker /\ fireLog' = fireLog /\ rules' = rules
    BY <1>1, <1>13, OutsideKeepsLInv DEF Tick, MetricsMove, vars
  <2> QED
    BY <1>1, <2>1 DEF FiringLogged, StampsAreLogged, Exists
<1> QED
  BY <1>4, <1>5, <1>6, <1>7, <1>8, <1>9, <1>10, <1>11, <1>12, <1>13, StepKinds

\* A rule never carries a lastFiredAt its history does not show: recordFire writes
\* the entry first, stamps only when that write answered, and the history goes
\* only after the rule (alertFireLog.service.ts, deleteAlert in
\* alerting.service.ts), whatever fails and whenever the worker ends.
THEOREM AlertingStampsAreLogged == Spec => []StampsAreLogged
<1>1. Init => SInv
  <2>1. Init => FiringLogged /\ StampsAreLogged
    BY DEF Init, DownWorker, FiringLogged, StampsAreLogged, Exists, Blank
  <2> QED
    BY <2>1, LInvInit DEF SInv
<1>2. SInv => StampsAreLogged
  BY DEF SInv
<1> QED
  BY <1>1, <1>2, SInvStep, PTL DEF Spec
=============================================================================
