---------------------------- MODULE Accounts_proofs ----------------------------
(***************************************************************************)
(* Proofs about Accounts, for any number of requests and any faults: its   *)
(* types, that no company is left without its admin, that nobody belongs   *)
(* to a company that is gone, and that onboarding closes.                  *)
(***************************************************************************)
EXTENDS Accounts, SequenceTheorems, TLAPS

\* The answers of a signup whose client is gone.
TakenBack == {"failed", "stranded", "cut"}

\* A signup under way has its client from the insert to the end of its rollback.
HasClient ==
    \A r \in Running : req[r].kind = "signup" =>
        (r \in clients <=> Current(r) \in {"insertUser", "rollback"})

\* Only two kinds of requests make a client.
ClientMakers == \A r \in clients : req[r].kind \in {"signup", "createClient"}

\* The client a request is about.
ClientOf ==
    \A r \in Started :
        /\ req[r].kind = "signup" => req[r].client = r
        /\ req[r].kind = "createUser" => req[r].client \in Started
        /\ req[r].kind \in {"onboard", "register", "createClient"} => req[r].client = None

\* A request that has made its user has nothing to do but to take back its client;
\* the user passed the validator.
UsersDone ==
    \A u \in users :
        /\ u \in Running => Current(u) = "rollback"
        /\ IsSuperAdmin(u) \/ req[u].client # None

\* A user made by a signup has its company, unless the signup failed after all.
SignupHasCompany ==
    \A u \in users : req[u].kind = "signup" =>
        u \in clients \/ req[u].answer \in TakenBack

\* c was there when u looked for it: it still is, or its signup has taken it back
\* since.
Vetted(u, c) ==
    \/ c \in clients
    \/ /\ req[c].kind = "signup" /\ req[c].answer \in TakenBack
       /\ c \notin req[u].after

\* A createClientUser past its first check has seen its client.
CompanySeen ==
    \A u \in Started :
        /\ req[u].kind = "createUser"
        /\ u \in users \/ (u \in Running /\ Current(u) # "client")
        => Vetted(u, req[u].client)

\* What a request found answered stays answered.
SeenAnswered == \A r \in Started : req[r].after \subseteq Started \ Running

\* An onboarding found no user among those that had been answered.
NobodySeen == \A r \in Started : req[r].kind = "onboard" => req[r].after \intersect users = {}

AInv ==
    /\ TypeOK /\ NoUnmannedCompany
    /\ HasClient /\ ClientMakers /\ ClientOf /\ UsersDone /\ SignupHasCompany
    /\ CompanySeen /\ SeenAnswered /\ NobodySeen

-----------------------------------------------------------------------------
(* What is left to do of a request.                                         *)

\* The awaits of the plans.
Planned == Checks \union {"insertClient", "insertUser"}

\* What comes when.
LEMMA PlanOrder ==
  ASSUME NEW kind \in Kinds, NEW n \in 1..Len(Plan[kind])
  PROVE  /\ Plan[kind] \in Seq(Await)
         /\ Plan[kind][n] \in Planned
         /\ Plan[kind][n] = "insertUser" => n = Len(Plan[kind])
         /\ Plan[kind][n] = "insertClient" => kind \in {"signup", "createClient"}
         /\ kind = "signup" => (Plan[kind][n] = "insertClient" <=> n = 4)
         /\ kind = "signup" => Len(Plan[kind]) = 5
         /\ kind = "signup" => (Plan[kind][n] = "insertUser" <=> n = 5)
         /\ Plan[kind][n] = "client" => kind = "createUser" /\ n = 1
         /\ kind = "onboard" /\ n = 1 => Plan[kind][n] = "anyUser"
         /\ kind = "createUser" /\ n = 1 => Plan[kind][n] = "client"
<1>1. CASE kind = "onboard"
  <2>1. Plan[kind] = OnboardSuperAdmin
    BY <1>1 DEF Plan
  <2> QED
    BY <1>1, <2>1 DEF OnboardSuperAdmin, Await, Checks, Planned
<1>2. CASE kind = "register"
  <2>1. Plan[kind] = Register
    BY <1>2 DEF Plan
  <2> QED
    BY <1>2, <2>1 DEF Register, Await, Checks, Planned
<1>3. CASE kind = "createClient"
  <2>1. Plan[kind] = CreateClient
    BY <1>3 DEF Plan
  <2> QED
    BY <1>3, <2>1 DEF CreateClient, Await, Checks, Planned
<1>4. CASE kind = "signup"
  <2>1. Plan[kind] = Signup
    BY <1>4 DEF Plan
  <2> QED
    BY <1>4, <2>1 DEF Signup, Await, Checks, Planned
<1>5. CASE kind = "createUser"
  <2>1. Plan[kind] = CreateClientUser
    BY <1>5 DEF Plan
  <2> QED
    BY <1>5, <2>1 DEF CreateClientUser, Await, Checks, Planned
<1> QED
  BY <1>1, <1>2, <1>3, <1>4, <1>5 DEF Kinds, Plan

\* One await of a plan after the other.
LEMMA PlanStep ==
  ASSUME NEW kind \in Kinds, NEW n \in 1..Len(Plan[kind]), NEW todo,
         todo = SubSeq(Plan[kind], n, Len(Plan[kind]))
  PROVE  /\ todo \in Seq(Await) /\ todo # <<>>
         /\ Len(todo) = Len(Plan[kind]) - n + 1
         /\ Head(todo) = Plan[kind][n]
         /\ Tail(todo) \in Seq(Await)
         /\ Tail(todo) = SubSeq(Plan[kind], n + 1, Len(Plan[kind]))
         /\ n = Len(Plan[kind]) => Tail(todo) = <<>>
         /\ todo = Plan[kind] => n = 1
<1> DEFINE len == Len(Plan[kind])
<1>1. Plan[kind] \in Seq(Await) /\ len \in Nat
  BY PlanOrder
<1>2. /\ todo \in Seq(Await)
      /\ Len(todo) = len - n + 1
  BY <1>1, SubSeqProperties
<1>3. Head(todo) = Plan[kind][n] /\ Tail(todo) = SubSeq(Plan[kind], n + 1, len)
  BY <1>1, HeadTailOfSubSeq
<1>4. todo # <<>>
  <2>1. Len(todo) # 0
    BY <1>1, <1>2
  <2>2. todo = <<>> => Len(todo) = 0
    OBVIOUS
  <2> QED
    BY <2>1, <2>2
<1>5. Tail(todo) \in Seq(Await)
  BY <1>2, <1>4
<1>6. n = len => Tail(todo) = <<>>
  BY <1>1, <1>3, SubSeqEmpty
<1> QED
  BY <1>1, <1>2, <1>3, <1>4, <1>5, <1>6

\* The two ends of a plan.
LEMMA PlanEnds ==
  ASSUME NEW kind \in Kinds, NEW n \in 1..Len(Plan[kind]), NEW todo,
         todo = SubSeq(Plan[kind], n, Len(Plan[kind]))
  PROVE  /\ Tail(todo) \in Seq(Await)
         /\ n = Len(Plan[kind]) => Tail(todo) = <<>>
         /\ todo = Plan[kind] => n = 1
<1>1. Tail(todo) \in Seq(Await)
  BY PlanStep
<1>2. n = Len(Plan[kind]) => Tail(todo) = <<>>
  BY PlanStep
<1>3. todo = Plan[kind] => n = 1
  BY PlanStep
<1> QED
  BY <1>1, <1>2, <1>3

\* A request under way is somewhere in its plan, or at its rollback.
LEMMA AtWork ==
  ASSUME TypeOK, NEW r \in Running
  PROVE  /\ r \in Started /\ r \in Requests
         /\ req[r].kind \in Kinds /\ req[r].todo \in Seq(Await) /\ req[r].todo # <<>>
         /\ Left(req[r].kind, req[r].todo)
         /\ \/ /\ req[r].todo = <<"rollback">> /\ Current(r) = "rollback"
               /\ req[r].kind = "signup"
            \/ \E n \in 1..Len(Plan[req[r].kind]) :
                 /\ req[r].todo = SubSeq(Plan[req[r].kind], n, Len(Plan[req[r].kind]))
                 /\ Current(r) = Plan[req[r].kind][n]
                 /\ Current(r) \in Planned
<1> DEFINE kind == req[r].kind
           todo == req[r].todo
<1>1. r \in Started /\ r \in Requests /\ req[r] \in Request /\ todo # <<>> /\ Left(kind, todo)
  BY DEF TypeOK, Running
<1>2. kind \in Kinds /\ todo \in Seq(Await)
  BY <1>1 DEF Request
<1>3. CASE todo = <<"rollback">> /\ kind = "signup"
  BY <1>1, <1>2, <1>3 DEF Current
<1>4. CASE \E n \in 1..Len(Plan[kind]) : todo = SubSeq(Plan[kind], n, Len(Plan[kind]))
  <2>1. PICK n \in 1..Len(Plan[kind]) : todo = SubSeq(Plan[kind], n, Len(Plan[kind]))
    BY <1>4
  <2>2. Current(r) = Plan[kind][n]
    BY <1>2, <2>1, PlanStep DEF Current
  <2>3. Plan[kind][n] \in Planned
    BY <1>2, <2>1, PlanOrder
  <2> QED
    BY <1>1, <1>2, <2>1, <2>2, <2>3
<1> QED
  BY <1>1, <1>3, <1>4 DEF Left


\* Where a plan goes on after its n-th await.
LEMMA PlanAhead ==
  ASSUME NEW kind \in Kinds, NEW n \in 1..Len(Plan[kind]), NEW todo,
         todo = SubSeq(Plan[kind], n, Len(Plan[kind]))
  PROVE  /\ Left(kind, Tail(todo))
         /\ Len(todo) = 1 <=> Tail(todo) = <<>>
         /\ Tail(todo) # <<>> =>
              /\ n + 1 \in 1..Len(Plan[kind])
              /\ Head(Tail(todo)) = Plan[kind][n + 1]
              /\ Head(Tail(todo)) \notin {"client", "rollback"}
         /\ n # Len(Plan[kind]) => Tail(todo) # <<>>
<1>1. /\ Len(Plan[kind]) \in Nat
      /\ Len(todo) = Len(Plan[kind]) - n + 1
      /\ Tail(todo) = SubSeq(Plan[kind], n + 1, Len(Plan[kind]))
      /\ n = Len(Plan[kind]) => Tail(todo) = <<>>
  BY PlanStep, PlanOrder
<1>2. CASE n = Len(Plan[kind])
  <2>1. Len(todo) = 1
    BY <1>1, <1>2
  <2> QED
    BY <1>1, <1>2, <2>1 DEF Left
<1>3. CASE n # Len(Plan[kind])
  <2>1. n + 1 \in 1..Len(Plan[kind])
    BY <1>1, <1>3
  <2> DEFINE m == n + 1
             rest == Tail(todo)
  <2>a. m \in 1..Len(Plan[kind]) /\ rest = SubSeq(Plan[kind], m, Len(Plan[kind]))
    BY <1>1, <2>1
  <2> HIDE DEF m, rest
  <2>b. rest # <<>> /\ Head(rest) = Plan[kind][m]
    BY <2>a, PlanStep
  <2>2. Tail(todo) # <<>> /\ Head(Tail(todo)) = Plan[kind][n + 1]
    BY <2>b DEF m, rest
  <2>3. Plan[kind][n + 1] \in Planned /\ (Plan[kind][n + 1] = "client" => n + 1 = 1)
    BY <2>1, PlanOrder
  <2>4. Plan[kind][n + 1] \notin {"client", "rollback"}
    BY <2>3 DEF Planned, Checks
  <2>5. Left(kind, Tail(todo))
    BY <1>1, <2>1 DEF Left
  <2>6. Len(todo) # 1
    BY <1>1, <1>3
  <2> QED
    BY <2>1, <2>2, <2>4, <2>5, <2>6
<1> QED
  BY <1>2, <1>3

\* Where a request is once it has done what it waited for.
LEMMA Ahead ==
  ASSUME TypeOK, NEW r \in Running, Current(r) # "rollback"
  PROVE  /\ Tail(req[r].todo) \in Seq(Await) /\ Left(req[r].kind, Tail(req[r].todo))
         /\ Len(req[r].todo) = 1 <=> Tail(req[r].todo) = <<>>
         /\ Tail(req[r].todo) # <<>> => Head(Tail(req[r].todo)) \notin {"client", "rollback"}
         /\ Current(r) = "insertUser" => Tail(req[r].todo) = <<>>
         /\ Current(r) = "insertClient" => req[r].kind \in {"signup", "createClient"}
         /\ req[r].kind = "signup" /\ Current(r) \in Checks =>
              Tail(req[r].todo) # <<>> /\ Head(Tail(req[r].todo)) # "insertUser"
         /\ req[r].kind = "signup" /\ Current(r) = "insertClient" =>
              Tail(req[r].todo) # <<>> /\ Head(Tail(req[r].todo)) = "insertUser"
         /\ req[r].kind = "onboard" /\ req[r].todo = Plan[req[r].kind] => Current(r) = "anyUser"
         /\ req[r].kind = "createUser" /\ req[r].todo = Plan[req[r].kind] => Current(r) = "client"
<1>1. PICK n \in 1..Len(Plan[req[r].kind]) :
        /\ req[r].todo = SubSeq(Plan[req[r].kind], n, Len(Plan[req[r].kind]))
        /\ Current(r) = Plan[req[r].kind][n]
        /\ Current(r) \in Planned
  BY AtWork
<1> DEFINE kind == req[r].kind
           todo == req[r].todo
<1>2. kind \in Kinds
  BY AtWork
<1>3. n \in 1..Len(Plan[kind]) /\ todo = SubSeq(Plan[kind], n, Len(Plan[kind]))
  BY <1>1
<1>4. Current(r) = Plan[kind][n] /\ Current(r) \in Planned
  BY <1>1
<1> HIDE DEF kind, todo
<1>5. /\ Tail(todo) \in Seq(Await)
      /\ n = Len(Plan[kind]) => Tail(todo) = <<>>
      /\ todo = Plan[kind] => n = 1
  BY <1>2, <1>3, PlanEnds
<1>6. /\ Left(kind, Tail(todo))
      /\ Len(todo) = 1 <=> Tail(todo) = <<>>
      /\ Tail(todo) # <<>> =>
           /\ n + 1 \in 1..Len(Plan[kind])
           /\ Head(Tail(todo)) = Plan[kind][n + 1]
           /\ Head(Tail(todo)) \notin {"client", "rollback"}
      /\ n # Len(Plan[kind]) => Tail(todo) # <<>>
  BY <1>2, <1>3, PlanAhead
<1>7. /\ Current(r) = "insertUser" => n = Len(Plan[kind])
      /\ Current(r) = "insertClient" => kind \in {"signup", "createClient"}
      /\ kind = "signup" => Len(Plan[kind]) = 5
      /\ kind = "signup" => (Current(r) = "insertUser" <=> n = 5)
      /\ kind = "onboard" /\ n = 1 => Current(r) = "anyUser"
      /\ kind = "createUser" /\ n = 1 => Current(r) = "client"
      /\ kind = "signup" => (Current(r) = "insertClient" <=> n = 4)
  BY <1>2, <1>3, <1>4, PlanOrder
<1>8. /\ kind = "signup" /\ Current(r) \in Checks =>
           Tail(todo) # <<>> /\ Head(Tail(todo)) # "insertUser"
      /\ kind = "signup" /\ Current(r) = "insertClient" =>
           Tail(todo) # <<>> /\ Head(Tail(todo)) = "insertUser"
  <2> SUFFICES ASSUME kind = "signup", Current(r) \in Checks \union {"insertClient"}
               PROVE  /\ Tail(todo) # <<>>
                      /\ Head(Tail(todo)) = "insertUser" <=> Current(r) = "insertClient"
    BY DEF Checks
  <2>1. n # 5 /\ Len(Plan[kind]) = 5
    BY <1>7 DEF Checks
  <2>2. /\ Tail(todo) # <<>> /\ n + 1 \in 1..Len(Plan[kind])
        /\ Head(Tail(todo)) = Plan[kind][n + 1]
    BY <1>6, <2>1
  <2>3. Plan[kind][n + 1] = "insertUser" <=> n + 1 = 5
    BY <1>2, <2>2, PlanOrder
  <2>4. n + 1 = 5 <=> n = 4
    BY <1>3, <2>1
  <2> QED
    BY <1>7, <2>2, <2>3, <2>4
<1>9. /\ kind = "onboard" /\ todo = Plan[kind] => Current(r) = "anyUser"
      /\ kind = "createUser" /\ todo = Plan[kind] => Current(r) = "client"
  BY <1>5, <1>7
<1> QED
  BY <1>5, <1>6, <1>7, <1>8, <1>9 DEF kind, todo

-----------------------------------------------------------------------------
(* What a step does to the requests it moves, and to nobody else.           *)

\* q makes its first check, and finds nothing to object to.
LooksFirst(q) ==
    /\ req'[q].after = Started \ Running
    /\ req[q].kind = "onboard" => users' = {}
    /\ req[q].kind = "createUser" => Current(q) = "client"

\* q stays the same request; what is left of it is left of its plan.
SameRequest(q) ==
    /\ req'[q].kind = req[q].kind /\ req'[q].role = req[q].role
    /\ req'[q].client = req[q].client
    /\ Left(req[q].kind, req'[q].todo)
    /\ req'[q].answer = "none" <=> req'[q].todo # <<>>
    /\ req'[q].after = req[q].after \/ LooksFirst(q)

\* What becomes of the client of q.
SoundClient(q) ==
    /\ q \in clients' => req[q].kind \in {"signup", "createClient"}
    /\ req[q].kind = "signup" /\ req'[q].todo # <<>> =>
         (q \in clients' <=> Head(req'[q].todo) \in {"insertUser", "rollback"})
    /\ req[q].kind = "signup" /\ req'[q].todo = <<>> /\ q \in clients' /\ q \notin users' =>
         req'[q].answer \in {"lost", "stranded", "cut"}
    /\ q \in clients /\ q \notin clients' =>
         req[q].kind = "signup" /\ req'[q].answer \in TakenBack

\* What becomes of the user of q.
SoundUser(q) ==
    /\ q \in users' =>
         /\ req'[q].todo # <<>> => Head(req'[q].todo) = "rollback"
         /\ IsSuperAdmin(q) \/ req[q].client # None
         /\ req[q].kind = "signup" => q \in clients' \/ req'[q].answer \in TakenBack
    /\ /\ req[q].kind = "createUser"
       /\ q \in users' \/ (req'[q].todo # <<>> /\ Head(req'[q].todo) # "client")
       => \/ Current(q) # "client" /\ req'[q].after = req[q].after
          \/ req[q].client \in clients'

Sound(q) == SameRequest(q) /\ SoundClient(q) /\ SoundUser(q)

\* A step that moves the requests of D only, and those soundly.
Moves(D) ==
    /\ D \subseteq Running
    /\ Started' = Started /\ req' \in [Started -> Request]
    /\ clients' \subseteq Started /\ users' \subseteq Started
    /\ \A q \in Started \ D :
         /\ req'[q] = req[q]
         /\ q \in clients' <=> q \in clients
         /\ q \in users' <=> q \in users
    /\ \A q \in D : Sound(q)

\* Such a step keeps the invariant.
LEMMA MovesKeepAInv == ASSUME AInv, NEW D, Moves(D) PROVE AInv'
<1>1. /\ D \subseteq Running /\ Running \subseteq Started
      /\ Started' = Started /\ req' \in [Started -> Request]
      /\ clients' \subseteq Started /\ users' \subseteq Started
  BY DEF Moves, Running
<1>2. ASSUME NEW q \in Started, q \notin D
      PROVE  /\ req'[q] = req[q]
             /\ q \in clients' <=> q \in clients
             /\ q \in users' <=> q \in users
  BY <1>2 DEF Moves
<1>3. ASSUME NEW q \in D PROVE SameRequest(q) /\ SoundClient(q) /\ SoundUser(q)
  BY <1>3 DEF Moves, Sound
<1>4. TypeOK
  BY DEF AInv
<1>5. ASSUME NEW q \in Started
      PROVE  /\ req'[q].kind = req[q].kind /\ req'[q].role = req[q].role
             /\ req'[q].client = req[q].client
  BY <1>2, <1>3 DEF SameRequest
<1>6. Running' \subseteq Running
  <2> SUFFICES ASSUME NEW q \in Started, req'[q].answer = "none" PROVE q \in Running
    BY <1>1 DEF Running
  <2> QED
    BY <1>1, <1>2 DEF Running
<1>7. SeenAnswered'
  <2> SUFFICES ASSUME NEW q \in Started PROVE req'[q].after \subseteq Started \ Running
    BY <1>1, <1>6 DEF SeenAnswered
  <2>1. req'[q].after = req[q].after \/ req'[q].after = Started \ Running
    BY <1>2, <1>3 DEF SameRequest, LooksFirst
  <2> QED
    BY <2>1 DEF AInv, SeenAnswered
<1>8. TypeOK'
  <2> SUFFICES ASSUME NEW q \in Started
               PROVE  /\ req'[q].role \in RolesFor[req'[q].kind]
                      /\ req'[q].after \subseteq Started \ {q}
                      /\ Left(req'[q].kind, req'[q].todo)
                      /\ req'[q].answer = "none" <=> req'[q].todo # <<>>
    BY <1>1, <1>4 DEF TypeOK, Left
  <2>1. CASE q \in D
    <3>1. req'[q].after \subseteq Started \ {q}
      BY <1>1, <1>3, <1>4, <2>1 DEF SameRequest, LooksFirst, TypeOK
    <3>2. req'[q].role \in RolesFor[req'[q].kind]
      BY <1>4, <1>5 DEF TypeOK
    <3> QED
      BY <1>3, <2>1, <3>1, <3>2 DEF SameRequest
  <2>2. CASE q \notin D
    BY <1>2, <1>4, <2>2 DEF TypeOK
  <2> QED
    BY <2>1, <2>2
<1>9. HasClient'
  <2> SUFFICES ASSUME NEW q \in Started, req'[q].answer = "none", req[q].kind = "signup"
               PROVE  q \in clients' <=> Head(req'[q].todo) \in {"insertUser", "rollback"}
    BY <1>1, <1>5 DEF HasClient, Running, Current
  <2>1. CASE q \in D
    BY <1>3, <2>1 DEF SameRequest, SoundClient
  <2>2. CASE q \notin D
    BY <1>2, <2>2 DEF AInv, HasClient, Running, Current
  <2> QED
    BY <2>1, <2>2
<1>10. ClientMakers'
  <2> SUFFICES ASSUME NEW q \in clients' PROVE req[q].kind \in {"signup", "createClient"}
    BY <1>1, <1>5 DEF ClientMakers
  <2> QED
    BY <1>1, <1>2, <1>3 DEF AInv, ClientMakers, SoundClient
<1>11. ClientOf'
  BY <1>1, <1>5 DEF AInv, ClientOf
<1>12. UsersDone'
  <2> SUFFICES ASSUME NEW q \in users'
               PROVE  /\ req'[q].answer = "none" => Head(req'[q].todo) = "rollback"
                      /\ IsSuperAdmin(q) \/ req[q].client # None
    BY <1>1, <1>5 DEF UsersDone, Running, Current, IsSuperAdmin
  <2>1. CASE q \in D
    BY <1>3, <2>1 DEF SoundUser, SameRequest
  <2>2. CASE q \notin D
    BY <1>1, <1>2, <2>2 DEF AInv, UsersDone, Running, Current
  <2> QED
    BY <2>1, <2>2
<1>13. SignupHasCompany'
  <2> SUFFICES ASSUME NEW q \in users', req[q].kind = "signup"
               PROVE  q \in clients' \/ req'[q].answer \in TakenBack
    BY <1>1, <1>5 DEF SignupHasCompany, TakenBack
  <2>1. CASE q \in D
    BY <1>3, <2>1 DEF SoundUser
  <2>2. CASE q \notin D
    BY <1>1, <1>2, <2>2 DEF AInv, SignupHasCompany
  <2> QED
    BY <2>1, <2>2
<1>14. NoUnmannedCompany'
  <2> SUFFICES ASSUME NEW q \in clients', req[q].kind = "signup", q \notin users',
                      req'[q].answer # "none"
               PROVE  req'[q].answer \in {"lost", "stranded", "cut"}
    BY <1>1, <1>5 DEF NoUnmannedCompany, Running
  <2>1. CASE q \in D
    BY <1>3, <2>1 DEF SoundClient, SameRequest
  <2>2. CASE q \notin D
    BY <1>1, <1>2, <2>2 DEF AInv, NoUnmannedCompany, Running
  <2> QED
    BY <2>1, <2>2
<1>15. ASSUME NEW q \in Started, NEW c \in Started, Vetted(q, c),
              req'[q].after = req[q].after
       PROVE  Vetted(q, c)'
  <2>1. CASE c \in clients'
    BY <2>1 DEF Vetted
  <2>2. CASE c \in clients /\ c \notin clients'
    <3>1. c \in D
      BY <1>2, <2>2
    <3>2. c \notin req[q].after
      BY <1>1, <3>1 DEF AInv, SeenAnswered
    <3>3. req[c].kind = "signup" /\ req'[c].answer \in TakenBack
      BY <1>3, <2>2, <3>1 DEF SoundClient
    <3> QED
      BY <1>5, <1>15, <3>2, <3>3 DEF Vetted, TakenBack
  <2>3. CASE c \notin clients /\ c \notin clients'
    <3>1. req[c].kind = "signup" /\ req[c].answer \in TakenBack /\ c \notin req[q].after
      BY <1>15, <2>3 DEF Vetted
    <3>2. c \notin D
      BY <1>1, <3>1 DEF TakenBack, Running
    <3> QED
      BY <1>2, <1>15, <3>1, <3>2 DEF Vetted, TakenBack
  <2> QED
    BY <2>1, <2>2, <2>3
<1>16. CompanySeen'
  <2> SUFFICES ASSUME NEW q \in Started, NEW c \in Started, c = req[q].client,
                      req[q].kind = "createUser",
                      \/ q \in users'
                      \/ req'[q].answer = "none" /\ Head(req'[q].todo) # "client"
               PROVE  Vetted(q, c)'
    BY <1>1, <1>5 DEF AInv, ClientOf, CompanySeen, Running, Current, Vetted, TakenBack
  <2>2. CASE q \in D
    <3>1. \/ Current(q) # "client" /\ req'[q].after = req[q].after
          \/ c \in clients'
      BY <1>3, <2>2 DEF SoundUser, SameRequest
    <3>2. CASE Current(q) # "client" /\ req'[q].after = req[q].after
      <4>1. Vetted(q, c)
        BY <1>1, <2>2, <3>2 DEF AInv, CompanySeen
      <4> QED
        BY <1>15, <3>2, <4>1
    <3>3. CASE c \in clients'
      BY <3>3 DEF Vetted
    <3> QED
      BY <3>1, <3>2, <3>3
  <2>3. CASE q \notin D
    <3>1. Vetted(q, c)
      BY <1>2, <2>3 DEF AInv, CompanySeen, Running, Current
    <3> QED
      BY <1>2, <1>15, <2>3, <3>1
  <2> QED
    BY <2>2, <2>3
<1>17. NobodySeen'
  <2> SUFFICES ASSUME NEW q \in Started, req[q].kind = "onboard"
               PROVE  req'[q].after \intersect users' = {}
    BY <1>1, <1>5 DEF NobodySeen
  <2>1. CASE req'[q].after = req[q].after
    <3>1. req[q].after \subseteq Started \ Running /\ req[q].after \intersect users = {}
      BY DEF AInv, SeenAnswered, NobodySeen
    <3> QED
      BY <1>1, <1>2, <2>1, <3>1
  <2>2. CASE q \in D /\ LooksFirst(q)
    BY <2>2 DEF LooksFirst
  <2> QED
    BY <1>2, <1>3, <2>1, <2>2 DEF SameRequest
<1> QED
  BY <1>7, <1>8, <1>9, <1>10, <1>11, <1>12, <1>13, <1>14, <1>16, <1>17 DEF AInv

-----------------------------------------------------------------------------
(* How a request changes.                                                   *)

\* Of the requests only r changes, and of r only what is left of it, its answer
\* and what it found answered.
Reshaped(r, todo, answer, after) ==
    /\ Started' = Started /\ req' \in [Started -> Request]
    /\ \A q \in Started \ {r} : req'[q] = req[q]
    /\ req'[r].kind = req[r].kind /\ req'[r].role = req[r].role
    /\ req'[r].client = req[r].client
    /\ req'[r].todo = todo /\ req'[r].answer = answer /\ req'[r].after = after

\* Writing a request with other such fields.
LEMMA WriteShape ==
  ASSUME TypeOK, NEW r \in Started, NEW todo \in Seq(Await), NEW answer \in Answer,
         NEW after \in SUBSET Requests,
         req' = [req EXCEPT ![r] = [req[r] EXCEPT !.todo = todo, !.answer = answer, !.after = after]]
  PROVE  Reshaped(r, todo, answer, after)
<1> DEFINE new == [req[r] EXCEPT !.todo = todo, !.answer = answer, !.after = after]
<1>1. req \in [Started -> Request] /\ req[r] \in Request
  BY DEF TypeOK
<1>2. /\ new \in Request
      /\ new.kind = req[r].kind /\ new.role = req[r].role /\ new.client = req[r].client
      /\ new.todo = todo /\ new.answer = answer /\ new.after = after
  BY <1>1 DEF Request
<1>3. req' = [req EXCEPT ![r] = new]
  OBVIOUS
<1> HIDE DEF new
<1>4. /\ DOMAIN req' = Started /\ req' \in [Started -> Request]
      /\ \A q \in Started \ {r} : req'[q] = req[q]
      /\ req'[r] = new
  BY <1>1, <1>2, <1>3
<1> QED
  BY <1>2, <1>4 DEF Reshaped, Started

\* A request that has got its answer.
LEMMA AnsweredShape ==
  ASSUME TypeOK, NEW r \in Started, NEW answer \in Answer, req' = Answered(r, answer)
  PROVE  Reshaped(r, <<>>, answer, req[r].after)
<1>1. req \in [Started -> Request] /\ req[r] \in Request
  BY DEF TypeOK
<1>2. req[r].after \in SUBSET Requests /\ <<>> \in Seq(Await)
  BY <1>1 DEF Request
<1>3. req' = [req EXCEPT ![r] = [req[r] EXCEPT !.todo = <<>>, !.answer = answer,
                                              !.after = req[r].after]]
  BY <1>1 DEF Answered, Request
<1> QED
  BY <1>2, <1>3, WriteShape

\* A signup that is to take back its client.
LEMMA RollbackShape ==
  ASSUME TypeOK, NEW r \in Started, req' = [req EXCEPT ![r].todo = <<"rollback">>]
  PROVE  Reshaped(r, <<"rollback">>, req[r].answer, req[r].after)
<1>1. req \in [Started -> Request] /\ req[r] \in Request
  BY DEF TypeOK
<1>2. /\ req[r].after \in SUBSET Requests /\ <<"rollback">> \in Seq(Await)
      /\ req[r].answer \in Answer
  BY <1>1 DEF Request, Await
<1>3. req' = [req EXCEPT ![r] = [req[r] EXCEPT !.todo = <<"rollback">>, !.answer = req[r].answer,
                                              !.after = req[r].after]]
  BY <1>1 DEF Request
<1> QED
  BY <1>2, <1>3, WriteShape

\* The answer of a request that goes on.
AnswerOnward(r) == IF Tail(req[r].todo) = <<>> THEN "created" ELSE "none"

\* A request that goes on.
LEMMA OnwardShape ==
  ASSUME TypeOK, NEW r \in Running, Current(r) # "rollback",
         NEW after \in SUBSET Requests,
         \/ req' = Onward(r) /\ after = req[r].after
         \/ req' = [Onward(r) EXCEPT ![r].after = after]
  PROVE  Reshaped(r, Tail(req[r].todo), AnswerOnward(r), after)
<1>1. r \in Started /\ req \in [Started -> Request] /\ req[r] \in Request
  BY DEF TypeOK, Running
<1>2. /\ Tail(req[r].todo) \in Seq(Await)
      /\ Len(req[r].todo) = 1 <=> Tail(req[r].todo) = <<>>
  BY Ahead
<1>3. AnswerOnward(r) \in Answer
  BY DEF AnswerOnward, Answer
<1>4. Onward(r) = [req EXCEPT ![r].todo = Tail(req[r].todo), ![r].answer = AnswerOnward(r)]
  BY <1>1, <1>2 DEF Onward, AnswerOnward
<1> DEFINE todo == Tail(req[r].todo)
           answer == AnswerOnward(r)
<1> HIDE DEF todo, answer
<1>5. req' = [req EXCEPT ![r] = [req[r] EXCEPT !.todo = todo, !.answer = answer, !.after = after]]
  <2>1. Onward(r) = [req EXCEPT ![r] = [req[r] EXCEPT !.todo = todo, !.answer = answer]]
    BY <1>1, <1>4 DEF todo, answer
  <2>2. CASE req' = Onward(r) /\ after = req[r].after
    BY <1>1, <2>1, <2>2 DEF Request
  <2>3. CASE req' = [Onward(r) EXCEPT ![r].after = after]
    BY <1>1, <2>1, <2>3 DEF Request
  <2> QED
    BY <2>2, <2>3
<1>6. todo \in Seq(Await) /\ answer \in Answer
  BY <1>2, <1>3 DEF todo, answer
<1>7. Reshaped(r, todo, answer, after)
  BY <1>1, <1>5, <1>6, WriteShape
<1> QED
  BY <1>7 DEF todo, answer

-----------------------------------------------------------------------------
(* The queries.                                                             *)

\* What the invariant says of a request under way.
LEMMA UnderWay ==
  ASSUME AInv, NEW r \in Running
  PROVE  /\ r \in Started
         /\ r \notin users \/ Current(r) = "rollback"
         /\ Current(r) \in Planned \union {"rollback"}
         /\ Current(r) = "rollback" => req[r].kind = "signup"
         /\ req[r].kind = "signup" => (r \in clients <=> Current(r) \in {"insertUser", "rollback"})
         /\ r \in clients => req[r].kind \in {"signup", "createClient"}
         /\ req[r].after \in SUBSET Requests /\ req[r].answer = "none"
         /\ r \in users => IsSuperAdmin(r) \/ req[r].client # None
         /\ req[r].kind = "signup" => req[r].client = r
<1>1. TypeOK /\ r \in Started
  BY DEF AInv, Running
<1>2. req[r].after \in SUBSET Requests /\ req[r].answer = "none"
  BY <1>1 DEF TypeOK, Running
<1>3. /\ Current(r) \in Planned \union {"rollback"}
      /\ Current(r) = "rollback" => req[r].kind = "signup"
  BY <1>1, AtWork DEF Planned, Checks
<1> QED
  BY <1>1, <1>2, <1>3 DEF AInv, HasClient, ClientMakers, UsersDone, ClientOf

\* A query moves one request.
LEMMA OneMoves ==
  ASSUME AInv, NEW r \in Running, NEW todo, NEW answer, NEW after,
         Reshaped(r, todo, answer, after), Sound(r),
         clients' \in {clients, clients \union {r}, clients \ {r}},
         users' \in {users, users \union {r}}
  PROVE  AInv'
<1>1. TypeOK /\ r \in Started
  BY DEF AInv, Running
<1>2. Moves({r})
  BY <1>1 DEF Moves, Reshaped, TypeOK
<1> QED
  BY <1>2, MovesKeepAInv

\* A check keeps the invariant.
LEMMA CheckKeepsAInv == ASSUME AInv, NEW r \in Requests, Check(r) PROVE AInv'
<1>1. /\ r \in Running /\ r \in Started /\ TypeOK
      /\ Current(r) \in Checks /\ Current(r) # "rollback"
      /\ clients' = clients /\ users' = users
  BY DEF Check, Checks, AInv, Running
<1>2. /\ r \notin users
      /\ req[r].kind = "signup" => r \notin clients
      /\ r \in clients => req[r].kind \in {"signup", "createClient"}
      /\ req[r].after \in SUBSET Requests
  BY <1>1, UnderWay DEF Checks
<1>3. CASE Found(r, Current(r))
  <2>1. Reshaped(r, <<>>, "refused", req[r].after)
    BY <1>1, <1>3, AnsweredShape DEF Check, Answer
  <2>2. Sound(r)
    BY <1>1, <1>2, <2>1 DEF Reshaped, Sound, SameRequest, SoundClient, SoundUser, Left
  <2> QED
    BY <1>1, <2>1, <2>2, OneMoves
<1>4. CASE ~Found(r, Current(r))
  <2> DEFINE rest == Tail(req[r].todo)
  <2>1. PICK after \in SUBSET Requests :
          /\ Reshaped(r, rest, AnswerOnward(r), after)
          /\ after = req[r].after \/ (after = Started \ Running /\ req[r].todo = Plan[req[r].kind])
    <3>1. CASE req[r].todo # Plan[req[r].kind]
      <4>1. req' = Onward(r)
        BY <1>4, <3>1 DEF Check
      <4> QED
        BY <1>1, <1>2, <4>1, OnwardShape
    <3>2. CASE req[r].todo = Plan[req[r].kind]
      <4>1. req' = [Onward(r) EXCEPT ![r].after = Started \ Running]
        BY <1>4, <3>2 DEF Check
      <4>2. Started \ Running \in SUBSET Requests
        BY <1>1 DEF TypeOK
      <4> QED
        BY <1>1, <3>2, <4>1, <4>2, OnwardShape
    <3> QED
      BY <3>1, <3>2
  <2>2. /\ Left(req[r].kind, rest)
        /\ rest # <<>> => Head(rest) \notin {"client", "rollback"}
        /\ req[r].kind = "signup" => rest # <<>> /\ Head(rest) # "insertUser"
        /\ req[r].kind = "onboard" /\ req[r].todo = Plan[req[r].kind] => Current(r) = "anyUser"
        /\ req[r].kind = "createUser" /\ req[r].todo = Plan[req[r].kind] => Current(r) = "client"
    BY <1>1, Ahead
  <2>3. /\ Current(r) = "anyUser" => users = {}
        /\ Current(r) = "client" => req[r].client \in clients
    BY <1>4 DEF Found
  <2>4. SameRequest(r)
    <3>1. after = req[r].after \/ LooksFirst(r)
      BY <1>1, <2>1, <2>2, <2>3 DEF LooksFirst, Reshaped
    <3> QED
      BY <2>1, <2>2, <3>1 DEF Reshaped, SameRequest, AnswerOnward
  <2>5. SoundClient(r)
    BY <1>1, <1>2, <2>1, <2>2 DEF Reshaped, SoundClient
  <2>6. SoundUser(r)
    BY <1>1, <1>2, <2>1, <2>2, <2>3 DEF Reshaped, SoundUser
  <2> QED
    BY <1>1, <2>1, <2>4, <2>5, <2>6, OneMoves DEF Sound
<1> QED
  BY <1>3, <1>4

\* Inserting a client keeps the invariant.
LEMMA InsertClientKeepsAInv == ASSUME AInv, NEW r \in Requests, InsertClient(r) PROVE AInv'
<1>1. /\ r \in Running /\ r \in Started /\ TypeOK
      /\ Current(r) = "insertClient" /\ Current(r) # "rollback" /\ users' = users
  BY DEF InsertClient, At, AInv, Running
<1>2. /\ r \notin users
      /\ req[r].kind = "signup" => r \notin clients
      /\ req[r].after \in SUBSET Requests
  BY <1>1, UnderWay
<1> DEFINE rest == Tail(req[r].todo)
<1>3. /\ Left(req[r].kind, rest)
      /\ req[r].kind \in {"signup", "createClient"}
      /\ req[r].kind = "signup" => rest # <<>> /\ Head(rest) = "insertUser"
  BY <1>1, Ahead
<1>4. CASE ClientFits(r)
  <2>1. Reshaped(r, rest, AnswerOnward(r), req[r].after) /\ clients' = clients \union {r}
    BY <1>1, <1>2, <1>4, OnwardShape DEF InsertClient
  <2>2. Sound(r)
    BY <1>1, <1>2, <1>3, <2>1
    DEF Reshaped, Sound, SameRequest, SoundClient, SoundUser, AnswerOnward
  <2> QED
    BY <1>1, <2>1, <2>2, OneMoves
<1>5. CASE ~ClientFits(r)
  <2>1. Reshaped(r, <<>>, "failed", req[r].after) /\ clients' = clients
    BY <1>1, <1>5, AnsweredShape DEF InsertClient, Answer
  <2>2. Sound(r)
    BY <1>1, <1>2, <1>3, <2>1 DEF Reshaped, Sound, SameRequest, SoundClient, SoundUser, Left
  <2> QED
    BY <1>1, <2>1, <2>2, OneMoves
<1> QED
  BY <1>4, <1>5

\* A request whose user could not be inserted, or was and nobody said so, keeps
\* the invariant.
LEMMA RefusedKeepsAInv ==
  ASSUME AInv, NEW r \in Running, Current(r) = "insertUser", req' = UserRefused(r),
         clients' = clients, users' = users \/ (users' = users \union {r} /\ UserFits(r))
  PROVE  AInv'
<1>1. r \in Started /\ TypeOK
  BY DEF AInv, Running
<1>2. /\ r \notin users
      /\ req[r].kind = "signup" => r \in clients
      /\ r \in clients => req[r].kind \in {"signup", "createClient"}
      /\ req[r].answer = "none"
  BY UnderWay
<1>3. r \in users' => IsSuperAdmin(r) \/ req[r].client # None
  BY <1>2 DEF UserFits, IsSuperAdmin
<1>4. CASE req[r].kind = "signup"
  <2>1. Reshaped(r, <<"rollback">>, "none", req[r].after)
    BY <1>1, <1>2, <1>4, RollbackShape DEF UserRefused
  <2>2. <<"rollback">> # <<>> /\ Head(<<"rollback">>) = "rollback"
    OBVIOUS
  <2>3. Sound(r)
    BY <1>2, <1>3, <1>4, <2>1, <2>2
    DEF Reshaped, Sound, SameRequest, SoundClient, SoundUser, Left
  <2> QED
    BY <2>1, <2>3, OneMoves
<1>5. CASE req[r].kind # "signup"
  <2>1. Reshaped(r, <<>>, "failed", req[r].after)
    BY <1>1, <1>5, AnsweredShape DEF UserRefused, Answer
  <2>2. Sound(r)
    BY <1>2, <1>3, <1>5, <2>1 DEF Reshaped, Sound, SameRequest, SoundClient, SoundUser, Left
  <2> QED
    BY <2>1, <2>2, OneMoves
<1> QED
  BY <1>4, <1>5

\* Inserting a user keeps the invariant.
LEMMA InsertUserKeepsAInv == ASSUME AInv, NEW r \in Requests, InsertUser(r) PROVE AInv'
<1>1. /\ r \in Running /\ r \in Started /\ TypeOK
      /\ Current(r) = "insertUser" /\ Current(r) # "rollback" /\ clients' = clients
  BY DEF InsertUser, At, AInv, Running
<1>2. /\ r \notin users
      /\ req[r].kind = "signup" => r \in clients
      /\ r \in clients => req[r].kind \in {"signup", "createClient"}
      /\ req[r].after \in SUBSET Requests
  BY <1>1, UnderWay
<1>3. CASE UserFits(r)
  <2>1. Tail(req[r].todo) = <<>>
    BY <1>1, Ahead
  <2>2. Reshaped(r, <<>>, "created", req[r].after) /\ users' = users \union {r}
    BY <1>1, <1>2, <1>3, <2>1, OnwardShape DEF InsertUser, AnswerOnward
  <2>3. IsSuperAdmin(r) \/ req[r].client # None
    BY <1>3 DEF UserFits, IsSuperAdmin
  <2>4. Sound(r)
    BY <1>1, <1>2, <2>2, <2>3 DEF Reshaped, Sound, SameRequest, SoundClient, SoundUser, Left
  <2> QED
    BY <1>1, <2>2, <2>4, OneMoves
<1>4. CASE ~UserFits(r)
  BY <1>1, <1>4, RefusedKeepsAInv DEF InsertUser
<1> QED
  BY <1>3, <1>4

\* A rollback that is over, however it went, keeps the invariant.
LEMMA RolledBackKeepsAInv ==
  ASSUME AInv, NEW r \in Running, Current(r) = "rollback", users' = users,
         clients' \in {clients, clients \ {r}},
         NEW answer \in {"failed", "stranded"}, req' = Answered(r, answer),
         clients' = clients => answer = "stranded"
  PROVE  AInv'
<1>1. r \in Started /\ TypeOK
  BY DEF AInv, Running
<1>2. /\ req[r].kind = "signup"
      /\ r \in users => IsSuperAdmin(r) \/ req[r].client # None
      /\ r \in clients
  BY UnderWay
<1>3. Reshaped(r, <<>>, answer, req[r].after)
  BY <1>1, AnsweredShape DEF Answer
<1>4. Sound(r)
  BY <1>2, <1>3 DEF Reshaped, Sound, SameRequest, SoundClient, SoundUser, Left, TakenBack
<1> QED
  BY <1>3, <1>4, OneMoves

\* What a query that was sent may still do.
LEMMA Applied ==
  ASSUME NEW r \in Running
  PROVE  /\ \/ ClientsWith(r) = clients
            \/ Current(r) = "insertClient" /\ ClientsWith(r) = clients \union {r}
            \/ Current(r) = "rollback" /\ ClientsWith(r) = clients \ {r}
         /\ \/ UsersWith(r) = users
            \/ /\ Current(r) = "insertUser" /\ UserFits(r)
               /\ UsersWith(r) = users \union {r}
  BY DEF ClientsWith, UsersWith, At, Removed

\* A query that throws keeps the invariant.
LEMMA QueryFailsKeepsAInv == ASSUME AInv, NEW r \in Requests, QueryFails(r) PROVE AInv'
<1>1. r \in Running /\ r \in Started /\ TypeOK
  BY DEF QueryFails, AInv, Running
<1>2. /\ \/ clients' = clients
         \/ Current(r) = "insertClient" /\ clients' = clients \union {r}
         \/ Current(r) = "rollback" /\ clients' = clients \ {r}
      /\ \/ users' = users
         \/ Current(r) = "insertUser" /\ UserFits(r) /\ users' = users \union {r}
  BY <1>1, Applied DEF QueryFails
<1>3. CASE Current(r) = "insertUser"
  BY <1>1, <1>2, <1>3, RefusedKeepsAInv DEF QueryFails
<1>4. CASE Current(r) = "rollback"
  <2>1. req' = Answered(r, "stranded")
    BY <1>4 DEF QueryFails
  <2> QED
    BY <1>1, <1>2, <1>4, <2>1, RolledBackKeepsAInv
<1>5. CASE Current(r) \notin {"insertUser", "rollback"}
  <2>1. PICK answer \in {"lost", "failed"} :
          req' = Answered(r, answer) /\ (clients' # clients => answer = "lost")
    BY <1>5 DEF QueryFails
  <2>2. Reshaped(r, <<>>, answer, req[r].after)
    BY <1>1, <2>1, AnsweredShape DEF Answer
  <2>3. /\ r \notin users
        /\ req[r].kind = "signup" => r \notin clients
        /\ r \in clients => req[r].kind \in {"signup", "createClient"}
    BY <1>1, <1>5, UnderWay
  <2>4. Current(r) = "insertClient" => req[r].kind \in {"signup", "createClient"}
    BY <1>1, Ahead
  <2>5. Sound(r)
    BY <1>2, <1>5, <2>1, <2>2, <2>3, <2>4
    DEF Reshaped, Sound, SameRequest, SoundClient, SoundUser, Left
  <2> QED
    BY <1>1, <1>2, <1>5, <2>2, <2>5, OneMoves
<1> QED
  BY <1>3, <1>4, <1>5

\* A rollback that goes well keeps the invariant.
LEMMA RollbackKeepsAInv == ASSUME AInv, NEW r \in Requests, Rollback(r) PROVE AInv'
<1>1. r \in Running /\ Current(r) = "rollback"
  BY DEF Rollback, At
<1>2. r \in clients
  BY <1>1, UnderWay
<1> QED
  BY <1>1, <1>2, RolledBackKeepsAInv DEF Rollback, Removed

\* The end of the process keeps the invariant: it moves every request under way.
LEMMA CrashKeepsAInv == ASSUME AInv, Crash PROVE AInv'
<1>1. TypeOK /\ Running \subseteq Started
  BY DEF AInv, Running
<1>2. ASSUME NEW q \in Started
      PROVE  /\ q \notin Running => req'[q] = req[q]
             /\ q \in Running =>
                  /\ req'[q].kind = req[q].kind /\ req'[q].role = req[q].role
                  /\ req'[q].client = req[q].client /\ req'[q].after = req[q].after
                  /\ req'[q].todo = <<>> /\ req'[q].answer = "cut"
             /\ req'[q] \in Request
  <2>1. req[q] \in Request /\ <<>> \in Seq(Await)
    BY <1>1 DEF TypeOK
  <2>2. req'[q] = IF q \in Running THEN [req[q] EXCEPT !.todo = <<>>, !.answer = "cut"]
                                   ELSE req[q]
    BY DEF Crash
  <2> QED
    BY <2>1, <2>2 DEF Request, Answer
<1>3. Started' = Started /\ req' \in [Started -> Request]
  <2>1. req' = [q \in Started |-> req'[q]]
    BY DEF Crash
  <2> QED
    BY <1>2, <2>1 DEF Started
<1>4. ASSUME NEW q \in Started
      PROVE  /\ q \in clients' => q \in clients \/ (q \in Running /\ Current(q) = "insertClient")
             /\ q \in clients /\ q \notin clients' => q \in Running /\ Current(q) = "rollback"
             /\ q \in users' =>
                  q \in users \/ (q \in Running /\ Current(q) = "insertUser" /\ UserFits(q))
             /\ q \in users => q \in users'
             /\ clients' \subseteq Started /\ users' \subseteq Started
  BY <1>1, Applied DEF Crash, TypeOK
<1>5. ASSUME NEW q \in Running PROVE Sound(q)
  <2>1. /\ q \in Started
        /\ q \notin users \/ Current(q) = "rollback"
        /\ Current(q) = "rollback" => req[q].kind = "signup"
        /\ q \in clients => req[q].kind \in {"signup", "createClient"}
        /\ q \in users => IsSuperAdmin(q) \/ req[q].client # None
    BY UnderWay
  <2>2. Current(q) = "insertClient" => req[q].kind \in {"signup", "createClient"}
    BY <1>1, Ahead
  <2>3. SameRequest(q)
    BY <1>2, <2>1 DEF SameRequest, Left
  <2>4. SoundClient(q)
    BY <1>2, <1>4, <2>1, <2>2 DEF SoundClient, TakenBack
  <2>5. SoundUser(q)
    BY <1>2, <1>4, <2>1 DEF SoundUser, TakenBack, UserFits, IsSuperAdmin
  <2> QED
    BY <2>3, <2>4, <2>5 DEF Sound
<1>6. clients' \subseteq Started /\ users' \subseteq Started
  BY <1>1, Applied DEF Crash, TypeOK
<1>7. Moves(Running)
  BY <1>1, <1>2, <1>3, <1>4, <1>5, <1>6 DEF Moves
<1> QED
  BY <1>7, MovesKeepAInv

\* Where a request starts.
LEMMA PlanStart ==
  ASSUME NEW kind \in Kinds
  PROVE  /\ Plan[kind] \in Seq(Await) /\ Plan[kind] # <<>> /\ Left(kind, Plan[kind])
         /\ kind = "signup" => Head(Plan[kind]) = "slug"
         /\ kind = "createUser" => Head(Plan[kind]) = "client"
<1>1. /\ kind \in {"onboard", "register", "createClient", "signup", "createUser"}
      /\ Plan[kind] \in {OnboardSuperAdmin, Register, CreateClient, Signup, CreateClientUser}
      /\ kind = "signup" => Plan[kind] = Signup
      /\ kind = "createUser" => Plan[kind] = CreateClientUser
  BY DEF Kinds, Plan
<1>2. Plan[kind] \in Seq(Await) /\ Plan[kind] # <<>> /\ Len(Plan[kind]) \in Nat \ {0}
  <2>1. Len(Plan[kind]) \in Nat \ {0}
    BY <1>1 DEF OnboardSuperAdmin, Register, CreateClient, Signup, CreateClientUser
  <2>2. Plan[kind] = <<>> => Len(Plan[kind]) = 0
    OBVIOUS
  <2>3. 1 \in 1..Len(Plan[kind])
    BY <2>1
  <2>4. Plan[kind] \in Seq(Await)
    BY <2>3, PlanOrder
  <2> QED
    BY <2>1, <2>2, <2>4
<1>3. Plan[kind] = SubSeq(Plan[kind], 1, Len(Plan[kind]))
  BY <1>2, SubSeqFull
<1>4. Left(kind, Plan[kind])
  BY <1>2, <1>3 DEF Left
<1> QED
  BY <1>1, <1>2, <1>4 DEF Signup, CreateClientUser

\* A request that starts keeps the invariant.
LEMMA StartKeepsAInv == ASSUME AInv, NEW r \in Requests, Start(r) PROVE AInv'
<1>1. /\ r \notin Started /\ TypeOK /\ clients' = clients /\ users' = users
      /\ r \notin clients /\ r \notin users
  BY DEF Start, AInv, TypeOK
<1>2. PICK kind \in Kinds, slug \in Slugs, email \in Emails, name \in Names,
           c \in Requests \union {None} :
        /\ Permitted(kind, c)
        /\ \E role \in RolesFor[kind] :
             req' = [q \in Started \union {r} |->
                       IF q # r THEN req[q]
                       ELSE [kind |-> kind, slug |-> slug, email |-> email,
                             name |-> name, role |-> role,
                             client |-> IF kind = "signup" THEN r ELSE c,
                             todo |-> Plan[kind], answer |-> "none",
                             after |-> {}]]
  BY DEF Start
<1>2a. PICK role \in RolesFor[kind] :
         req' = [q \in Started \union {r} |->
                   IF q # r THEN req[q]
                   ELSE [kind |-> kind, slug |-> slug, email |-> email,
                         name |-> name, role |-> role,
                         client |-> IF kind = "signup" THEN r ELSE c,
                         todo |-> Plan[kind], answer |-> "none",
                         after |-> {}]]
  BY <1>2
<1>3. /\ Plan[kind] \in Seq(Await) /\ Plan[kind] # <<>> /\ Left(kind, Plan[kind])
      /\ kind = "signup" => Head(Plan[kind]) = "slug"
      /\ kind = "createUser" => Head(Plan[kind]) = "client"
  BY PlanStart
<1>4. role \in Role /\ "none" \in Answer
  <2>1. kind \in {"onboard", "register", "createClient", "signup", "createUser"}
    BY DEF Kinds, Plan
  <2> QED
    BY <2>1 DEF RolesFor, Role, Answer
<1>5. /\ Started' = Started \union {r}
      /\ \A q \in Started : req'[q] = req[q]
  BY <1>1, <1>2a DEF Started
<1>6. /\ req'[r].kind = kind /\ req'[r].role = role
      /\ req'[r].client = IF kind = "signup" THEN r ELSE c
      /\ req'[r].todo = Plan[kind] /\ req'[r].answer = "none" /\ req'[r].after = {}
      /\ req'[r] \in Request
  BY <1>2a, <1>3, <1>4 DEF Request
<1>7. req' \in [Started \union {r} -> Request]
  <2>1. \A q \in Started \union {r} : req'[q] \in Request
    BY <1>1, <1>5, <1>6 DEF TypeOK
  <2>2. req' = [q \in Started \union {r} |-> req'[q]]
    BY <1>2a
  <2> QED
    BY <2>1, <2>2
<1>8. Running' = Running \union {r}
  BY <1>5, <1>6 DEF Running
<1>9. clients \subseteq Started /\ users \subseteq Started
  BY <1>1 DEF TypeOK
<1>10. TypeOK'
  <2> SUFFICES ASSUME NEW q \in Started \union {r}
               PROVE  /\ req'[q].role \in RolesFor[req'[q].kind]
                      /\ req'[q].after \subseteq (Started \union {r}) \ {q}
                      /\ Left(req'[q].kind, req'[q].todo)
                      /\ req'[q].answer = "none" <=> req'[q].todo # <<>>
    BY <1>1, <1>5, <1>7, <1>9 DEF TypeOK, Left
  <2>1. CASE q = r
    BY <1>3, <1>6, <1>2a, <2>1
  <2>2. CASE q \in Started
    BY <1>1, <1>5, <2>2 DEF TypeOK
  <2> QED
    BY <2>1, <2>2
<1>11. HasClient'
  <2> SUFFICES ASSUME NEW q \in Running \union {r}, req'[q].kind = "signup"
               PROVE  q \in clients <=> Head(req'[q].todo) \in {"insertUser", "rollback"}
    BY <1>1, <1>8 DEF HasClient, Current
  <2>1. CASE q = r
    BY <1>1, <1>3, <1>6, <2>1
  <2>2. CASE q \in Running
    BY <1>5, <2>2 DEF AInv, HasClient, Current, Running
  <2> QED
    BY <2>1, <2>2
<1>12. ClientMakers'
  BY <1>1, <1>5, <1>9 DEF AInv, ClientMakers
<1>13. ClientOf'
  <2>1. /\ kind = "createUser" => c \in clients
        /\ kind \in {"onboard", "register", "createClient"} => c = None
    BY <1>2 DEF Permitted
  <2>2. ASSUME NEW q \in Started \union {r}
        PROVE  /\ req'[q].kind = "signup" => req'[q].client = q
               /\ req'[q].kind = "createUser" => req'[q].client \in Started
               /\ req'[q].kind \in {"onboard", "register", "createClient"} =>
                    req'[q].client = None
    <3>1. CASE q = r
      BY <1>6, <1>9, <2>1, <3>1
    <3>2. CASE q \in Started
      BY <1>5, <3>2 DEF AInv, ClientOf
    <3> QED
      BY <3>1, <3>2
  <2> QED
    BY <1>5, <2>2 DEF ClientOf
<1>14. UsersDone'
  BY <1>1, <1>5, <1>8, <1>9 DEF AInv, UsersDone, Current, IsSuperAdmin
<1>15. SignupHasCompany'
  BY <1>1, <1>5, <1>9 DEF AInv, SignupHasCompany, TakenBack
<1>16. NoUnmannedCompany'
  BY <1>1, <1>5, <1>8, <1>9 DEF AInv, NoUnmannedCompany
<1>17. CompanySeen'
  <2> SUFFICES ASSUME NEW q \in Started \union {r}, NEW d, d = req'[q].client,
                      req'[q].kind = "createUser",
                      q \in users \/ (q \in Running \union {r} /\ Head(req'[q].todo) # "client")
               PROVE  Vetted(q, d)'
    BY <1>1, <1>5, <1>8 DEF CompanySeen, Current, Vetted, TakenBack
  <2>1. q \in Started
    BY <1>1, <1>3, <1>6
  <2>2. d \in Started /\ Vetted(q, d)
    BY <1>1, <1>5, <2>1 DEF AInv, CompanySeen, ClientOf, Current
  <2> QED
    BY <1>1, <1>5, <2>1, <2>2 DEF Vetted, TakenBack
<1>18. SeenAnswered'
  <2> SUFFICES ASSUME NEW q \in Started \union {r}
               PROVE  req'[q].after \subseteq (Started \union {r}) \ (Running \union {r})
    BY <1>5, <1>8 DEF SeenAnswered
  <2>1. CASE q = r
    BY <1>6, <2>1
  <2>2. CASE q \in Started
    BY <1>1, <1>5, <2>2 DEF AInv, SeenAnswered
  <2> QED
    BY <2>1, <2>2
<1>19. NobodySeen'
  BY <1>1, <1>5, <1>6 DEF AInv, NobodySeen
<1> QED
  BY <1>10, <1>11, <1>12, <1>13, <1>14, <1>15, <1>16, <1>17, <1>18, <1>19 DEF AInv

-----------------------------------------------------------------------------
(* The theorems.                                                            *)

\* The invariant holds initially.
LEMMA AInvInit == Init => AInv
<1> SUFFICES ASSUME Init PROVE AInv
  OBVIOUS
<1>1. Started = {} /\ clients = {} /\ users = {}
  BY DEF Init, Started
<1>2. req \in [{} -> Request]
  BY DEF Init
<1> QED
  BY <1>1, <1>2 DEF AInv, TypeOK, NoUnmannedCompany, HasClient, ClientMakers, ClientOf,
     UsersDone, SignupHasCompany, CompanySeen, SeenAnswered, NobodySeen, Running

\* Every step keeps it.
LEMMA AInvStep == ASSUME AInv, [Next]_vars PROVE AInv'
<1>1. ASSUME NEW r \in Requests, Start(r) PROVE AInv'
  BY <1>1, StartKeepsAInv
<1>2. ASSUME NEW r \in Requests, Check(r) PROVE AInv'
  BY <1>2, CheckKeepsAInv
<1>3. ASSUME NEW r \in Requests, InsertClient(r) PROVE AInv'
  BY <1>3, InsertClientKeepsAInv
<1>4. ASSUME NEW r \in Requests, InsertUser(r) PROVE AInv'
  BY <1>4, InsertUserKeepsAInv
<1>5. ASSUME NEW r \in Requests, Rollback(r) PROVE AInv'
  BY <1>5, RollbackKeepsAInv
<1>6. ASSUME NEW r \in Requests, QueryFails(r) PROVE AInv'
  BY <1>6, QueryFailsKeepsAInv
<1>7. CASE Crash
  BY <1>7, CrashKeepsAInv
<1>8. CASE UNCHANGED vars
  <2>1. Moves({})
    BY <1>8 DEF vars, Moves, AInv, TypeOK, Started
  <2> QED
    BY <2>1, MovesKeepAInv
<1> QED
  BY <1>1, <1>2, <1>3, <1>4, <1>5, <1>6, <1>7, <1>8 DEF Next

\* AInv is an invariant.
LEMMA AInvAlways == Spec => []AInv
  BY AInvInit, AInvStep, PTL DEF Spec

\* client.service.ts:177-182: a signup that is over leaves no company without its
\* admin, unless its rollback failed, the process ended, or Mongo never said that
\* it had created the company.
THEOREM AccountsNoUnmannedCompany == Spec => []NoUnmannedCompany
<1>1. AInv => NoUnmannedCompany
  BY DEF AInv
<1> QED
  BY <1>1, AInvAlways, PTL

\* The types of the requests and the collections.
THEOREM AccountsTypeCorrect == Spec => []TypeOK
<1>1. AInv => TypeOK
  BY DEF AInv
<1> QED
  BY <1>1, AInvAlways, PTL

\* auth.service.ts:78-96: nobody becomes super admin by an onboarding that began
\* after somebody else had been answered and had an account.
THEOREM AccountsOnboardingCloses == Spec => []OnboardingCloses
<1>1. AInv => OnboardingCloses
  BY DEF AInv, NobodySeen, OnboardingCloses, TypeOK
<1> QED
  BY <1>1, AInvAlways, PTL

\* client.service.ts:198-199: a person belongs to a company that exists, unless its
\* signup has taken it back since the request for the person had found it.
THEOREM AccountsNoStrayUser == Spec => []NoStrayUser
<1>1. ASSUME AInv PROVE NoStrayUser
  <2> SUFFICES ASSUME NEW u \in users, ~IsSuperAdmin(u), NEW s, s = req[u].client,
                      s \notin clients
               PROVE  /\ req[s].kind = "signup" /\ req[s].answer \in TakenBack
                      /\ s = u \/ s \notin req[u].after
    BY DEF NoStrayUser, TakenBack
  <2>1. u \in Started /\ s # None /\ req[u].kind \in Kinds
    BY <1>1 DEF AInv, UsersDone, TypeOK, Request
  <2>2. req[u].kind \in {"signup", "createUser"}
    BY <1>1, <2>1 DEF AInv, ClientOf, Kinds, Plan
  <2>3. CASE req[u].kind = "signup"
    BY <1>1, <2>1, <2>3 DEF AInv, SignupHasCompany, ClientOf
  <2>4. CASE req[u].kind = "createUser"
    BY <1>1, <2>1, <2>4 DEF AInv, CompanySeen, Vetted
  <2> QED
    BY <2>2, <2>3, <2>4
<1> QED
  BY <1>1, AInvAlways, PTL
=============================================================================
