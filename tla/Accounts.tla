------------------------------- MODULE Accounts -------------------------------
(***************************************************************************)
(* How companies (documents of clients) and people (documents of users)    *)
(* come to exist: AuthService.onboardSuperAdmin and register, and          *)
(* ClientService.signup, createClient and createClientUser, over the two   *)
(* Mongo repositories and their unique indexes.                            *)
(*                                                                         *)
(* A request is a row of queries, one per await: it looks for what would   *)
(* collide, and only then inserts.  Requests overlap freely, a query may   *)
(* fail before or after Mongo has applied it, and the API process may end  *)
(* under all of them.  The _id of a document is the request that made it.  *)
(***************************************************************************)
EXTENDS Naturals, Sequences, FiniteSets

CONSTANTS
    Requests,
    None,            \* no client
    Slugs, Emails, Names,
    MongoFaults,     \* how a query may go wrong: "failed", "lostReply"
    MayCrash         \* may the API process end?

ASSUME AccountsAssumption ==
    /\ None \notin Requests
    /\ MongoFaults \subseteq {"failed", "lostReply"}
    /\ MayCrash \in BOOLEAN

VARIABLES
    req,        \* the requests; after: those answered when it made its first check
    clients,    \* the collection clients, by _id
    users       \* the collection users, by _id

vars == <<req, clients, users>>

\* The awaits of each request, in order: createUser looks for any user at all if
\* it is to make a super admin, and otherwise for the email and the username.
OnboardSuperAdmin == <<"anyUser", "insertUser">>
Register == <<"email", "name", "insertUser">>
CreateClient == <<"slug", "insertClient">>
Signup == <<"slug", "email", "name", "insertClient", "insertUser">>
CreateClientUser == <<"client", "email", "name", "insertUser">>

Plan == [onboard |-> OnboardSuperAdmin, register |-> Register,
         createClient |-> CreateClient, signup |-> Signup,
         createUser |-> CreateClientUser]

Kinds == DOMAIN Plan

Role == {"super_admin", "client_admin", "client_user"}
RolesFor == [onboard |-> {"super_admin"}, register |-> Role,
             signup |-> {"client_admin"}, createClient |-> {"client_user"},
             createUser |-> {"client_admin", "client_user"}]

\* "lost": failed, but Mongo has created the client.  "stranded": failed, and so
\* has the rollback.  "cut": the process ended first.
Answer == {"none", "created", "refused", "failed", "lost", "stranded", "cut"}

\* What a request may wait for; the check of anything that collides comes first.
Checks == {"anyUser", "slug", "email", "name", "client"}
Await == Checks \union {"insertClient", "insertUser", "rollback"}

Request == [kind : Kinds, slug : Slugs, email : Emails, name : Names, role : Role,
            client : Requests \union {None}, todo : Seq(Await), answer : Answer,
            after : SUBSET Requests]

\* The requests that have started.
Started == DOMAIN req

\* What may be left to do of a request.
Left(kind, todo) ==
    \/ todo = <<>>
    \/ todo = <<"rollback">> /\ kind = "signup"
    \/ \E n \in 1..Len(Plan[kind]) : todo = SubSeq(Plan[kind], n, Len(Plan[kind]))

TypeOK ==
    /\ Started \subseteq Requests
    /\ req \in [Started -> Request]
    /\ \A r \in Started :
         /\ req[r].role \in RolesFor[req[r].kind]
         /\ req[r].after \subseteq Started \ {r}
         /\ Left(req[r].kind, req[r].todo)
         /\ req[r].answer = "none" <=> req[r].todo # <<>>
    /\ clients \subseteq Started
    /\ users \subseteq Started

Init ==
    /\ req = <<>>
    /\ clients = {}
    /\ users = {}

-----------------------------------------------------------------------------
(* Who may ask.                                                             *)

Running == {r \in Started : req[r].answer = "none"}

IsSuperAdmin(u) == req[u].role = "super_admin"
IsAdminOf(u, c) == req[u].role = "client_admin" /\ req[u].client = c

\* authorize, requireSuperAdmin, canCreateClientUser: somebody has an account
\* that may send the request.  (The client of a path is one that a list of
\* clients has shown.)
Permitted(kind, c) ==
    CASE kind \in {"onboard", "signup"} -> c = None
      [] kind \in {"register", "createClient"} ->
           c = None /\ \E u \in users : IsSuperAdmin(u)
      [] kind = "createUser" ->
           /\ c \in clients
           /\ \E u \in users : IsSuperAdmin(u) \/ IsAdminOf(u, c)

Start(r) ==
    /\ r \notin Started
    /\ \E kind \in Kinds, slug \in Slugs, email \in Emails, name \in Names,
          c \in Requests \union {None} :
         /\ Permitted(kind, c)
         /\ \E role \in RolesFor[kind] :
              req' = [q \in Started \union {r} |->
                        IF q # r THEN req[q]
                        ELSE [kind |-> kind, slug |-> slug, email |-> email,
                              name |-> name, role |-> role,
                              client |-> IF kind = "signup" THEN r ELSE c,
                              todo |-> Plan[kind], answer |-> "none",
                              after |-> {}]]
    /\ UNCHANGED <<clients, users>>

-----------------------------------------------------------------------------
(* One query.                                                               *)

Current(r) == Head(req[r].todo)

At(r, await) == r \in Running /\ Current(r) = await

\* The answer of r, if that was its last await.
Onward(r) ==
    [req EXCEPT ![r].todo = Tail(@),
                ![r].answer = IF Len(req[r].todo) = 1 THEN "created" ELSE "none"]

\* An answer that leaves the request where it was.
AnsweredStill(r, answer) == [req EXCEPT ![r].answer = answer]

Answered(r, answer) == [req EXCEPT ![r].todo = <<>>, ![r].answer = answer]

\* Somebody, or some company, has the value the check looks for: the findOne of
\* findIfAnyExists(false), findByUsername and findBySlug.
Taken(r, await) ==
    \/ await = "email" /\ \E u \in users : req[u].email = req[r].email
    \/ await = "name" /\ \E u \in users : req[u].name = req[r].name
    \/ await = "slug" /\ \E c \in clients : req[c].slug = req[r].slug

\* A createClientUser that does not look for its client.
FoundNoClient(r, await) == Taken(r, await) \/ (await = "anyUser" /\ users # {})

\* An onboarding that looks for its own email only.
FoundByEmail(r, await) ==
    \/ Taken(r, IF await = "anyUser" THEN "email" ELSE await)
    \/ await = "client" /\ req[r].client \notin clients

\* Does the check find a reason to refuse?  findIfAnyExists(true) asks for any
\* user at all; findById must find the client.
Found(r, await) ==
    \/ Taken(r, await)
    \/ await = "anyUser" /\ users # {}
    \/ await = "client" /\ req[r].client \notin clients

Check(r) ==
    /\ r \in Running /\ Current(r) \in Checks
    /\ req' = IF Found(r, Current(r)) THEN Answered(r, "refused")
              ELSE IF req[r].todo # Plan[req[r].kind] THEN Onward(r)
              ELSE [Onward(r) EXCEPT ![r].after = Started \ Running]
    /\ UNCHANGED <<clients, users>>

\* The unique index on slug.
ClientFits(r) == \A c \in clients : req[c].slug # req[r].slug

InsertClient(r) ==
    /\ At(r, "insertClient")
    /\ IF ClientFits(r)
       THEN req' = Onward(r) /\ clients' = clients \union {r}
       ELSE req' = Answered(r, "failed") /\ UNCHANGED clients
    /\ UNCHANGED users

\* The unique indexes on email and username, and the validator: every role but
\* super_admin has a client (register gives none).
UserFits(r) ==
    /\ \A u \in users : req[u].email # req[r].email /\ req[u].name # req[r].name
    /\ req[r].role = "super_admin" \/ req[r].client # None

\* A signup that leaves its client behind.
NoRollback(r) == Answered(r, "failed")

\* What a request does when its user cannot be inserted: signup takes back
\* its client, the others just fail.
UserRefused(r) ==
    IF req[r].kind = "signup" THEN [req EXCEPT ![r].todo = <<"rollback">>]
    ELSE Answered(r, "failed")

InsertUser(r) ==
    /\ At(r, "insertUser")
    /\ IF UserFits(r)
       THEN req' = Onward(r) /\ users' = users \union {r}
       ELSE req' = UserRefused(r) /\ UNCHANGED users
    /\ UNCHANGED clients

\* clientRepo.delete takes it by its _id.
Removed(r) == {r}

Rollback(r) ==
    /\ At(r, "rollback")
    /\ clients' = clients \ Removed(r)
    /\ req' = Answered(r, "failed")
    /\ UNCHANGED users

\* The collections once Mongo has applied the query r waits for.
ClientsWith(r) ==
    CASE At(r, "insertClient") /\ ClientFits(r) -> clients \union {r}
      [] At(r, "rollback") -> clients \ Removed(r)
      [] OTHER -> clients

UsersWith(r) == IF At(r, "insertUser") /\ UserFits(r) THEN users \union {r} ELSE users

\* The query throws: Mongo has not applied it, or its reply is lost.
QueryFails(r) ==
    /\ r \in Running
    /\ \/ "failed" \in MongoFaults /\ UNCHANGED <<clients, users>>
       \/ "lostReply" \in MongoFaults /\ clients' = ClientsWith(r) /\ users' = UsersWith(r)
    /\ req' = CASE Current(r) = "insertUser" -> UserRefused(r)
                [] Current(r) = "rollback" -> Answered(r, "stranded")
                [] OTHER -> Answered(r, IF clients' # clients THEN "lost" ELSE "failed")

\* The API process ends, another one takes its place; one of the queries on
\* their way to Mongo may still be applied.
Crash ==
    /\ MayCrash /\ Running # {}
    /\ \/ UNCHANGED <<clients, users>>
       \/ \E r \in Running : clients' = ClientsWith(r) /\ users' = UsersWith(r)
    /\ req' = [r \in Started |-> IF r \in Running
                                 THEN [req[r] EXCEPT !.todo = <<>>, !.answer = "cut"]
                                 ELSE req[r]]

Next ==
    \/ \E r \in Requests :
         \/ Start(r) \/ Check(r)
         \/ InsertClient(r) \/ InsertUser(r) \/ Rollback(r) \/ QueryFails(r)
    \/ Crash

Spec == Init /\ [][Next]_vars

-----------------------------------------------------------------------------
(* Properties.                                                              *)

\* client.service.ts:177-182: a signup that is over leaves no company without
\* its admin, unless its rollback failed, the process ended, or Mongo created
\* the company and never said so.
NoUnmannedCompany ==
    \A r \in clients :
        req[r].kind = "signup" /\ r \notin users /\ r \notin Running =>
            req[r].answer \in {"lost", "stranded", "cut"}

\* A person belongs to a company that exists, unless the company was taken back
\* by its signup after the request for the person had found it.
NoStrayUser ==
    \A u \in users : ~IsSuperAdmin(u) /\ req[u].client \notin clients =>
        LET s == req[u].client
        IN  /\ req[s].kind = "signup" /\ req[s].answer \in {"failed", "stranded", "cut"}
            /\ s = u \/ s \notin req[u].after

\* Onboarding is closed once anybody has an account: a super admin cannot be
\* onboarded by a request that looked after a user had been created.
OnboardingCloses ==
    \A r \in users : req[r].kind = "onboard" => req[r].after \intersect users = {}
=============================================================================
