------------------------------ MODULE UserAccount ------------------------------
(***************************************************************************)
(* The life of one user's account: login and sessions, the password, the   *)
(* one-time tokens that verify an email or reset a password (AuthService,  *)
(* AuthTokenCache, emailVerification.utils), and what an administrator     *)
(* does to it (ClientService.setUserActive, updateUserPermissions).        *)
(*                                                                         *)
(* A session is a JWT: it carries the permissions of its login, nobody     *)
(* can take it back, and it ends when it expires.  A request is a row of   *)
(* awaits on Mongo, Redis and the mailer, between which the others move;   *)
(* while it is stormy any of them may fail, and the process may end.       *)
(***************************************************************************)
EXTENDS Naturals, FiniteSets

CONSTANTS
    Requests,    \* requests at a time (a bound)
    Tokens,      \* tokens at a time (a bound)
    Passwords,
    Permissions, \* sets of permissions a user may have
    None,
    MayStorm     \* may stores, mail and the process fail for a while?

ASSUME UserAccountAssumption == None \notin Tokens /\ MayStorm \in BOOLEAN

VARIABLES
    user,        \* the document in users
    sessions,    \* live JWTs, by the permissions they carry
    token,       \* AuthTokenCache in Redis, and what the user's inbox knows
    request,     \* the requests under way
    stormy       \* may things still fail?

vars == <<user, sessions, token, request, stormy>>

User == [isActive : BOOLEAN, isEmailVerified : BOOLEAN,
         password : Passwords, permissions : Permissions]

Purpose == {"verify", "reset"}

\* "stored" in Redis or "gone" from it; mailed: the user has its link;
\* consumed: a request has been told that it was good.
Token == [state : {"stored", "gone"}, purpose : Purpose, mailed : BOOLEAN,
          consumed : BOOLEAN]
NoToken == [state |-> "gone", purpose |-> "verify", mailed |-> FALSE, consumed |-> FALSE]

\* What a request brings or has read: arg.  late: it came with a token or a
\* password that was good no more, and the password has not changed since.
Arg == Tokens \union Passwords \union Permissions \union BOOLEAN \union {None}

Kind == {"login", "changePassword", "verifyEmail", "resetPassword", "resend",
         "forgotPassword", "setUserActive", "updateUserPermissions"}

Request == [kind : Kind, pc : {"find", "get", "del", "store", "mail", "write", "issue"},
            arg : Arg, late : BOOLEAN]

TypeOK ==
    /\ user \in User
    /\ sessions \subseteq Permissions
    /\ token \in [Tokens -> Token]
    /\ request \in [Requests -> Request \union {None}]
    /\ stormy \in BOOLEAN
    /\ \A r \in Requests : request[r] # None =>
         CASE request[r].pc \in {"del", "mail"} -> request[r].arg \in Tokens
           [] request[r].pc = "issue" -> request[r].arg \in Permissions
           [] OTHER -> TRUE

Init ==
    /\ user \in [isActive : {TRUE}, isEmailVerified : {FALSE},
                 password : Passwords, permissions : Permissions]
    /\ sessions = {}
    /\ token = [t \in Tokens |-> NoToken]
    /\ request = [r \in Requests |-> None]
    /\ stormy = MayStorm

-----------------------------------------------------------------------------
(* Requests.                                                                *)

At(r, pc) == request[r] # None /\ request[r].pc = pc
Is(r, kind) == request[r].kind = kind

Go(r, pc, arg) == request' = [request EXCEPT ![r].pc = pc, ![r].arg = arg]
Answer(r) == request' = [request EXCEPT ![r] = None]

\* The requests once r is through, and the user is u: a new password gives
\* every overlapping request its chance.
Without(r, u) ==
    [q \in Requests |->
        IF q = r THEN None
        ELSE IF /\ request[q] # None /\ request[q].kind \in {"login", "changePassword"}
                /\ u.password # user.password
        THEN [request[q] EXCEPT !.late = FALSE]
        ELSE request[q]]

Begin(r, kind, pc, arg, late) ==
    /\ request[r] = None
    /\ request' = [request EXCEPT ![r] = [kind |-> kind, pc |-> pc, arg |-> arg, late |-> late]]
    /\ UNCHANGED <<user, sessions, token, stormy>>

Held(t) == \E r \in Requests : request[r] # None /\ request[r].arg = t

\* A token that has gone and that nobody holds can stand for a new one.
Fresh(t) == token[t].state = "gone" /\ ~Held(t)

\* The bound on tokens: one is left for every request that will store one.
Room ==
    Cardinality({t \in Tokens : Fresh(t)}) >
        Cardinality({r \in Requests : /\ request[r] # None
                                      /\ request[r].kind \in {"resend", "forgotPassword"}
                                      /\ request[r].pc # "mail"})

\* Anybody may try to log in, or ask for a link to reset the password.
StartLogin(r) ==
    \E p \in Passwords :
        Begin(r, "login", "find", p, p # user.password)

StartForgotPassword(r) == Room /\ Begin(r, "forgotPassword", "find", None, FALSE)

StartResend(r) == Room /\ Begin(r, "resend", "find", None, FALSE)

\* authenticate asks for a session only.
StartChangePassword(r) ==
    /\ sessions # {}
    /\ \E p \in Passwords : Begin(r, "changePassword", "find", p, p # user.password)

\* The user follows a link.  A key that has gone never comes back: None.
Present(r, t, kind, purpose) ==
    /\ token[t].mailed /\ token[t].purpose = purpose
    /\ Begin(r, kind, "get", IF token[t].state = "stored" THEN t ELSE None, token[t].consumed)

FollowLink(r, t) == Present(r, t, "verifyEmail", "verify")

StartVerifyEmail(r) == \E t \in Tokens : FollowLink(r, t)

StartResetPassword(r) == \E t \in Tokens : Present(r, t, "resetPassword", "reset")

\* requireAdminForClient and the checks of findById (nobody moves a user).
StartSetUserActive(r) ==
    \E isActive \in BOOLEAN : Begin(r, "setUserActive", "write", isActive, FALSE)

StartUpdatePermissions(r) ==
    \E p \in Permissions : Begin(r, "updateUserPermissions", "write", p, FALSE)

Start(r) ==
    \/ StartLogin(r) \/ StartForgotPassword(r) \/ StartResend(r) \/ StartChangePassword(r)
    \/ StartVerifyEmail(r) \/ StartResetPassword(r)
    \/ StartSetUserActive(r) \/ StartUpdatePermissions(r)

-----------------------------------------------------------------------------
(* Login and password.                                                      *)

\* A login that forgets to look at isActive.
MayLogInAnyway(p) == p = user.password /\ user.isEmailVerified

\* isActive, comparePassword and isEmailVerified, all on the document that was
\* read first.
MayLogIn(p) == user.isActive /\ p = user.password /\ user.isEmailVerified

\* findByEmail; bcrypt then takes its time.
FindForLogin(r) ==
    /\ At(r, "find") /\ Is(r, "login")
    /\ IF MayLogIn(request[r].arg) THEN Go(r, "issue", user.permissions) ELSE Answer(r)
    /\ UNCHANGED <<user, sessions, token, stormy>>

\* generateToken, from the document read before the comparison.
IssueSession(r) ==
    /\ At(r, "issue")
    /\ sessions' = sessions \union {request[r].arg}
    /\ Answer(r)
    /\ UNCHANGED <<user, token, stormy>>

\* findByEmail and the comparison; the new hash is written later.
FindForChange(r) ==
    /\ At(r, "find") /\ Is(r, "changePassword")
    /\ IF request[r].arg = user.password
       THEN \E new \in Passwords \ {request[r].arg} : Go(r, "write", new)
       ELSE Answer(r)
    /\ UNCHANGED <<user, sessions, token, stormy>>

-----------------------------------------------------------------------------
(* One-time tokens.                                                         *)

\* findByEmail and findById: a verified user is sent no link.
FindForLink(r) ==
    /\ At(r, "find") /\ request[r].kind \in {"resend", "forgotPassword"}
    /\ IF Is(r, "resend") /\ user.isEmailVerified THEN Answer(r) ELSE Go(r, "store", None)
    /\ UNCHANGED <<user, sessions, token, stormy>>

\* Links of one kind only.
AlwaysReset(r) == "reset"

PurposeOf(r) == IF Is(r, "resend") THEN "verify" ELSE "reset"

Stored(r) == [state |-> "stored", purpose |-> PurposeOf(r), mailed |-> FALSE, consumed |-> FALSE]

\* AuthTokenCache.store, of a token nobody has seen.
StoreToken(r) ==
    /\ At(r, "store")
    /\ \E t \in Tokens :
         /\ Fresh(t)
         /\ token' = [token EXCEPT ![t] = Stored(r)]
         /\ Go(r, "mail", t)
    /\ UNCHANGED <<user, sessions, stormy>>

MailLink(r) ==
    /\ At(r, "mail")
    /\ token' = [token EXCEPT ![request[r].arg].mailed = TRUE]
    /\ Answer(r)
    /\ UNCHANGED <<user, sessions, stormy>>

\* AuthTokenCache.consume, first half.
GetToken(r) ==
    /\ At(r, "get")
    /\ IF \E t \in Tokens : t = request[r].arg /\ token[t].state = "stored"
       THEN Go(r, "del", request[r].arg)
       ELSE Answer(r)
    /\ UNCHANGED <<user, sessions, token, stormy>>

\* A consume that leaves the token to its TTL.
NotDeleted(t) == [token EXCEPT ![t].consumed = TRUE]

Deleted(t) == [token EXCEPT ![t].state = "gone", ![t].consumed = TRUE]

\* AuthTokenCache.consume, second half: the token was good, the update comes
\* next.  DEL of a key that is gone is no error.
DeleteToken(r) ==
    /\ At(r, "del")
    /\ token' = Deleted(request[r].arg)
    /\ IF Is(r, "verifyEmail") THEN Go(r, "write", None)
       ELSE \E p \in Passwords : Go(r, "write", p)
    /\ UNCHANGED <<user, sessions, stormy>>

\* The TTL of a key in Redis runs out.  After the storm, a mail and its reader
\* take less than the 24 hours of a verification token.
ExpireToken(t) ==
    /\ token[t].state = "stored"
    /\ stormy \/ token[t].purpose = "reset" \/ ~(token[t].mailed \/ Held(t))
    /\ token' = [token EXCEPT ![t].state = "gone"]
    /\ UNCHANGED <<user, sessions, request, stormy>>

-----------------------------------------------------------------------------
(* The update that ends a request, and the end of a session.                *)

\* A verification that writes what the request carries.
UpdatedAsGiven(r) ==
    CASE Is(r, "verifyEmail") -> [user EXCEPT !.isEmailVerified = request[r].arg]
      [] Is(r, "setUserActive") -> [user EXCEPT !.isActive = request[r].arg]
      [] Is(r, "updateUserPermissions") -> [user EXCEPT !.permissions = request[r].arg]
      [] OTHER -> [user EXCEPT !.password = request[r].arg]

\* userRepo.update sets the fields it is given.
Updated(r) ==
    CASE Is(r, "verifyEmail") -> [user EXCEPT !.isEmailVerified = TRUE]
      [] Is(r, "setUserActive") -> [user EXCEPT !.isActive = request[r].arg]
      [] Is(r, "updateUserPermissions") -> [user EXCEPT !.permissions = request[r].arg]
      [] OTHER -> [user EXCEPT !.password = request[r].arg]

WriteUser(r) ==
    /\ At(r, "write")
    /\ user' = Updated(r)
    /\ request' = Without(r, Updated(r))
    /\ UNCHANGED <<sessions, token, stormy>>

ExpireSession(p) ==
    /\ p \in sessions
    /\ sessions' = sessions \ {p}
    /\ UNCHANGED <<user, token, request, stormy>>

-----------------------------------------------------------------------------
(* What may go wrong.                                                       *)

\* The await throws, or the process ends: what was asked may have been done.
\* consume then answers null, the senders of links swallow the error, the
\* others pass it on: no request goes on.
Fails(r) ==
    /\ stormy /\ request[r] # None
    /\ \/ UNCHANGED user
       \/ At(r, "write") /\ user' = Updated(r)
    /\ \/ UNCHANGED token
       \/ At(r, "del") /\ token' = [token EXCEPT ![request[r].arg].state = "gone"]
       \/ At(r, "mail") /\ token' = [token EXCEPT ![request[r].arg].mailed = TRUE]
       \/ At(r, "store") /\ \E t \in Tokens : Fresh(t) /\ token' = [token EXCEPT ![t] = Stored(r)]
    /\ request' = Without(r, user')
    /\ UNCHANGED <<sessions, stormy>>

StormEnds ==
    /\ stormy /\ stormy' = FALSE
    /\ UNCHANGED <<user, sessions, token, request>>

-----------------------------------------------------------------------------
Proceed(r) ==
    \/ FindForLogin(r) \/ IssueSession(r) \/ FindForChange(r)
    \/ FindForLink(r) \/ StoreToken(r) \/ MailLink(r)
    \/ GetToken(r) \/ DeleteToken(r) \/ WriteUser(r)

Next ==
    \/ \E r \in Requests : Start(r) \/ Proceed(r) \/ Fails(r)
    \/ \E t \in Tokens : ExpireToken(t)
    \/ \E p \in sessions : ExpireSession(p)
    \/ StormEnds

\* Awaits settle and TTLs run out.  A user who is not verified keeps asking for
\* links and follows the newest one.
Fairness ==
    /\ \A r \in Requests : WF_vars(Proceed(r))
    /\ \A t \in Tokens : WF_vars(ExpireToken(t))
    /\ \A p \in Permissions : WF_vars(ExpireSession(p))
    /\ SF_vars(~user.isEmailVerified /\ \E r \in Requests : StartResend(r))
    /\ SF_vars(\E r \in Requests, t \in Tokens : token[t].state = "stored" /\ FollowLink(r, t))

Spec == Init /\ [][Next]_vars /\ Fairness

-----------------------------------------------------------------------------
(* Properties.                                                              *)

\* "so it can't be replayed" (authTokenCache.ts:12): a request that comes after
\* its token or its password was good never gets to write or to open a session,
\* whatever fails and whoever overlaps.
LateComersFail ==
    \A r \in Requests : request[r] # None /\ request[r].late =>
        request[r].pc \notin {"write", "issue"}

\* Sessions outlive what an administrator takes away, but not for ever: once
\* the account stays inactive every session ends, and once its permissions
\* stay what they are every session carries them.
SessionsFollowUser ==
    /\ <>[](~user.isActive) => <>[](sessions = {})
    /\ \A p \in Permissions : <>[](user.permissions = p) => <>[](sessions \subseteq {p})

\* A link may be lost on its way, expire, or be used up by a request that then
\* fails; a user who goes on asking is verified once the storm is over.
EventuallyVerified == ~stormy ~> user.isEmailVerified
=============================================================================
