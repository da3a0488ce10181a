-------------------------- MODULE UserAccount_proofs --------------------------
(***************************************************************************)
(* Proofs about UserAccount, for any number of requests, tokens, passwords *)
(* and failures: its types, and that a request that comes after its token  *)
(* or its password was good gets nowhere.                                  *)
(***************************************************************************)
EXTENDS UserAccount, TLAPS

\* Where a request may be, and what it holds there.
WellFormed(q) ==
    /\ q.kind = "login" => q.pc \in {"find", "issue"}
    /\ q.kind = "changePassword" => q.pc \in {"find", "write"}
    /\ q.kind \in {"verifyEmail", "resetPassword"} => q.pc \in {"get", "del", "write"}
    /\ q.kind \in {"resend", "forgotPassword"} => q.pc \in {"find", "store", "mail"}
    /\ q.kind = "setUserActive" => q.pc = "write" /\ q.arg \in BOOLEAN
    /\ q.kind = "updateUserPermissions" => q.pc = "write" /\ q.arg \in Permissions
    /\ q.kind \in {"changePassword", "resetPassword"} /\ q.pc = "write" => q.arg \in Passwords
    /\ q.pc \in {"del", "mail"} => q.arg \in Tokens
    /\ q.pc = "issue" => q.arg \in Permissions

\* Who is late is still before its first answer, with a password that is not
\* the one of u or with a token that Redis does not know.
StuckIfLate(q, u) ==
    q.late =>
        \/ /\ q.kind \in {"login", "changePassword"} /\ q.pc = "find"
           /\ q.arg # u.password
        \/ q.kind \in {"verifyEmail", "resetPassword"} /\ q.pc = "get" /\ q.arg = None

Good(q, u) == q \in Request /\ WellFormed(q) /\ StuckIfLate(q, u)

\* A token that was good for somebody is stored no more.
ConsumedIsGone(tokens) ==
    /\ tokens \in [Tokens -> Token]
    /\ \A t \in Tokens : tokens[t].consumed => tokens[t].state = "gone"

UInv ==
    /\ user \in User /\ sessions \subseteq Permissions /\ stormy \in BOOLEAN
    /\ ConsumedIsGone(token)
    /\ request \in [Requests -> Request \union {None}]
    /\ \A r \in Requests : request[r] # None => Good(request[r], user)

\* The parts of the invariant a step of one request is about.
LEMMA StepKeepsUInv ==
  ASSUME UInv, user' \in User, sessions' \subseteq Permissions, stormy' \in BOOLEAN,
         ConsumedIsGone(token'), NEW r \in Requests, NEW new, new = None \/ Good(new, user'),
         \/ request' = [request EXCEPT ![r] = new] /\ user'.password = user.password
         \/ request' = request /\ user'.password = user.password
         \/ new = None /\ request' = Without(r, user')
  PROVE  UInv'
<1>1. ASSUME NEW q \in Requests
      PROVE  request'[q] = None \/ Good(request'[q], user')
  <2>1. request \in [Requests -> Request \union {None}]
    BY DEF UInv
  <2>2. request[q] = None \/ Good(request[q], user)
    BY DEF UInv
  <2>3. user'.password = user.password /\ Good(request[q], user) => Good(request[q], user')
    BY DEF Good, StuckIfLate
  <2>4. CASE request' = [request EXCEPT ![r] = new] /\ user'.password = user.password
    BY <2>1, <2>2, <2>3, <2>4
  <2>5. CASE request' = request /\ user'.password = user.password
    BY <2>2, <2>3, <2>5
  <2>6. CASE request' = Without(r, user')
    <3>1. request'[q] = IF q = r THEN None
                        ELSE IF /\ request[q] # None
                                /\ request[q].kind \in {"login", "changePassword"}
                                /\ user'.password # user.password
                        THEN [request[q] EXCEPT !.late = FALSE]
                        ELSE request[q]
      BY <2>6 DEF Without
    <3>2. CASE request'[q] = None
      BY <3>2
    <3>3. CASE request'[q] = request[q] /\ request[q] # None
      <4>1. user'.password = user.password \/ request[q].kind \notin {"login", "changePassword"}
            \/ ~request[q].late
        BY <2>2, <3>1, <3>3 DEF Good, Request
      <4> QED
        BY <2>2, <3>3, <4>1 DEF Good, StuckIfLate
    <3>4. CASE request'[q] = [request[q] EXCEPT !.late = FALSE] /\ request[q] # None
      BY <2>2, <3>4 DEF Good, Request, WellFormed, StuckIfLate
    <3> QED
      BY <3>1, <3>2, <3>3, <3>4
  <2> QED
    BY <2>4, <2>5, <2>6
<1>2. request' = [q \in Requests |-> request'[q]]
  BY DEF UInv, Without
<1>3. request' \in [Requests -> Request \union {None}]
  <2>1. \A q \in Requests : request'[q] \in Request \union {None}
    BY <1>1 DEF Good
  <2> QED
    BY <1>2, <2>1
<1> QED
  BY <1>1, <1>3 DEF UInv

\* A request that goes on to its next await.
LEMMA GoKeepsUInv ==
  ASSUME UInv, user' = user, sessions' \subseteq Permissions, stormy' \in BOOLEAN,
         ConsumedIsGone(token'), NEW r \in Requests, request[r] # None,
         NEW pc \in {"find", "get", "del", "store", "mail", "write", "issue"}, NEW arg \in Arg,
         Go(r, pc, arg),
         WellFormed([request[r] EXCEPT !.pc = pc, !.arg = arg]),
         StuckIfLate([request[r] EXCEPT !.pc = pc, !.arg = arg], user)
  PROVE  UInv'
<1> DEFINE new == [request[r] EXCEPT !.pc = pc, !.arg = arg]
<1>1. request \in [Requests -> Request \union {None}] /\ request[r] \in Request
  BY DEF UInv, Good
<1>2. new \in Request
  BY <1>1 DEF Request
<1>3. Good(new, user')
  BY <1>2 DEF Good
<1>4. request' = [request EXCEPT ![r] = new]
  BY <1>1 DEF Go
<1>5. user' \in User /\ user'.password = user.password
  BY DEF UInv
<1> HIDE DEF new
<1> QED
  BY <1>3, <1>4, <1>5, StepKeepsUInv

\* A request that is answered, and has changed nothing but sessions or tokens.
LEMMA AnswerKeepsUInv ==
  ASSUME UInv, user' = user, sessions' \subseteq Permissions, stormy' \in BOOLEAN,
         ConsumedIsGone(token'), NEW r \in Requests, Answer(r)
  PROVE  UInv'
<1>1. user' \in User /\ user'.password = user.password
  BY DEF UInv
<1> QED
  BY <1>1, StepKeepsUInv DEF Answer

\* A step that leaves the requests and the user alone.
LEMMA AsideKeepsUInv ==
  ASSUME UInv, user' = user, sessions' \subseteq Permissions, stormy' \in BOOLEAN,
         ConsumedIsGone(token'), request' = request
  PROVE  UInv'
  BY DEF UInv

\* A request that begins.
LEMMA BeginKeepsUInv ==
  ASSUME UInv, NEW r \in Requests, NEW kind \in Kind,
         NEW pc \in {"find", "get", "del", "store", "mail", "write", "issue"},
         NEW arg \in Arg, NEW late \in BOOLEAN, Begin(r, kind, pc, arg, late),
         WellFormed([kind |-> kind, pc |-> pc, arg |-> arg, late |-> late]),
         StuckIfLate([kind |-> kind, pc |-> pc, arg |-> arg, late |-> late], user)
  PROVE  UInv'
<1> DEFINE new == [kind |-> kind, pc |-> pc, arg |-> arg, late |-> late]
<1>1. new \in Request
  BY DEF Request
<1>2. /\ user' = user /\ user' \in User /\ sessions' \subseteq Permissions
      /\ stormy' \in BOOLEAN /\ ConsumedIsGone(token')
      /\ request' = [request EXCEPT ![r] = new]
  BY DEF Begin, UInv
<1>3. Good(new, user')
  BY <1>1, <1>2 DEF Good
<1> HIDE DEF new
<1> QED
  BY <1>2, <1>3, StepKeepsUInv

-----------------------------------------------------------------------------
(* One lemma for each group of actions.                                     *)

\* Requests begin well.
LEMMA StartKeepsUInv == ASSUME UInv, NEW r \in Requests, Start(r) PROVE UInv'
<1> USE DEF WellFormed, StuckIfLate, Arg, Kind
<1>1. CASE StartLogin(r)
  <2>1. PICK p \in Passwords : Begin(r, "login", "find", p, p # user.password)
    BY <1>1 DEF StartLogin
  <2> QED
    BY <2>1, BeginKeepsUInv
<1>2. CASE StartForgotPassword(r)
  BY <1>2, BeginKeepsUInv DEF StartForgotPassword
<1>3. CASE StartResend(r)
  BY <1>3, BeginKeepsUInv DEF StartResend
<1>4. CASE StartChangePassword(r)
  <2>1. PICK p \in Passwords : Begin(r, "changePassword", "find", p, p # user.password)
    BY <1>4 DEF StartChangePassword
  <2> QED
    BY <2>1, BeginKeepsUInv
<1>5. ASSUME NEW t \in Tokens, NEW kind \in {"verifyEmail", "resetPassword"},
             NEW purpose, Present(r, t, kind, purpose)
      PROVE  UInv'
  <2>1. PICK arg \in {t, None} :
          /\ Begin(r, kind, "get", arg, token[t].consumed)
          /\ token[t].state # "stored" => arg = None
    BY <1>5 DEF Present
  <2>2. /\ token[t].consumed \in BOOLEAN
        /\ token[t].consumed => arg = None
    BY <2>1 DEF UInv, ConsumedIsGone, Token
  <2> QED
    BY <2>1, <2>2, BeginKeepsUInv
<1>6. CASE StartVerifyEmail(r)
  BY <1>5, <1>6 DEF StartVerifyEmail, FollowLink
<1>7. CASE StartResetPassword(r)
  BY <1>5, <1>7 DEF StartResetPassword
<1>8. CASE StartSetUserActive(r)
  <2>1. PICK b \in BOOLEAN : Begin(r, "setUserActive", "write", b, FALSE)
    BY <1>8 DEF StartSetUserActive
  <2> QED
    BY <2>1, BeginKeepsUInv
<1>9. CASE StartUpdatePermissions(r)
  <2>1. PICK p \in Permissions : Begin(r, "updateUserPermissions", "write", p, FALSE)
    BY <1>9 DEF StartUpdatePermissions
  <2> QED
    BY <2>1, BeginKeepsUInv
<1> QED
  BY <1>1, <1>2, <1>3, <1>4, <1>6, <1>7, <1>8, <1>9 DEF Start

\* Reading the user, or asking Redis, keeps the invariant.
LEMMA ReadKeepsUInv ==
  ASSUME UInv, NEW r \in Requests,
         FindForLogin(r) \/ FindForChange(r) \/ FindForLink(r) \/ GetToken(r)
  PROVE  UInv'
<1> USE DEF At, Is, Arg
<1>1. /\ user' = user /\ sessions' = sessions /\ token' = token /\ stormy' = stormy
      /\ sessions' \subseteq Permissions /\ stormy' \in BOOLEAN /\ ConsumedIsGone(token')
  BY DEF UInv, FindForLogin, FindForChange, FindForLink, GetToken
<1>2. CASE Answer(r)
  BY <1>1, <1>2, AnswerKeepsUInv
<1>3. request[r] # None /\ request[r] \in Request /\ Good(request[r], user) /\ user \in User
  BY DEF UInv, Good, FindForLogin, FindForChange, FindForLink, GetToken
<1>4. ASSUME NEW pc \in {"find", "get", "del", "store", "mail", "write", "issue"},
             NEW arg \in Arg, Go(r, pc, arg),
             WellFormed([request[r] EXCEPT !.pc = pc, !.arg = arg]), ~request[r].late
      PROVE  UInv'
  <2>1. StuckIfLate([request[r] EXCEPT !.pc = pc, !.arg = arg], user)
    BY <1>3, <1>4 DEF StuckIfLate, Request
  <2> QED
    BY <1>1, <1>3, <1>4, <2>1, GoKeepsUInv
<1>5. CASE FindForLogin(r) /\ ~Answer(r)
  <2>1. MayLogIn(request[r].arg) /\ Go(r, "issue", user.permissions)
    BY <1>5 DEF FindForLogin
  <2>2. ~request[r].late /\ user.permissions \in Permissions
    BY <1>3, <1>5, <2>1 DEF FindForLogin, MayLogIn, Good, StuckIfLate, User
  <2>3. WellFormed([request[r] EXCEPT !.pc = "issue", !.arg = user.permissions])
    BY <1>3, <1>5, <2>2 DEF FindForLogin, WellFormed, Request
  <2> QED
    BY <1>4, <2>1, <2>2, <2>3
<1>6. CASE FindForChange(r) /\ ~Answer(r)
  <2>1. PICK new \in Passwords : Go(r, "write", new) /\ request[r].arg = user.password
    BY <1>6 DEF FindForChange
  <2>2. ~request[r].late
    BY <1>3, <1>6, <2>1 DEF FindForChange, Good, StuckIfLate
  <2>3. WellFormed([request[r] EXCEPT !.pc = "write", !.arg = new])
    BY <1>3, <1>6 DEF FindForChange, WellFormed, Request
  <2> QED
    BY <1>4, <2>1, <2>2, <2>3
<1>7. CASE FindForLink(r) /\ ~Answer(r)
  <2>1. Go(r, "store", None)
    BY <1>7 DEF FindForLink
  <2>2. ~request[r].late
    BY <1>3, <1>7 DEF FindForLink, Good, StuckIfLate
  <2>3. WellFormed([request[r] EXCEPT !.pc = "store", !.arg = None])
    BY <1>3, <1>7 DEF FindForLink, WellFormed, Request
  <2> QED
    BY <1>4, <2>1, <2>2, <2>3
<1>8. CASE GetToken(r) /\ ~Answer(r)
  <2>1. Go(r, "del", request[r].arg) /\ request[r].arg \in Tokens
    BY <1>8 DEF GetToken
  <2>2. ~request[r].late
    BY <1>3, <1>8, <2>1, UserAccountAssumption DEF GetToken, Good, StuckIfLate
  <2>3. request[r].kind \in {"verifyEmail", "resetPassword"}
    BY <1>3, <1>8 DEF GetToken, Good, WellFormed, Request, Kind
  <2>4. WellFormed([request[r] EXCEPT !.pc = "del", !.arg = request[r].arg])
    BY <1>3, <2>1, <2>3 DEF WellFormed, Request
  <2> QED
    BY <1>4, <2>1, <2>2, <2>4
<1> QED
  BY <1>2, <1>5, <1>6, <1>7, <1>8

\* What a request may do to the tokens.
LEMMA TokensStayConsumed ==
  ASSUME ConsumedIsGone(token), NEW t \in Tokens, NEW r \in Requests
  PROVE  /\ ConsumedIsGone([token EXCEPT ![t] = Stored(r)])
         /\ ConsumedIsGone([token EXCEPT ![t].mailed = TRUE])
         /\ ConsumedIsGone([token EXCEPT ![t].state = "gone"])
         /\ ConsumedIsGone(Deleted(t))
<1>1. token \in [Tokens -> Token] /\ token[t] \in Token
  BY DEF ConsumedIsGone
<1>2. Stored(r) \in Token /\ ~Stored(r).consumed
  BY DEF Stored, PurposeOf, Token, Purpose
<1>3. ConsumedIsGone([token EXCEPT ![t] = Stored(r)])
  BY <1>1, <1>2 DEF ConsumedIsGone
<1>4. ConsumedIsGone([token EXCEPT ![t].mailed = TRUE])
  BY <1>1 DEF ConsumedIsGone, Token
<1>5. ConsumedIsGone([token EXCEPT ![t].state = "gone"])
  BY <1>1 DEF ConsumedIsGone, Token
<1>6. ConsumedIsGone(Deleted(t))
  BY <1>1 DEF ConsumedIsGone, Token, Deleted
<1> QED
  BY <1>3, <1>4, <1>5, <1>6

\* The user a request leaves behind is a user.
LEMMA UpdatedTyped ==
  ASSUME UInv, NEW r \in Requests, At(r, "write")
  PROVE  Updated(r) \in User
<1>1. Good(request[r], user) /\ request[r].pc = "write" /\ user \in User
  BY DEF UInv, At
<1>2. request[r].kind \in {"changePassword", "verifyEmail", "resetPassword",
                           "setUserActive", "updateUserPermissions"}
  BY <1>1 DEF Good, Request, Kind, WellFormed
<1>3. CASE request[r].kind = "verifyEmail"
  BY <1>1, <1>3 DEF Updated, Is, User
<1>4. CASE request[r].kind = "setUserActive"
  BY <1>1, <1>4 DEF Updated, Is, User, Good, WellFormed
<1>5. CASE request[r].kind = "updateUserPermissions"
  BY <1>1, <1>5 DEF Updated, Is, User, Good, WellFormed
<1>6. CASE request[r].kind \in {"changePassword", "resetPassword"}
  BY <1>1, <1>6 DEF Updated, Is, User, Good, WellFormed
<1> QED
  BY <1>2, <1>3, <1>4, <1>5, <1>6

\* Whatever a request writes, in time, keeps the invariant.
LEMMA WriteKeepsUInv ==
  ASSUME UInv, NEW r \in Requests,
         IssueSession(r) \/ StoreToken(r) \/ MailLink(r) \/ DeleteToken(r) \/ WriteUser(r)
  PROVE  UInv'
<1> USE DEF At, Is, Arg
<1>1. /\ request[r] # None /\ Good(request[r], user) /\ user \in User
      /\ stormy' = stormy /\ stormy' \in BOOLEAN /\ ConsumedIsGone(token)
      /\ sessions \subseteq Permissions
  BY DEF UInv, IssueSession, StoreToken, MailLink, DeleteToken, WriteUser
<1>2. CASE IssueSession(r)
  <2>1. sessions' \subseteq Permissions
    BY <1>1, <1>2 DEF IssueSession, Good, WellFormed
  <2> QED
    BY <1>1, <1>2, <2>1, AnswerKeepsUInv DEF IssueSession
<1>3. CASE StoreToken(r)
  <2>1. PICK t \in Tokens : token' = [token EXCEPT ![t] = Stored(r)] /\ Go(r, "mail", t)
    BY <1>3 DEF StoreToken
  <2>2. ~request[r].late /\ request[r].kind \in {"resend", "forgotPassword"}
    BY <1>1, <1>3 DEF StoreToken, Good, WellFormed, StuckIfLate, Request, Kind
  <2>3. WellFormed([request[r] EXCEPT !.pc = "mail", !.arg = t])
    BY <1>1, <2>2 DEF WellFormed, Good, Request
  <2>4. StuckIfLate([request[r] EXCEPT !.pc = "mail", !.arg = t], user)
    BY <1>1, <2>2 DEF StuckIfLate, Good, Request
  <2>5. ConsumedIsGone(token')
    BY <1>1, <2>1, TokensStayConsumed
  <2> QED
    BY <1>1, <1>3, <2>1, <2>3, <2>4, <2>5, GoKeepsUInv DEF StoreToken
<1>4. CASE MailLink(r)
  <2>1. ConsumedIsGone(token')
    BY <1>1, <1>4, TokensStayConsumed DEF MailLink, Good, WellFormed
  <2> QED
    BY <1>1, <1>4, <2>1, AnswerKeepsUInv DEF MailLink
<1>5. CASE DeleteToken(r)
  <2>1. PICK arg \in Passwords \union {None} :
          /\ Go(r, "write", arg)
          /\ request[r].kind # "verifyEmail" => arg \in Passwords
    BY <1>5 DEF DeleteToken
  <2>2. ~request[r].late /\ request[r].kind \in {"verifyEmail", "resetPassword"}
    BY <1>1, <1>5 DEF DeleteToken, Good, WellFormed, StuckIfLate, Request, Kind
  <2>3. WellFormed([request[r] EXCEPT !.pc = "write", !.arg = arg])
    BY <1>1, <2>1, <2>2 DEF WellFormed, Good, Request
  <2>4. StuckIfLate([request[r] EXCEPT !.pc = "write", !.arg = arg], user)
    BY <1>1, <2>2 DEF StuckIfLate, Good, Request
  <2>5. ConsumedIsGone(token')
    BY <1>1, <1>5, TokensStayConsumed DEF DeleteToken, Good, WellFormed
  <2> QED
    BY <1>1, <1>5, <2>1, <2>3, <2>4, <2>5, GoKeepsUInv DEF DeleteToken
<1>6. CASE WriteUser(r)
  <2>1. user' \in User
    BY <1>6, UpdatedTyped DEF WriteUser
  <2>2. request' = Without(r, user')
    BY <1>6 DEF WriteUser
  <2> QED
    BY <1>1, <1>6, <2>1, <2>2, StepKeepsUInv DEF WriteUser
<1> QED
  BY <1>2, <1>3, <1>4, <1>5, <1>6

\* A request that fails keeps the invariant.
LEMMA FailsKeepsUInv == ASSUME UInv, NEW r \in Requests, Fails(r) PROVE UInv'
<1>1. /\ Good(request[r], user) /\ user \in User /\ stormy' \in BOOLEAN
      /\ sessions' \subseteq Permissions /\ ConsumedIsGone(token)
  BY DEF Fails, UInv
<1>2. user' \in User
  BY <1>1, UpdatedTyped DEF Fails
<1>3. ConsumedIsGone(token')
  BY <1>1, TokensStayConsumed DEF Fails, At, Good, WellFormed
<1>4. request' = Without(r, user')
  BY DEF Fails
<1> QED
  BY <1>1, <1>2, <1>3, <1>4, StepKeepsUInv

-----------------------------------------------------------------------------
(* The theorems.                                                            *)

\* The invariant holds initially.
LEMMA UInvInit == Init => UInv
<1> SUFFICES ASSUME Init PROVE UInv
  OBVIOUS
<1>1. NoToken \in Token /\ ~NoToken.consumed
  BY DEF NoToken, Token, Purpose
<1>2. ConsumedIsGone(token)
  BY <1>1 DEF Init, ConsumedIsGone
<1>3. user \in User
  BY DEF Init, User
<1> QED
  BY <1>2, <1>3, UserAccountAssumption DEF Init, UInv

\* Every step keeps it.
LEMMA UInvStep == ASSUME UInv, [Next]_vars PROVE UInv'
<1>1. ASSUME NEW r \in Requests, Start(r) PROVE UInv'
  BY <1>1, StartKeepsUInv
<1>2. ASSUME NEW r \in Requests, Proceed(r) PROVE UInv'
  BY <1>2, ReadKeepsUInv, WriteKeepsUInv DEF Proceed
<1>3. ASSUME NEW r \in Requests, Fails(r) PROVE UInv'
  BY <1>3, FailsKeepsUInv
<1>4. ASSUME NEW t \in Tokens, ExpireToken(t) PROVE UInv'
  <2>1. ConsumedIsGone([token EXCEPT ![t].state = "gone"])
    <3>1. token \in [Tokens -> Token]
      BY DEF UInv, ConsumedIsGone
    <3> QED
      BY <3>1 DEF UInv, ConsumedIsGone, Token
  <2> QED
    BY <1>4, <2>1, AsideKeepsUInv DEF ExpireToken, UInv
<1>5. ASSUME NEW p \in sessions, ExpireSession(p) PROVE UInv'
  BY <1>5, AsideKeepsUInv DEF ExpireSession, UInv
<1>6. CASE StormEnds
  BY <1>6, AsideKeepsUInv DEF StormEnds, UInv
<1>7. CASE UNCHANGED vars
  BY <1>7, AsideKeepsUInv DEF vars, UInv
<1> QED
  BY <1>1, <1>2, <1>3, <1>4, <1>5, <1>6, <1>7 DEF Next

\* UInv is an invariant.
LEMMA UInvAlways == Spec => []UInv
  BY UInvInit, UInvStep, PTL DEF Spec

\* The types of the user, the sessions, the tokens and the requests.
THEOREM UserAccountTypeCorrect == Spec => []TypeOK
<1>1. UInv => TypeOK
  BY DEF UInv, TypeOK, ConsumedIsGone, Good, WellFormed
<1> QED
  BY <1>1, UInvAlways, PTL

\* authTokenCache.ts:12: a request that comes after its token or its password was
\* good never gets to write or to open a session.
THEOREM UserAccountLateComersFail == Spec => []LateComersFail
<1>1. UInv => LateComersFail
  BY DEF UInv, LateComersFail, Good, StuckIfLate
<1> QED
  BY <1>1, UInvAlways, PTL
=============================================================================
