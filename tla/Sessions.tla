------------------------------ MODULE Sessions ------------------------------
(***************************************************************************)
(* Logins, refresh tokens and the lock of an account: AuthService and the   *)
(* account operations of UsersService (src/modules/iam).  As elsewhere an   *)
(* action is what a handler does between two awaits.                        *)
(*                                                                         *)
(* A password is the number of resets before it was set.  A session is the  *)
(* chain of refresh tokens that starts with a login; it is named after its  *)
(* first token.  The status of an account is ACTIVE or SUSPENDED, which     *)
(* stands for every status other than ACTIVE; None is a deleted account.    *)
(* Access tokens are left out: they are not stored, and the guard that      *)
(* accepts them reads the account again.                                    *)
(***************************************************************************)
EXTENDS Naturals, FiniteSets

CONSTANTS
  Handlers,     \* handlers that may be in flight at the same time
  Users,        \* accounts
  Tokens,       \* identifiers of RefreshToken rows (bound)
  MaxFailedLoginAttempts,  \* config.auth.maxFailedLoginAttempts
  MaxFailures,  \* bound: failed logins counted or answered between two resets
  MaxResets,    \* bound: password resets
  None,
  Failures      \* whether awaits may throw

ASSUME ThresholdAssumption == MaxFailedLoginAttempts \in Nat \ {0}
ASSUME SessionBounds == MaxFailures \in Nat /\ MaxResets \in Nat
ASSUME TokensAssumption == IsFiniteSet(Tokens) /\ IsFiniteSet(Handlers)
ASSUME NoUserAssumption == None \notin Users \cup Tokens
ASSUME SessionFlags == Failures \in BOOLEAN

VARIABLES
  account,   \* User.status
  password,  \* User.passwordHash
  failed,    \* User.failedLoginAttempts
  lock,      \* User.lockedUntil: "none", "active" or "past"
  token,     \* RefreshToken rows
  answered,  \* history: wrong passwords answered since failed was last zeroed
  loggedOut, \* history: sessions whose valid token was given to logout while
             \* no refresh of them was in flight
  forked,    \* history: sessions of which one token was refreshed twice at once
  handler

userVars == <<account, password, failed, lock, answered>>
history == <<loggedOut, forked>>
sessionVars == <<userVars, token, history, handler>>

NoToken == [state |-> "unused", owner |-> None, session |-> None, pwd |-> 0, spared |-> FALSE]

TokenRows ==
  [ state : {"unused", "valid", "expired", "revoked"}, owner : Users \cup {None},
    session : Tokens \cup {None}, pwd : Nat, spared : BOOLEAN ]

IdleHandler ==
  [ pc |-> "idle", user |-> None, token |-> None, session |-> None, pwd |-> 0,
    spared |-> FALSE ]

\* spared is history: a password reset of the user went by in mid-flight.
HandlerStates ==
  [ pc : {"idle", "failWrite", "lockWrite", "successWrite", "refreshUser", "rotate", "issue"},
    user : Users \cup {None}, token : Tokens \cup {None}, session : Tokens \cup {None},
    pwd : Nat, spared : BOOLEAN ]

At(p, place) == handler[p].pc = place
Become(p, state) == handler' = [handler EXCEPT ![p] = state]
Goto(p, place) == Become(p, [handler[p] EXCEPT !.pc = place])
Return(p) == Become(p, IdleHandler)

User(p) == handler[p].user
Exists(u) == account[u] # None
\* A refresh of this token, or of this session, is in flight.
InUse(t) == \E q \in Handlers : handler[q].token = t
Refreshed(s) == \E q \in Handlers : handler[q].session = s

\* Enough identifiers are left for every token that may be on its way.
RoomForToken ==
  Cardinality({t \in Tokens : token[t].state = "unused"})
    > Cardinality({q \in Handlers : ~At(q, "idle")})

-----------------------------------------------------------------------------
(* login                                                                   *)

\* findByEmail and what follows from that one read: the lock, the password,
\* the status.  A wrong password is counted even for an inactive account.
LoginFind(p, u, pwd) ==
  /\ At(p, "idle") /\ RoomForToken
  /\ Exists(u) /\ lock[u] # "active"
  /\ \/ pwd # password[u] /\ failed[u] < MaxFailures /\ answered[u] < MaxFailures
     \/ pwd = password[u] /\ account[u] = "ACTIVE"
  /\ Become(p, [IdleHandler EXCEPT !.user = u, !.pwd = pwd,
                  !.pc = IF pwd = password[u] THEN "successWrite" ELSE "failWrite"])
  /\ UNCHANGED <<userVars, token, history>>

\* Answer INVALID_CREDENTIALS.
Refuse(p) ==
  /\ answered' = [answered EXCEPT ![User(p)] = @ + 1]
  /\ Return(p)

\* Plausible bug: the account is locked one failure too late.
FailIncrement_OffByOne(p) ==
  /\ At(p, "failWrite") /\ Exists(User(p))
  /\ failed' = [failed EXCEPT ![User(p)] = @ + 1]
  /\ IF failed'[User(p)] <= MaxFailedLoginAttempts
     THEN Refuse(p)
     ELSE Goto(p, "lockWrite") /\ UNCHANGED answered
  /\ UNCHANGED <<account, password, lock, token, history>>

\* recordFailedLogin: an atomic increment that returns the new value.
FailIncrement(p) ==
  /\ At(p, "failWrite") /\ Exists(User(p))
  /\ failed' = [failed EXCEPT ![User(p)] = @ + 1]
  /\ IF failed'[User(p)] < MaxFailedLoginAttempts
     THEN Refuse(p)
     ELSE Goto(p, "lockWrite") /\ UNCHANGED answered
  /\ UNCHANGED <<account, password, lock, token, history>>

FailLock(p) ==
  /\ At(p, "lockWrite") /\ Exists(User(p))
  /\ lock' = [lock EXCEPT ![User(p)] = "active"]
  /\ Refuse(p)
  /\ UNCHANGED <<account, password, failed, token, history>>

\* failedLoginAttempts: 0, lockedUntil: null.
ClearFailures(u) ==
  /\ failed' = [failed EXCEPT ![u] = 0]
  /\ lock' = [lock EXCEPT ![u] = "none"]
  /\ answered' = [answered EXCEPT ![u] = 0]

\* recordSuccessfulLogin.
SuccessWrite(p) ==
  /\ At(p, "successWrite") /\ Exists(User(p))
  /\ ClearFailures(User(p))
  /\ Goto(p, "issue")
  /\ UNCHANGED <<account, password, token, history>>

\* issueTokens: a new row, which continues the session of the token refreshed
\* or starts one.  The status of the account is not looked at again.
Issue(p) ==
  /\ At(p, "issue") /\ Exists(User(p))
  /\ \E t \in Tokens :
       /\ token[t].state = "unused"
       /\ token' = [token EXCEPT ![t] =
            [ state |-> "valid", owner |-> User(p), pwd |-> handler[p].pwd,
              spared |-> handler[p].spared,
              session |-> IF handler[p].session = None THEN t ELSE handler[p].session ]]
  /\ Return(p)
  /\ UNCHANGED <<userVars, history>>

-----------------------------------------------------------------------------
(* refresh and logout                                                      *)

\* Plausible bug: a revoked token is not refused.
RefreshFind_RevokedAccepted(p, t) ==
  /\ At(p, "idle") /\ RoomForToken
  /\ token[t].state \in {"valid", "revoked"}
  /\ Become(p, [pc |-> "refreshUser", user |-> token[t].owner, token |-> t,
                session |-> token[t].session, pwd |-> token[t].pwd,
                spared |-> token[t].spared])
  /\ forked' = IF InUse(t) THEN forked \cup {token[t].session} ELSE forked
  /\ UNCHANGED <<userVars, token, loggedOut>>

RefreshFind(p, t) ==
  /\ At(p, "idle") /\ RoomForToken
  /\ token[t].state = "valid"
  /\ Become(p, [pc |-> "refreshUser", user |-> token[t].owner, token |-> t,
                session |-> token[t].session, pwd |-> token[t].pwd,
                spared |-> token[t].spared])
  /\ forked' = IF InUse(t) THEN forked \cup {token[t].session} ELSE forked
  /\ UNCHANGED <<userVars, token, loggedOut>>

RefreshUser(p) ==
  /\ At(p, "refreshUser")
  /\ IF account[User(p)] = "ACTIVE" THEN Goto(p, "rotate") ELSE Return(p)
  /\ UNCHANGED <<userVars, token, history>>

\* Plausible bug: the token that was exchanged stays valid.
Rotate_NotRevoked(p) ==
  /\ At(p, "rotate") /\ Exists(User(p))
  /\ Goto(p, "issue")
  /\ UNCHANGED <<userVars, token, history>>

\* The row is revoked by id, whether or not it still was valid.
Rotate(p) ==
  /\ At(p, "rotate") /\ Exists(User(p))
  /\ token' = [token EXCEPT ![handler[p].token].state = "revoked"]
  /\ Goto(p, "issue")
  /\ UNCHANGED <<userVars, history>>

\* logout: one conditional update; a token it does not know is no error.
Logout(t) ==
  /\ token[t].state # "unused"
  /\ token' = [token EXCEPT ![t].state = "revoked"]
  /\ loggedOut' = IF token[t].state = "valid" /\ ~Refreshed(token[t].session)
                  THEN loggedOut \cup {token[t].session} ELSE loggedOut
  /\ UNCHANGED <<userVars, forked, handler>>

-----------------------------------------------------------------------------
(* Administration of accounts                                              *)

\* updateStatus: a reactivation also lifts the lock.
UpdateStatus(u, status) ==
  /\ Exists(u)
  /\ account' = [account EXCEPT ![u] = status]
  /\ IF status = "ACTIVE" THEN ClearFailures(u) ELSE UNCHANGED <<failed, lock, answered>>
  /\ UNCHANGED <<password, token, history, handler>>

RevokeAll(u) ==
  token' = [t \in Tokens |-> IF token[t].owner = u THEN [token[t] EXCEPT !.state = "revoked"]
                             ELSE token[t]]

Spare(u) ==
  handler' = [q \in Handlers |-> IF User(q) = u THEN [handler[q] EXCEPT !.spared = TRUE]
                                 ELSE handler[q]]

\* Plausible bug: the sessions are left alone.
ResetPassword_KeepSessions(u) ==
  /\ Exists(u) /\ password[u] < MaxResets
  /\ password' = [password EXCEPT ![u] = @ + 1]
  /\ ClearFailures(u)
  /\ Spare(u)
  /\ UNCHANGED <<account, token, history>>

\* The transaction of resetPassword.
ResetPassword(u) ==
  /\ Exists(u) /\ password[u] < MaxResets
  /\ password' = [password EXCEPT ![u] = @ + 1]
  /\ ClearFailures(u)
  /\ RevokeAll(u)
  /\ Spare(u)
  /\ UNCHANGED <<account, history>>

\* Plausible bug: tokens do not go with their account.
DeleteStaffUser_NoCascade(u) ==
  /\ Exists(u)
  /\ account' = [account EXCEPT ![u] = None]
  /\ UNCHANGED <<password, failed, lock, answered, token, history, handler>>

\* The tokens go with the account (onDelete: Cascade): no call finds them any
\* more, as if they were revoked.  An account with history is kept.
DeleteStaffUser(u) ==
  /\ Exists(u)
  /\ account' = [account EXCEPT ![u] = None]
  /\ RevokeAll(u)
  /\ UNCHANGED <<password, failed, lock, answered, history, handler>>

-----------------------------------------------------------------------------
(* Time and failures                                                       *)

LockPasses(u) ==
  /\ lock[u] = "active"
  /\ lock' = [lock EXCEPT ![u] = "past"]
  /\ UNCHANGED <<account, password, failed, answered, token, history, handler>>

TokenExpires(t) ==
  /\ token[t].state = "valid"
  /\ token' = [token EXCEPT ![t].state = "expired"]
  /\ UNCHANGED <<userVars, history, handler>>

\* An await throws: a failure of the database, or a write for an account that
\* was deleted in the meantime.
Abort(p) ==
  /\ ~At(p, "idle")
  /\ Failures \/ ~Exists(User(p))
  /\ Return(p)
  /\ UNCHANGED <<userVars, token, history>>

-----------------------------------------------------------------------------
Init ==
  /\ account = [u \in Users |-> "ACTIVE"]
  /\ password = [u \in Users |-> 0]
  /\ failed = [u \in Users |-> 0]
  /\ lock = [u \in Users |-> "none"]
  /\ token = [t \in Tokens |-> NoToken]
  /\ answered = [u \in Users |-> 0]
  /\ loggedOut = {} /\ forked = {}
  /\ handler = [p \in Handlers |-> IdleHandler]

Continues(p) ==
  \/ FailIncrement(p) \/ FailLock(p) \/ SuccessWrite(p) \/ Issue(p)
  \/ RefreshUser(p) \/ Rotate(p)

\* What the portal may call (auth) and what an administrator may (users).
AuthCalls ==
  \/ \E p \in Handlers, u \in Users, pwd \in 0..MaxResets : LoginFind(p, u, pwd)
  \/ \E p \in Handlers, t \in Tokens : RefreshFind(p, t)
  \/ \E t \in Tokens : Logout(t)

AdminCalls ==
  \E u \in Users :
    \/ \E status \in {"ACTIVE", "SUSPENDED"} : UpdateStatus(u, status)
    \/ ResetPassword(u)
    \/ DeleteStaffUser(u)

Next ==
  \/ AuthCalls
  \/ AdminCalls
  \/ \E p \in Handlers : Continues(p) \/ Abort(p)
  \/ \E t \in Tokens : TokenExpires(t)
  \/ \E u \in Users : LockPasses(u)

Spec == Init /\ [][Next]_sessionVars

-----------------------------------------------------------------------------
(* Properties.                                                             *)

Valid(t) == token[t].state = "valid"

\* Every variable has its type, and a valid token belongs to an account that
\* exists.
TypeOK ==
  /\ account \in [Users -> {"ACTIVE", "SUSPENDED", None}]
  /\ password \in [Users -> Nat]
  /\ failed \in [Users -> Nat]
  /\ lock \in [Users -> {"none", "active", "past"}]
  /\ token \in [Tokens -> TokenRows]
  /\ answered \in [Users -> Nat]
  /\ loggedOut \subseteq Tokens /\ forked \subseteq Tokens
  /\ handler \in [Handlers -> HandlerStates]
  /\ \A t \in Tokens : Valid(t) => account[token[t].owner] \in {"ACTIVE", "SUSPENDED"}

\* Rotation: a session has at most one valid refresh token, through failures
\* between the revocation of one and the issue of the next, and whatever other
\* calls overlap.  Only a session of which one token was given to two refreshes
\* at once may have more: both find the token valid and both issue.
OneTokenPerSession ==
  \A s, t \in Tokens :
    /\ Valid(s) /\ Valid(t) /\ token[s].session = token[t].session
    /\ token[t].session \notin forked
    => s = t

\* A session that was logged out never gets a valid token again, whatever
\* replays its tokens.  A logout that meets a refresh of the session in flight
\* does not end it (the refresh issues the next token), nor does the logout of
\* one branch of a forked session; any other logout does.
LogoutEndsSession ==
  \A t \in Tokens : Valid(t) /\ token[t].session \in loggedOut => token[t].session \in forked

\* A password reset ends every session opened with an older password, except
\* those that were being opened or refreshed at that very moment.
ResetSparesOnlyInFlight ==
  \A t \in Tokens : Valid(t) => token[t].pwd = password[token[t].owner] \/ token[t].spared

\* However failed logins overlap each other, successes and resets: once the
\* threshold of refusals has been answered since the counter was last zeroed,
\* the account has been locked.
LockEngages ==
  \A u \in Users : answered[u] >= MaxFailedLoginAttempts => lock[u] # "none"
=============================================================================
