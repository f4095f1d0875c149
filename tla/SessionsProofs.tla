--------------------------- MODULE SessionsProofs ---------------------------
(***************************************************************************)
(* Theorems about Sessions, for every value of its constants.               *)
(***************************************************************************)
EXTENDS Sessions, TLAPS

\* What each place of a handler has in hand.
Loaded(h) ==
  /\ h \in HandlerStates
  /\ h.pc # "idle" => h.user \in Users
  /\ h.pc \in {"refreshUser", "rotate"} => h.token \in Tokens

\* A valid row has an owner and belongs to a session.
Stored(row) ==
  /\ row \in TokenRows
  /\ row.state = "valid" => row.owner \in Users /\ row.session \in Tokens

TypeInv ==
  /\ TypeOK
  /\ \A p \in Handlers : Loaded(handler[p])
  /\ \A t \in Tokens : Stored(token[t])

LEMMA IdleLoaded == Loaded(IdleHandler)
  BY DEF Loaded, IdleHandler, HandlerStates

LEMMA TypeInit == Init => TypeInv
<1> SUFFICES ASSUME Init PROVE TypeInv
  OBVIOUS
<1>1. Stored(NoToken)
  BY DEF Stored, NoToken, TokenRows
<1>2. \A t \in Tokens : token[t] = NoToken /\ ~Valid(t)
  BY DEF Init, Valid, NoToken
<1>3. token \in [Tokens -> TokenRows]
  BY <1>1 DEF Init, Stored
<1>4. handler \in [Handlers -> HandlerStates]
  BY IdleLoaded DEF Init, Loaded
<1> QED
  BY <1>1, <1>2, <1>3, <1>4, IdleLoaded DEF Init, TypeInv, TypeOK

\* What a step does to the handlers, by the form of its update.
LEMMA BecomeTyped ==
  ASSUME TypeInv, NEW p \in Handlers, NEW h, Loaded(h), Become(p, h)
  PROVE  handler' \in [Handlers -> HandlerStates] /\ \A q \in Handlers : Loaded(handler[q])'
<1>1. handler \in [Handlers -> HandlerStates] /\ h \in HandlerStates
  BY DEF TypeInv, TypeOK, Loaded
<1>2. handler' = [handler EXCEPT ![p] = h]
  BY DEF Become
<1>3. \A q \in Handlers : handler'[q] = IF q = p THEN h ELSE handler[q]
  BY <1>1, <1>2
<1>4. handler' \in [Handlers -> HandlerStates]
  BY <1>1, <1>2
<1>5. \A q \in Handlers : Loaded(handler'[q])
  BY <1>3 DEF TypeInv
<1> QED
  BY <1>4, <1>5 DEF Loaded, HandlerStates

LEMMA ReturnTyped ==
  ASSUME TypeInv, NEW p \in Handlers, Return(p)
  PROVE  handler' \in [Handlers -> HandlerStates] /\ \A q \in Handlers : Loaded(handler[q])'
  BY BecomeTyped, IdleLoaded DEF Return

LEMMA GotoTyped ==
  ASSUME TypeInv, NEW p \in Handlers, ~At(p, "idle"),
         NEW place \in {"lockWrite", "rotate", "issue"},
         place = "rotate" => At(p, "refreshUser"),
         Goto(p, place)
  PROVE  handler' \in [Handlers -> HandlerStates] /\ \A q \in Handlers : Loaded(handler[q])'
<1>1. Loaded(handler[p])
  BY DEF TypeInv
<1>2. Loaded([handler[p] EXCEPT !.pc = place])
  BY <1>1 DEF Loaded, HandlerStates, At
<1> QED
  BY <1>2, BecomeTyped DEF Goto

\* A step that changes one row of the tokens.
LEMMA RowTyped ==
  ASSUME TypeInv, NEW t \in Tokens, NEW row, Stored(row),
         row.state = "valid" => account[row.owner] \in {"ACTIVE", "SUSPENDED"},
         token' = [token EXCEPT ![t] = row], UNCHANGED account
  PROVE  /\ token' \in [Tokens -> TokenRows]
         /\ \A s \in Tokens : Stored(token[s])'
         /\ \A s \in Tokens : Valid(s)' => account'[token'[s].owner] \in {"ACTIVE", "SUSPENDED"}
<1>1. token \in [Tokens -> TokenRows] /\ row \in TokenRows
  BY DEF TypeInv, TypeOK, Stored
<1>2. \A s \in Tokens : token'[s] = IF s = t THEN row ELSE token[s]
  BY <1>1
<1>3. token' \in [Tokens -> TokenRows]
  BY <1>1
<1>4. \A s \in Tokens : Stored(token'[s])
  BY <1>2 DEF TypeInv
<1>5. \A s \in Tokens : token'[s].state = "valid" => account[token'[s].owner] \in {"ACTIVE", "SUSPENDED"}
  BY <1>2 DEF TypeInv, TypeOK, Valid
<1> QED
  BY <1>3, <1>4, <1>5 DEF Valid, Stored, TokenRows

-----------------------------------------------------------------------------
(* The type invariant, action by action.                                    *)

\* Counters, lock and history after the update that clears the failures.
LEMMA ClearTyped ==
  ASSUME TypeInv, NEW u \in Users, ClearFailures(u)
  PROVE  /\ failed' \in [Users -> Nat] /\ answered' \in [Users -> Nat]
         /\ lock' \in [Users -> {"none", "active", "past"}]
  BY DEF TypeInv, TypeOK, ClearFailures

\* Revoking a row needs nothing of it.
LEMMA RevokedStored ==
  ASSUME NEW row \in TokenRows, NEW state \in {"revoked", "expired"}
  PROVE  /\ Stored([row EXCEPT !.state = state])
         /\ [row EXCEPT !.state = state].state = state
  BY DEF Stored, TokenRows

\* The tokens of an account after all of them were revoked.
LEMMA RevokeTyped ==
  ASSUME TypeInv, NEW u \in Users, RevokeAll(u)
  PROVE  /\ token' \in [Tokens -> TokenRows]
         /\ \A t \in Tokens : Stored(token[t])'
         /\ \A t \in Tokens : Valid(t)' =>
              token'[t].owner = token[t].owner /\ Valid(t) /\ token[t].owner # u
<1>1. \A t \in Tokens : token[t] \in TokenRows /\ Stored(token[t])
  BY DEF TypeInv, Stored
<1>2. \A t \in Tokens : token'[t] = IF token[t].owner = u
                                   THEN [token[t] EXCEPT !.state = "revoked"] ELSE token[t]
  BY DEF RevokeAll
<1>3. \A t \in Tokens : LET row == [token[t] EXCEPT !.state = "revoked"] IN
        Stored(row) /\ row.state = "revoked"
  BY <1>1, RevokedStored
<1>4. \A t \in Tokens : Stored(token'[t])
  BY <1>1, <1>2, <1>3
<1>5. token' \in [Tokens -> TokenRows]
  BY <1>4 DEF RevokeAll, Stored
<1>6. \A t \in Tokens : token'[t].state = "valid" =>
         token'[t].owner = token[t].owner /\ token[t].state = "valid" /\ token[t].owner # u
  BY <1>2, <1>3
<1> QED
  BY <1>4, <1>5, <1>6 DEF Valid, Stored, TokenRows

LEMMA LoginTyped ==
  ASSUME TypeInv, NEW p \in Handlers, NEW u \in Users, NEW pwd \in 0..MaxResets,
         LoginFind(p, u, pwd)
  PROVE  TypeInv'
<1>1. MaxResets \in Nat /\ pwd \in Nat
  BY SessionBounds
<1>2. \E place \in {"successWrite", "failWrite"} :
        Become(p, [IdleHandler EXCEPT !.user = u, !.pwd = pwd, !.pc = place])
  BY DEF LoginFind
<1>3. ASSUME NEW place \in {"successWrite", "failWrite"}
      PROVE  Loaded([IdleHandler EXCEPT !.user = u, !.pwd = pwd, !.pc = place])
  BY <1>1 DEF Loaded, HandlerStates, IdleHandler
<1>4. handler' \in [Handlers -> HandlerStates] /\ \A q \in Handlers : Loaded(handler[q])'
  BY <1>2, <1>3, BecomeTyped
<1> QED
  BY <1>4 DEF TypeInv, TypeOK, LoginFind, userVars, history, Valid, Stored, TokenRows,
     Loaded, HandlerStates

LEMMA RefreshTyped ==
  ASSUME TypeInv, NEW p \in Handlers, NEW t \in Tokens, RefreshFind(p, t)
  PROVE  TypeInv'
<1>1. Stored(token[t]) /\ token[t].state = "valid"
  BY DEF TypeInv, RefreshFind
<1> DEFINE h == [pc |-> "refreshUser", user |-> token[t].owner, token |-> t,
                 session |-> token[t].session, pwd |-> token[t].pwd,
                 spared |-> token[t].spared]
<1>2. Loaded(h)
  BY <1>1 DEF Loaded, HandlerStates, Stored, TokenRows
<1>3. handler' \in [Handlers -> HandlerStates] /\ \A q \in Handlers : Loaded(handler[q])'
  BY <1>2, BecomeTyped DEF RefreshFind
<1> QED
  BY <1>1, <1>3 DEF TypeInv, TypeOK, RefreshFind, userVars, history, Valid, Stored, TokenRows,
     Loaded, HandlerStates

LEMMA ContinuesTyped ==
  ASSUME TypeInv, NEW p \in Handlers, Continues(p) \/ Abort(p)
  PROVE  TypeInv'
<1>0. /\ Loaded(handler[p]) /\ handler[p] \in HandlerStates
      /\ ~At(p, "idle") => User(p) \in Users
  BY DEF TypeInv, Loaded, At, User
<1>1. CASE FailIncrement(p)
  <2>1. handler' \in [Handlers -> HandlerStates] /\ \A q \in Handlers : Loaded(handler[q])'
    BY <1>1, ReturnTyped, GotoTyped DEF FailIncrement, Refuse, At
  <2>2. failed' \in [Users -> Nat] /\ answered' \in [Users -> Nat]
    BY <1>0, <1>1 DEF FailIncrement, Refuse, TypeInv, TypeOK, At
  <2> QED
    BY <1>1, <2>1, <2>2 DEF FailIncrement, TypeInv, TypeOK, history, Valid, Stored,
       TokenRows, Loaded, HandlerStates
<1>2. CASE FailLock(p)
  <2>1. handler' \in [Handlers -> HandlerStates] /\ \A q \in Handlers : Loaded(handler[q])'
    BY <1>2, ReturnTyped DEF FailLock, Refuse
  <2>2. /\ answered' \in [Users -> Nat] /\ lock' \in [Users -> {"none", "active", "past"}]
    BY <1>0, <1>2 DEF FailLock, Refuse, TypeInv, TypeOK, At
  <2> QED
    BY <1>2, <2>1, <2>2 DEF FailLock, TypeInv, TypeOK, history, Valid, Stored,
       TokenRows, Loaded, HandlerStates
<1>3. CASE SuccessWrite(p)
  <2>1. handler' \in [Handlers -> HandlerStates] /\ \A q \in Handlers : Loaded(handler[q])'
    BY <1>3, GotoTyped DEF SuccessWrite, At
  <2>2. User(p) \in Users
    BY <1>0, <1>3 DEF SuccessWrite, At
  <2>3. /\ failed' \in [Users -> Nat] /\ answered' \in [Users -> Nat]
        /\ lock' \in [Users -> {"none", "active", "past"}]
    BY <1>3, <2>2, ClearTyped DEF SuccessWrite
  <2> QED
    BY <1>3, <2>1, <2>3 DEF SuccessWrite, TypeInv, TypeOK, history, Valid, Stored,
       TokenRows, Loaded, HandlerStates
<1>4. CASE Issue(p)
  <2>1. handler' \in [Handlers -> HandlerStates] /\ \A q \in Handlers : Loaded(handler[q])'
    BY <1>4, ReturnTyped DEF Issue
  <2>2. User(p) \in Users /\ account[User(p)] \in {"ACTIVE", "SUSPENDED"}
    BY <1>0, <1>4 DEF Issue, At, Exists, TypeInv, TypeOK
  <2>3. PICK t \in Tokens :
          token' = [token EXCEPT ![t] =
            [ state |-> "valid", owner |-> User(p), pwd |-> handler[p].pwd,
              spared |-> handler[p].spared,
              session |-> IF handler[p].session = None THEN t ELSE handler[p].session ]]
    BY <1>4 DEF Issue
  <2>4. Stored([ state |-> "valid", owner |-> User(p), pwd |-> handler[p].pwd,
                 spared |-> handler[p].spared,
                 session |-> IF handler[p].session = None THEN t ELSE handler[p].session ])
    BY <1>0, <2>2 DEF Stored, TokenRows, HandlerStates
  <2>5. UNCHANGED account
    BY <1>4 DEF Issue, userVars
  <2>6. /\ token' \in [Tokens -> TokenRows]
        /\ \A s \in Tokens : Stored(token[s])'
        /\ \A s \in Tokens : Valid(s)' => account'[token'[s].owner] \in {"ACTIVE", "SUSPENDED"}
    BY <2>2, <2>3, <2>4, <2>5, RowTyped
  <2> QED
    BY <1>4, <2>1, <2>6 DEF Issue, TypeInv, TypeOK, userVars, history
<1>5. CASE RefreshUser(p)
  <2>1. handler' \in [Handlers -> HandlerStates] /\ \A q \in Handlers : Loaded(handler[q])'
    BY <1>5, ReturnTyped, GotoTyped DEF RefreshUser, At
  <2> QED
    BY <1>5, <2>1 DEF RefreshUser, TypeInv, TypeOK, userVars, history, Valid, Stored,
       TokenRows, Loaded, HandlerStates
<1>6. CASE Rotate(p)
  <2>1. handler' \in [Handlers -> HandlerStates] /\ \A q \in Handlers : Loaded(handler[q])'
    BY <1>6, GotoTyped DEF Rotate, At
  <2>2. PICK t \in Tokens : t = handler[p].token
    BY <1>0, <1>6 DEF Rotate, At, Loaded
  <2>3. token' = [token EXCEPT ![t] = [token[t] EXCEPT !.state = "revoked"]]
    BY <1>6, <2>2 DEF Rotate, TypeInv, TypeOK
  <2>4. UNCHANGED account /\ token[t] \in TokenRows
    BY <1>6 DEF Rotate, userVars, TypeInv, Stored
  <2>5. /\ token' \in [Tokens -> TokenRows]
        /\ \A s \in Tokens : Stored(token[s])'
        /\ \A s \in Tokens : Valid(s)' => account'[token'[s].owner] \in {"ACTIVE", "SUSPENDED"}
    BY <2>3, <2>4, RowTyped, RevokedStored
  <2> QED
    BY <1>6, <2>1, <2>5 DEF Rotate, TypeInv, TypeOK, userVars, history
<1>7. CASE Abort(p)
  <2>1. handler' \in [Handlers -> HandlerStates] /\ \A q \in Handlers : Loaded(handler[q])'
    BY <1>7, ReturnTyped DEF Abort
  <2> QED
    BY <1>7, <2>1 DEF Abort, TypeInv, TypeOK, userVars, history, Valid, Stored,
       TokenRows, Loaded, HandlerStates
<1> QED
  BY <1>1, <1>2, <1>3, <1>4, <1>5, <1>6, <1>7 DEF Continues

\* The steps that belong to no handler.
LEMMA OthersTyped ==
  ASSUME TypeInv,
         \/ \E t \in Tokens : Logout(t) \/ TokenExpires(t)
         \/ \E u \in Users :
              \/ \E status \in {"ACTIVE", "SUSPENDED"} : UpdateStatus(u, status)
              \/ ResetPassword(u) \/ DeleteStaffUser(u) \/ LockPasses(u)
  PROVE  TypeInv'
<1>1. CASE \E t \in Tokens : Logout(t) \/ TokenExpires(t)
  <2>1. PICK t \in Tokens : Logout(t) \/ TokenExpires(t)
    BY <1>1
  <2>2. token[t] \in TokenRows /\ Stored(token[t])
    BY DEF TypeInv, Stored
  <2>3. \E state \in {"revoked", "expired"} :
          token' = [token EXCEPT ![t] = [token[t] EXCEPT !.state = state]]
    BY <2>1 DEF Logout, TokenExpires, TypeInv, TypeOK
  <2>4. UNCHANGED <<userVars, handler>>
    BY <2>1 DEF Logout, TokenExpires, history
  <2>5. /\ token' \in [Tokens -> TokenRows]
        /\ \A s \in Tokens : Stored(token[s])'
        /\ \A s \in Tokens : Valid(s)' => account'[token'[s].owner] \in {"ACTIVE", "SUSPENDED"}
    BY <2>2, <2>3, <2>4, RowTyped, RevokedStored DEF userVars
  <2>6. loggedOut' \subseteq Tokens /\ forked' \subseteq Tokens
    BY <2>1, <2>2 DEF Logout, TokenExpires, TypeInv, TypeOK, Stored, history
  <2> QED
    BY <2>4, <2>5, <2>6 DEF TypeInv, TypeOK, userVars, Loaded, HandlerStates
<1>2. ASSUME NEW u \in Users, NEW status \in {"ACTIVE", "SUSPENDED"}, UpdateStatus(u, status)
      PROVE  TypeInv'
  <2>1. /\ failed' \in [Users -> Nat] /\ answered' \in [Users -> Nat]
        /\ lock' \in [Users -> {"none", "active", "past"}]
    BY <1>2, ClearTyped DEF UpdateStatus, TypeInv, TypeOK
  <2>2. /\ account' \in [Users -> {"ACTIVE", "SUSPENDED", None}]
        /\ \A v \in Users : account[v] \in {"ACTIVE", "SUSPENDED"}
                             => account'[v] \in {"ACTIVE", "SUSPENDED"}
    BY <1>2 DEF UpdateStatus, TypeInv, TypeOK
  <2>3. \A t \in Tokens : Valid(t) => token[t].owner \in Users
    BY DEF TypeInv, Stored, Valid
  <2> QED
    BY <1>2, <2>1, <2>2, <2>3 DEF UpdateStatus, TypeInv, TypeOK, history, Valid, Stored,
       TokenRows, Loaded, HandlerStates
<1>3. ASSUME NEW u \in Users, ResetPassword(u)
      PROVE  TypeInv'
  <2>1. /\ failed' \in [Users -> Nat] /\ answered' \in [Users -> Nat]
        /\ lock' \in [Users -> {"none", "active", "past"}]
    BY <1>3, ClearTyped DEF ResetPassword
  <2>2. password' \in [Users -> Nat] /\ UNCHANGED <<account, loggedOut, forked>>
    BY <1>3 DEF ResetPassword, history, TypeInv, TypeOK
  <2>3. /\ token' \in [Tokens -> TokenRows]
        /\ \A t \in Tokens : Stored(token[t])'
        /\ \A t \in Tokens : Valid(t)' => token'[t].owner = token[t].owner /\ Valid(t)
    BY <1>3, RevokeTyped DEF ResetPassword
  <2>4. \A q \in Handlers :
          /\ handler'[q] = IF User(q) = u THEN [handler[q] EXCEPT !.spared = TRUE] ELSE handler[q]
          /\ Loaded(handler[q]) /\ Loaded([handler[q] EXCEPT !.spared = TRUE])
    BY <1>3 DEF ResetPassword, Spare, TypeInv, Loaded, HandlerStates
  <2>5. \A q \in Handlers : Loaded(handler'[q])
    BY <2>4
  <2>6. handler' \in [Handlers -> HandlerStates]
    BY <1>3, <2>5 DEF ResetPassword, Spare, Loaded
  <2>7. \A q \in Handlers : Loaded(handler[q])'
    BY <2>5 DEF Loaded, HandlerStates
  <2> QED
    BY <2>1, <2>2, <2>3, <2>6, <2>7 DEF TypeInv, TypeOK
<1>4. ASSUME NEW u \in Users, DeleteStaffUser(u)
      PROVE  TypeInv'
  <2>1. /\ token' \in [Tokens -> TokenRows]
        /\ \A t \in Tokens : Stored(token[t])'
        /\ \A t \in Tokens : Valid(t)' =>
             token'[t].owner = token[t].owner /\ Valid(t) /\ token[t].owner # u
    BY <1>4, RevokeTyped DEF DeleteStaffUser
  <2>2. \A t \in Tokens : Valid(t) => token[t].owner \in Users
    BY DEF TypeInv, Stored, Valid
  <2>3. /\ account' \in [Users -> {"ACTIVE", "SUSPENDED", None}]
        /\ \A v \in Users \ {u} : account'[v] = account[v]
    BY <1>4 DEF DeleteStaffUser, TypeInv, TypeOK
  <2> QED
    BY <1>4, <2>1, <2>2, <2>3 DEF DeleteStaffUser, TypeInv, TypeOK, history, Loaded,
       HandlerStates
<1>5. ASSUME NEW u \in Users, LockPasses(u)
      PROVE  TypeInv'
  BY <1>5 DEF LockPasses, TypeInv, TypeOK, history, Valid, Stored, TokenRows, Loaded,
     HandlerStates
<1> QED
  BY <1>1, <1>2, <1>3, <1>4, <1>5

LEMMA TypeStep == TypeInv /\ [Next]_sessionVars => TypeInv'
<1> SUFFICES ASSUME TypeInv, [Next]_sessionVars PROVE TypeInv'
  OBVIOUS
<1>1. CASE UNCHANGED sessionVars
  BY <1>1 DEF sessionVars, userVars, history, TypeInv, TypeOK, Valid, Stored, TokenRows,
     Loaded, HandlerStates
<1> QED
  BY <1>1, LoginTyped, RefreshTyped, ContinuesTyped, OthersTyped DEF Next, AuthCalls, AdminCalls

\* The variables of Sessions always have their types, and a valid refresh token
\* always belongs to an account that exists: deletion never leaves one behind.
THEOREM SessionsTyped == Spec => []TypeOK
<1>1. Spec => []TypeInv
  BY TypeInit, TypeStep, PTL DEF Spec
<1>2. TypeInv => TypeOK
  BY DEF TypeInv
<1> QED
  BY <1>1, <1>2, PTL

-----------------------------------------------------------------------------
(* The lock.                                                                *)

\* While an account carries no lock, every refusal answered since the counter
\* was zeroed is in the counter, and the threshold was not reached.
LockInv ==
  /\ TypeInv
  /\ \A u \in Users : lock[u] = "none" =>
        answered[u] <= failed[u] /\ answered[u] < MaxFailedLoginAttempts

LEMMA ClearCounts ==
  ASSUME LockInv, NEW u \in Users, ClearFailures(u)
  PROVE  \A v \in Users : lock'[v] = "none" =>
           answered'[v] <= failed'[v] /\ answered'[v] < MaxFailedLoginAttempts
  BY ThresholdAssumption DEF LockInv, TypeInv, TypeOK, ClearFailures

LEMMA LockStep == LockInv /\ [Next]_sessionVars => LockInv'
<1> SUFFICES ASSUME LockInv, [Next]_sessionVars PROVE LockInv'
  OBVIOUS
<1> DEFINE Counts == \A v \in Users : lock'[v] = "none" =>
                       answered'[v] <= failed'[v] /\ answered'[v] < MaxFailedLoginAttempts
<1>0. TypeInv /\ TypeInv'
  BY TypeStep DEF LockInv
<1>1. ASSUME UNCHANGED <<failed, lock, answered>> PROVE Counts
  BY <1>1 DEF LockInv
<1>2. ASSUME NEW p \in Handlers, FailIncrement(p) PROVE Counts
  <2>1. User(p) \in Users
    BY <1>0, <1>2 DEF FailIncrement, At, User, TypeInv, Loaded
  <2> QED
    BY <1>0, <1>2, <2>1, ThresholdAssumption
    DEF FailIncrement, Refuse, LockInv, TypeInv, TypeOK
<1>3. ASSUME NEW p \in Handlers, FailLock(p) PROVE Counts
  BY <1>0, <1>3 DEF FailLock, Refuse, LockInv, TypeInv, TypeOK
<1>4. ASSUME NEW p \in Handlers, SuccessWrite(p) PROVE Counts
  <2>1. User(p) \in Users
    BY <1>0, <1>4 DEF SuccessWrite, At, User, TypeInv, Loaded
  <2> QED
    BY <1>4, <2>1, ClearCounts DEF SuccessWrite
<1>5. ASSUME NEW u \in Users, NEW status \in {"ACTIVE", "SUSPENDED"}, UpdateStatus(u, status)
      PROVE  Counts
  BY <1>1, <1>5, ClearCounts DEF UpdateStatus
<1>6. ASSUME NEW u \in Users, ResetPassword(u) PROVE Counts
  BY <1>6, ClearCounts DEF ResetPassword
<1>7. ASSUME NEW u \in Users, LockPasses(u) PROVE Counts
  BY <1>0, <1>7 DEF LockPasses, LockInv, TypeInv, TypeOK
<1>8. Counts
  BY <1>1, <1>2, <1>3, <1>4, <1>5, <1>6, <1>7 DEF Next, AuthCalls, AdminCalls,
     Continues, LoginFind, RefreshFind, Issue, RefreshUser, Rotate, Abort, Logout, TokenExpires, DeleteStaffUser, userVars,
     sessionVars
<1> QED
  BY <1>0, <1>8 DEF LockInv

\* However many logins overlap, and whatever fails: an account that was refused
\* as often as the threshold says, since its counter was last zeroed, has been
\* locked.  It rests on the atomic increment of recordFailedLogin.
THEOREM LockoutHolds == Spec => []LockEngages
<1>1. Init => LockInv
  BY TypeInit, ThresholdAssumption DEF Init, LockInv
<1>2. Spec => []LockInv
  BY <1>1, LockStep, PTL DEF Spec
<1>3. LockInv => LockEngages
  BY ThresholdAssumption DEF LockInv, LockEngages, TypeInv, TypeOK
<1> QED
  BY <1>2, <1>3, PTL

-----------------------------------------------------------------------------
(* The password reset.                                                      *)

\* Whoever will issue a token, or holds a valid one, authenticated with the
\* password of the account or was in flight when it was reset.
ResetInv ==
  /\ TypeInv
  /\ ResetSparesOnlyInFlight
  /\ \A p \in Handlers :
       handler[p].pc \in {"successWrite", "refreshUser", "rotate", "issue"} =>
         handler[p].pwd = password[handler[p].user] \/ handler[p].spared

LEMMA ResetStep == ResetInv /\ [Next]_sessionVars => ResetInv'
<1> SUFFICES ASSUME ResetInv, [Next]_sessionVars PROVE ResetInv'
  OBVIOUS
<1> DEFINE Issuers == {"successWrite", "refreshUser", "rotate", "issue"}
           Current(h) == h.pc \in Issuers => h.pwd = password'[h.user] \/ h.spared
           Rows == \A t \in Tokens : token'[t].state = "valid" =>
                     token'[t].pwd = password'[token'[t].owner] \/ token'[t].spared
           Hands == \A q \in Handlers : Current(handler'[q])
<1>0. /\ TypeInv /\ TypeInv'
      /\ handler \in [Handlers -> HandlerStates] /\ token \in [Tokens -> TokenRows]
  BY TypeStep DEF ResetInv, TypeInv, TypeOK
<1>1. ASSUME NEW p \in Handlers, NEW h, Become(p, h), Current(h), UNCHANGED password
      PROVE  Hands
  <2>1. \A q \in Handlers : handler'[q] = IF q = p THEN h ELSE handler[q]
    BY <1>0, <1>1 DEF Become
  <2> QED
    BY <1>1, <2>1 DEF ResetInv
<1>2. ASSUME NEW p \in Handlers, Return(p), UNCHANGED password PROVE Hands
  <2>1. Current(IdleHandler)
    BY DEF IdleHandler
  <2> QED
    BY <1>1, <1>2, <2>1 DEF Return
<1>3. ASSUME NEW p \in Handlers, NEW place, Goto(p, place), UNCHANGED password,
             place = "lockWrite" \/ handler[p].pc \in Issuers
      PROVE  Hands
  <2>1. Current([handler[p] EXCEPT !.pc = place])
    BY <1>0, <1>3 DEF ResetInv, HandlerStates
  <2> QED
    BY <1>1, <1>3, <2>1 DEF Goto
<1>4. ASSUME UNCHANGED password,
             \A t \in Tokens : token'[t].state = "valid" => token'[t] = token[t]
      PROVE  Rows
  BY <1>4 DEF ResetInv, ResetSparesOnlyInFlight, Valid
<1>5. ASSUME NEW p \in Handlers, NEW u \in Users, NEW pwd \in 0..MaxResets, LoginFind(p, u, pwd)
      PROVE  Rows /\ Hands
  <2>1. UNCHANGED <<password, token>>
    BY <1>5 DEF LoginFind, userVars
  <2> DEFINE h == [IdleHandler EXCEPT !.user = u, !.pwd = pwd,
                     !.pc = IF pwd = password[u] THEN "successWrite" ELSE "failWrite"]
  <2>2. Current(h)
    BY <2>1 DEF IdleHandler
  <2> QED
    BY <1>1, <1>4, <1>5, <2>1, <2>2 DEF LoginFind
<1>6. ASSUME NEW p \in Handlers, NEW t \in Tokens, RefreshFind(p, t)
      PROVE  Rows /\ Hands
  <2>1. UNCHANGED <<password, token>> /\ Valid(t)
    BY <1>6 DEF RefreshFind, userVars, Valid
  <2> DEFINE h == [pc |-> "refreshUser", user |-> token[t].owner, token |-> t,
                   session |-> token[t].session, pwd |-> token[t].pwd,
                   spared |-> token[t].spared]
  <2>2. Current(h)
    BY <2>1 DEF ResetInv, ResetSparesOnlyInFlight
  <2> QED
    BY <1>1, <1>4, <1>6, <2>1, <2>2 DEF RefreshFind
<1>7. ASSUME NEW p \in Handlers,
             \/ FailIncrement(p) \/ FailLock(p) \/ SuccessWrite(p) \/ RefreshUser(p) \/ Abort(p)
      PROVE  Rows /\ Hands
  BY <1>2, <1>3, <1>4, <1>7 DEF FailIncrement, FailLock, SuccessWrite, RefreshUser, Abort,
     Refuse, At, userVars
<1>8. ASSUME NEW p \in Handlers, Rotate(p)
      PROVE  Rows /\ Hands
  <2>1. handler[p].pc \in Issuers /\ UNCHANGED password
    BY <1>8 DEF Rotate, At, userVars
  <2>2. ASSUME NEW t \in Tokens PROVE token'[t].state = "valid" => token'[t] = token[t]
    BY <1>0, <1>8 DEF Rotate, TokenRows
  <2> QED
    BY <1>3, <1>4, <1>8, <2>1, <2>2 DEF Rotate
<1>9. ASSUME NEW p \in Handlers, Issue(p)
      PROVE  Rows /\ Hands
  <2>1. /\ UNCHANGED password
        /\ handler[p].pwd = password[User(p)] \/ handler[p].spared
    BY <1>9 DEF Issue, At, User, userVars, ResetInv
  <2>2. PICK t \in Tokens : \E s :
          token' = [token EXCEPT ![t] =
            [ state |-> "valid", owner |-> User(p), pwd |-> handler[p].pwd,
              spared |-> handler[p].spared, session |-> s ]]
    BY <1>9 DEF Issue
  <2>3. Rows
    BY <1>0, <2>1, <2>2 DEF ResetInv, ResetSparesOnlyInFlight, Valid
  <2> QED
    BY <1>2, <1>9, <2>1, <2>3 DEF Issue
<1>10. ASSUME NEW t \in Tokens, Logout(t) \/ TokenExpires(t)
       PROVE  Rows /\ Hands
  <2>1. UNCHANGED <<password, handler>>
    BY <1>10 DEF Logout, TokenExpires, userVars
  <2>2. \E state \in {"revoked", "expired"} :
          token' = [token EXCEPT ![t] = [token[t] EXCEPT !.state = state]]
    BY <1>0, <1>10 DEF Logout, TokenExpires
  <2>3. ASSUME NEW s \in Tokens PROVE token'[s].state = "valid" => token'[s] = token[s]
    BY <1>0, <2>2 DEF TokenRows
  <2> QED
    BY <1>4, <2>1, <2>3 DEF ResetInv
<1>11. ASSUME NEW u \in Users, RevokeAll(u),
              \A v \in Users \ {u} : password'[v] = password[v],
              \/ UNCHANGED <<password, handler>>
              \/ Spare(u)
       PROVE  Rows /\ Hands
  <2>1. \A t \in Tokens : Valid(t)' =>
          token'[t] = token[t] /\ Valid(t) /\ token[t].owner \in Users \ {u}
    <3>1. ASSUME NEW t \in Tokens, Valid(t)'
          PROVE  token[t].owner # u /\ token'[t] = token[t]
      <4>1. token'[t] = IF token[t].owner = u THEN [token[t] EXCEPT !.state = "revoked"]
                        ELSE token[t]
        BY <1>11 DEF RevokeAll
      <4> QED
        BY <1>0, <3>1, <4>1 DEF Valid, TokenRows
    <3> QED
      BY <1>0, <3>1 DEF TypeInv, Stored, Valid
  <2>2. Rows
    BY <1>11, <2>1 DEF ResetInv, ResetSparesOnlyInFlight, Valid
  <2>3. ASSUME NEW q \in Handlers, Spare(u) PROVE Current(handler'[q])
    <3>1. CASE User(q) = u
      BY <1>0, <2>3, <3>1 DEF Spare, HandlerStates
    <3>2. CASE User(q) # u
      <4>1. handler'[q] = handler[q]
        BY <2>3, <3>2 DEF Spare
      <4>2. handler[q].pc \in Issuers => handler[q].user \in Users \ {u}
        BY <1>0, <3>2 DEF TypeInv, Loaded, User
      <4> QED
        BY <1>11, <4>1, <4>2 DEF ResetInv
    <3> QED
      BY <3>1, <3>2
  <2> QED
    BY <1>11, <2>2, <2>3 DEF ResetInv
<1>12. ASSUME NEW u \in Users, ResetPassword(u) \/ DeleteStaffUser(u) PROVE Rows /\ Hands
  <2>1. \A v \in Users \ {u} : password'[v] = password[v]
    BY <1>0, <1>12 DEF ResetPassword, DeleteStaffUser, TypeInv, TypeOK
  <2> QED
    BY <1>11, <1>12, <2>1 DEF ResetPassword, DeleteStaffUser
<1>13. ASSUME UNCHANGED <<password, token, handler>> PROVE Rows /\ Hands
  BY <1>4, <1>13 DEF ResetInv
<1>14. Rows /\ Hands
  BY <1>5, <1>6, <1>7, <1>8, <1>9, <1>10, <1>12, <1>13
  DEF Next, AuthCalls, AdminCalls, Continues, UpdateStatus, LockPasses, sessionVars, userVars
<1> QED
  BY <1>0, <1>14 DEF ResetInv, ResetSparesOnlyInFlight, Valid

\* A password reset ends every session but those in flight at that moment,
\* however calls overlap and whatever fails.
THEOREM ResetHolds == Spec => []ResetSparesOnlyInFlight
<1>1. Init => ResetInv
  BY TypeInit DEF Init, ResetInv, ResetSparesOnlyInFlight, Valid, NoToken, IdleHandler
<1>2. ResetInv => ResetSparesOnlyInFlight
  BY DEF ResetInv
<1> QED
  BY <1>1, <1>2, ResetStep, PTL DEF Spec

-----------------------------------------------------------------------------
(* The chain of refresh tokens of a session.  A session forks when one of its *)
(* tokens is refreshed twice at once; the other sessions are chains for ever.  *)

\* Handler p holds the place of its session until it issues the next token.
Refreshing(p) == handler[p].session # None
Started(s) == s \in Tokens /\ token[s].state # "unused"

\* A session that has not forked is represented once: by a valid token, by the
\* handler that refreshes this very token, or by the handler that has revoked it
\* and will issue the next.
ChainInv ==
  /\ TypeInv
  /\ OneTokenPerSession
  /\ \A p, q \in Handlers :
       /\ Refreshing(p) /\ handler[p].session = handler[q].session
       /\ handler[p].session \notin forked
       => p = q
  /\ \A p \in Handlers, t \in Tokens :
       /\ Refreshing(p) /\ Valid(t) /\ token[t].session = handler[p].session
       /\ token[t].session \notin forked
       => handler[p].token = t /\ handler[p].pc \in {"refreshUser", "rotate"}
  /\ \A t \in Tokens : token[t].session # None => Started(token[t].session)
  /\ \A p \in Handlers : Refreshing(p) => Started(handler[p].session)
  /\ \A p \in Handlers :
       /\ Refreshing(p) => handler[p].pc \in {"refreshUser", "rotate", "issue"}
       /\ handler[p].pc \in {"refreshUser", "rotate"} => Refreshing(p)

Unrepresented(s) ==
  /\ \A t \in Tokens : Valid(t) => token[t].session # s
  /\ \A p \in Handlers : handler[p].session # s

\* Nothing represents a session that was logged out, unless it had forked.
LogoutInv ==
  \A s \in loggedOut :
    /\ Started(s)
    /\ s \in forked \/ Unrepresented(s)

SessionInv == ChainInv /\ LogoutInv

LEMMA SessionInit == Init => SessionInv
<1> SUFFICES ASSUME Init PROVE SessionInv
  OBVIOUS
<1>1. TypeInv
  BY TypeInit
<1>2. /\ \A t \in Tokens : token[t].state = "unused" /\ token[t].session = None
      /\ \A p \in Handlers : handler[p].session = None /\ handler[p].pc = "idle"
      /\ loggedOut = {}
  BY DEF Init, NoToken, IdleHandler
<1> QED
  BY <1>1, <1>2 DEF SessionInv, ChainInv, LogoutInv, OneTokenPerSession, Valid, Refreshing, At

\* Most steps only take representatives away, or move a refresh to its rotation.
LEMMA ChainShrinks ==
  ASSUME SessionInv, TypeInv', UNCHANGED <<loggedOut, forked>>,
         \A t \in Tokens :
           /\ token'[t].session = token[t].session
           /\ token'[t].state = "valid" => token[t].state = "valid"
           /\ token[t].state # "unused" => token'[t].state # "unused",
         \A q \in Handlers :
           \/ /\ handler'[q].session = None
              /\ handler'[q].pc \notin {"refreshUser", "rotate"}
           \/ /\ handler'[q].session = handler[q].session
              /\ handler'[q].token = handler[q].token
              /\ \/ handler'[q].pc = handler[q].pc
                 \/ handler[q].pc = "refreshUser" /\ handler'[q].pc = "rotate"
  PROVE  SessionInv'
<1>1. \A p \in Handlers : handler'[p].session # None =>
        /\ handler'[p].session = handler[p].session
        /\ handler'[p].token = handler[p].token
        /\ handler[p].pc \in {"refreshUser", "rotate"}
             => handler'[p].pc \in {"refreshUser", "rotate"}
  OBVIOUS
<1>2. OneTokenPerSession'
  BY DEF SessionInv, ChainInv, OneTokenPerSession, Valid
<1>3. \A p, q \in Handlers :
        /\ Refreshing(p)' /\ handler'[p].session = handler'[q].session
        /\ handler'[p].session \notin forked'
        => p = q
  BY <1>1 DEF SessionInv, ChainInv, Refreshing
<1>4. \A p \in Handlers, t \in Tokens :
        /\ Refreshing(p)' /\ Valid(t)' /\ token'[t].session = handler'[p].session
        /\ token'[t].session \notin forked'
        => handler'[p].token = t /\ handler'[p].pc \in {"refreshUser", "rotate"}
  BY <1>1 DEF SessionInv, ChainInv, Refreshing, Valid
<1>5. /\ \A t \in Tokens : token'[t].session # None => Started(token[t].session)'
      /\ \A p \in Handlers : Refreshing(p)' => Started(handler[p].session)'
  BY <1>1 DEF SessionInv, ChainInv, Refreshing, Started
<1>6. \A p \in Handlers :
        /\ Refreshing(p)' => handler'[p].pc \in {"refreshUser", "rotate", "issue"}
        /\ handler'[p].pc \in {"refreshUser", "rotate"} => Refreshing(p)'
  BY DEF SessionInv, ChainInv, Refreshing, At
<1>7. LogoutInv'
  BY <1>1, NoUserAssumption DEF SessionInv, LogoutInv, Unrepresented, Started, Valid
<1> QED
  BY <1>2, <1>3, <1>4, <1>5, <1>6, <1>7 DEF SessionInv, ChainInv

LEMMA BecomeRow ==
  ASSUME TypeInv, NEW p \in Handlers, NEW h, Become(p, h)
  PROVE  \A q \in Handlers : handler'[q] = IF q = p THEN h ELSE handler[q]
  BY DEF TypeInv, TypeOK, Become

LEMMA GotoRow ==
  ASSUME TypeInv, NEW p \in Handlers, NEW place, Goto(p, place)
  PROVE  /\ \A q \in Handlers \ {p} : handler'[q] = handler[q]
         /\ handler'[p].pc = place
         /\ handler'[p].session = handler[p].session
         /\ handler'[p].token = handler[p].token
         /\ handler'[p].user = handler[p].user
  BY BecomeRow DEF Goto, TypeInv, TypeOK, HandlerStates

LEMMA ReturnRow ==
  ASSUME TypeInv, NEW p \in Handlers, Return(p)
  PROVE  /\ \A q \in Handlers \ {p} : handler'[q] = handler[q]
         /\ handler'[p].pc = "idle" /\ handler'[p].session = None
  BY BecomeRow DEF Return, IdleHandler

-----------------------------------------------------------------------------
(* The steps of a login.                                                    *)

LEMMA LoginChain ==
  ASSUME SessionInv, TypeInv', NEW p \in Handlers,
         \/ \E u \in Users, pwd \in 0..MaxResets : LoginFind(p, u, pwd)
         \/ FailIncrement(p) \/ FailLock(p) \/ SuccessWrite(p) \/ RefreshUser(p) \/ Abort(p)
  PROVE  SessionInv'
<1>0. TypeInv
  BY DEF SessionInv, ChainInv
<1>1. UNCHANGED <<token, loggedOut, forked>>
  BY DEF LoginFind, FailIncrement, FailLock, SuccessWrite, RefreshUser, Abort, history
<1>2. CASE \E u \in Users, pwd \in 0..MaxResets : LoginFind(p, u, pwd)
  <2>1. PICK u \in Users, pwd \in 0..MaxResets : LoginFind(p, u, pwd)
    BY <1>2
  <2>2. PICK place \in {"successWrite", "failWrite"} :
          Become(p, [IdleHandler EXCEPT !.user = u, !.pwd = pwd, !.pc = place])
    BY <2>1 DEF LoginFind
  <2>3. \A q \in Handlers \ {p} : handler'[q] = handler[q]
    BY <1>0, <2>2, BecomeRow DEF Become
  <2>4. handler'[p].session = None /\ handler'[p].pc \in {"successWrite", "failWrite"}
    <3>1. handler'[p] = [IdleHandler EXCEPT !.user = u, !.pwd = pwd, !.pc = place]
      BY <1>0, <2>2, BecomeRow
    <3> QED
      BY <3>1 DEF IdleHandler
  <2>5. \A q \in Handlers :
          \/ handler'[q].session = None /\ handler'[q].pc \notin {"refreshUser", "rotate"}
          \/ handler'[q] = handler[q]
    BY <2>3, <2>4
  <2> QED
    BY <1>1, <2>5, ChainShrinks
<1>3. ASSUME Return(p) PROVE SessionInv'
  BY <1>0, <1>1, <1>3, ReturnRow, ChainShrinks
<1>4. ASSUME NEW place \in {"lockWrite", "issue"}, Goto(p, place),
             At(p, "failWrite") \/ At(p, "successWrite")
      PROVE  SessionInv'
  <2>1. handler[p].session = None
    BY <1>4 DEF SessionInv, ChainInv, Refreshing, At
  <2> QED
    BY <1>0, <1>1, <1>4, <2>1, GotoRow, ChainShrinks
<1>5. ASSUME Goto(p, "rotate"), At(p, "refreshUser")
      PROVE  SessionInv'
  BY <1>0, <1>1, <1>5, GotoRow, ChainShrinks DEF At
<1> QED
  BY <1>2, <1>3, <1>4, <1>5 DEF FailIncrement, FailLock, SuccessWrite, RefreshUser, Abort, Refuse

\* Time and administration only take valid tokens away.
LEMMA AdministrationChain ==
  ASSUME SessionInv, TypeInv',
         \/ \E t \in Tokens : TokenExpires(t)
         \/ \E u \in Users :
              \/ \E status \in {"ACTIVE", "SUSPENDED"} : UpdateStatus(u, status)
              \/ ResetPassword(u) \/ DeleteStaffUser(u) \/ LockPasses(u)
         \/ UNCHANGED sessionVars
  PROVE  SessionInv'
<1>0. /\ \A t \in Tokens : token[t] \in TokenRows
      /\ \A q \in Handlers : handler[q] \in HandlerStates
      /\ token \in [Tokens -> TokenRows]
  BY DEF SessionInv, ChainInv, TypeInv, TypeOK
<1>1. CASE \E t \in Tokens : TokenExpires(t)
  <2>1. PICK t \in Tokens : TokenExpires(t)
    BY <1>1
  <2>2. \A s \in Tokens : token'[s] = IF s = t THEN [token[t] EXCEPT !.state = "expired"]
                                       ELSE token[s]
    BY <1>0, <2>1 DEF TokenExpires
  <2>3. UNCHANGED <<loggedOut, forked, handler>>
    BY <2>1 DEF TokenExpires, history
  <2>4. \A s \in Tokens : /\ token'[s].session = token[s].session
                          /\ token'[s].state = "valid" => token[s].state = "valid"
                          /\ token[s].state # "unused" => token'[s].state # "unused"
    BY <1>0, <2>2 DEF TokenRows
  <2> QED
    BY <2>3, <2>4, ChainShrinks
<1>2. ASSUME UNCHANGED <<token, loggedOut, forked, handler>>
      PROVE  SessionInv'
  BY <1>2, ChainShrinks
<1>3. ASSUME NEW u \in Users, RevokeAll(u), UNCHANGED <<loggedOut, forked>>,
             UNCHANGED handler \/ Spare(u)
      PROVE  SessionInv'
  <2>1. ASSUME NEW t \in Tokens
        PROVE  /\ token'[t].session = token[t].session
               /\ token'[t].state = "valid" => token[t].state = "valid"
               /\ token[t].state # "unused" => token'[t].state # "unused"
    <3>1. token'[t] = IF token[t].owner = u THEN [token[t] EXCEPT !.state = "revoked"]
                      ELSE token[t]
      BY <1>3 DEF RevokeAll
    <3> QED
      BY <1>0, <3>1 DEF TokenRows
  <2>2. ASSUME NEW q \in Handlers
        PROVE  /\ handler'[q].session = handler[q].session
               /\ handler'[q].token = handler[q].token
               /\ handler'[q].pc = handler[q].pc
    <3>1. handler'[q] \in {handler[q], [handler[q] EXCEPT !.spared = TRUE]}
      BY <1>3 DEF Spare
    <3> QED
      BY <1>0, <3>1 DEF HandlerStates
  <2> QED
    BY <1>3, <2>1, <2>2, ChainShrinks
<1> QED
  BY <1>1, <1>2, <1>3 DEF UpdateStatus, ResetPassword, DeleteStaffUser, LockPasses,
     sessionVars, userVars, history

-----------------------------------------------------------------------------
(* The steps that move a session from one representative to the next.       *)

\* The handler takes the place of a token that nobody else is refreshing, or the
\* session forks.
LEMMA RefreshFindChain ==
  ASSUME SessionInv, TypeInv', NEW p \in Handlers, NEW t \in Tokens, RefreshFind(p, t)
  PROVE  SessionInv'
<1>0. /\ TypeInv /\ UNCHANGED <<token, loggedOut>> /\ Valid(t)
      /\ forked \subseteq forked'
      /\ InUse(t) => token[t].session \in forked'
  BY DEF SessionInv, ChainInv, RefreshFind, history, Valid
<1>1. \A q \in Handlers \ {p} : handler'[q] = handler[q]
  BY <1>0, BecomeRow DEF RefreshFind
<1>2. /\ handler'[p].session = token[t].session /\ handler'[p].token = t
      /\ handler'[p].pc = "refreshUser"
  BY <1>0, BecomeRow DEF RefreshFind
<1>3. token[t].session \in Tokens /\ token[t].session # None /\ Started(token[t].session)
  BY <1>0, NoUserAssumption DEF SessionInv, ChainInv, TypeInv, Stored, Valid
<1>4. ASSUME token[t].session \notin forked'
      PROVE  /\ \A q \in Handlers : handler[q].session # token[t].session
             /\ \A s \in Tokens : Valid(s) /\ token[s].session = token[t].session => s = t
  <2>1. \A q \in Handlers : handler[q].token # t
    BY <1>0, <1>4 DEF InUse
  <2> QED
    BY <1>0, <1>3, <1>4, <2>1 DEF SessionInv, ChainInv, OneTokenPerSession, Refreshing
<1>5. OneTokenPerSession'
  BY <1>0 DEF SessionInv, ChainInv, OneTokenPerSession, Valid
<1>6. \A q, x \in Handlers :
        /\ Refreshing(q)' /\ handler'[q].session = handler'[x].session
        /\ handler'[q].session \notin forked'
        => q = x
  BY <1>0, <1>1, <1>2, <1>4 DEF SessionInv, ChainInv, Refreshing
<1>7. \A q \in Handlers, s \in Tokens :
        /\ Refreshing(q)' /\ Valid(s)' /\ token'[s].session = handler'[q].session
        /\ token'[s].session \notin forked'
        => handler'[q].token = s /\ handler'[q].pc \in {"refreshUser", "rotate"}
  BY <1>0, <1>1, <1>2, <1>4 DEF SessionInv, ChainInv, Refreshing, Valid
<1>8. ChainInv'
  BY <1>0, <1>1, <1>2, <1>3, <1>5, <1>6, <1>7 DEF SessionInv, ChainInv, Refreshing, Started
<1>9. LogoutInv'
  BY <1>0, <1>1, <1>2 DEF SessionInv, LogoutInv, Unrepresented, Valid, Started
<1> QED
  BY <1>8, <1>9 DEF SessionInv

\* The token refreshed is revoked: its handler alone is left.
LEMMA RotateChain ==
  ASSUME SessionInv, TypeInv', NEW p \in Handlers, Rotate(p)
  PROVE  SessionInv'
<1>0. /\ TypeInv /\ UNCHANGED <<loggedOut, forked>>
      /\ Refreshing(p) /\ handler[p].token \in Tokens
  BY DEF SessionInv, ChainInv, Rotate, history, At, TypeInv, Loaded
<1>1. /\ \A q \in Handlers \ {p} : handler'[q] = handler[q]
      /\ handler'[p].pc = "issue" /\ handler'[p].session = handler[p].session
  BY <1>0, GotoRow DEF Rotate
<1>2. \A t \in Tokens :
        token'[t] = IF t = handler[p].token THEN [token[t] EXCEPT !.state = "revoked"]
                    ELSE token[t]
  BY <1>0 DEF Rotate, TypeInv, TypeOK
<1>3. ASSUME NEW t \in Tokens
      PROVE  /\ token'[t].session = token[t].session
             /\ token'[t].state = "valid" => token[t].state = "valid" /\ t # handler[p].token
             /\ token[t].state # "unused" => token'[t].state # "unused"
  BY <1>0, <1>2 DEF TypeInv, TypeOK, TokenRows
<1>4. OneTokenPerSession'
  BY <1>0, <1>3 DEF SessionInv, ChainInv, OneTokenPerSession, Valid
<1>5. \A q \in Handlers, t \in Tokens :
        /\ Refreshing(q)' /\ Valid(t)' /\ token'[t].session = handler'[q].session
        /\ token'[t].session \notin forked'
        => handler'[q].token = t /\ handler'[q].pc \in {"refreshUser", "rotate"}
  BY <1>0, <1>1, <1>3 DEF SessionInv, ChainInv, Refreshing, Valid
<1>6. \A q, x \in Handlers :
        /\ Refreshing(q)' /\ handler'[q].session = handler'[x].session
        /\ handler'[q].session \notin forked'
        => q = x
  BY <1>0, <1>1 DEF SessionInv, ChainInv, Refreshing
<1>7. /\ \A t \in Tokens : token'[t].session # None => Started(token[t].session)'
      /\ \A q \in Handlers : Refreshing(q)' => Started(handler[q].session)'
  BY <1>1, <1>3 DEF SessionInv, ChainInv, Refreshing, Started
<1>8. \A q \in Handlers :
        /\ Refreshing(q)' => handler'[q].pc \in {"refreshUser", "rotate", "issue"}
        /\ handler'[q].pc \in {"refreshUser", "rotate"} => Refreshing(q)'
  BY <1>1 DEF SessionInv, ChainInv, Refreshing
<1>9. LogoutInv'
  BY <1>0, <1>1, <1>3 DEF SessionInv, LogoutInv, Unrepresented, Started, Valid
<1> QED
  BY <1>4, <1>5, <1>6, <1>7, <1>8, <1>9 DEF SessionInv, ChainInv

\* The new token takes the place of its handler, or starts a session whose name
\* nothing has used before.
LEMMA IssueChain ==
  ASSUME SessionInv, TypeInv', NEW p \in Handlers, Issue(p)
  PROVE  SessionInv'
<1>0. TypeInv /\ UNCHANGED <<loggedOut, forked>> /\ At(p, "issue")
  BY DEF SessionInv, ChainInv, Issue, history
<1>1. /\ \A q \in Handlers \ {p} : handler'[q] = handler[q]
      /\ handler'[p].pc = "idle" /\ handler'[p].session = None
  BY <1>0, ReturnRow DEF Issue
<1> DEFINE session(t) == IF handler[p].session = None THEN t ELSE handler[p].session
<1>2. PICK t \in Tokens :
        /\ token[t].state = "unused"
        /\ token' = [token EXCEPT ![t] =
             [ state |-> "valid", owner |-> User(p), pwd |-> handler[p].pwd,
               spared |-> handler[p].spared, session |-> session(t) ]]
  BY DEF Issue
<1>3. /\ \A s \in Tokens \ {t} : token'[s] = token[s]
      /\ token'[t].state = "valid" /\ token'[t].session = session(t)
  BY <1>0, <1>2 DEF TypeInv, TypeOK
<1>4. /\ session(t) \notin forked =>
           /\ \A s \in Tokens \ {t} : Valid(s) => token[s].session # session(t)
           /\ \A q \in Handlers \ {p} : handler[q].session # session(t)
           /\ session(t) \notin loggedOut
      /\ session(t) \in Tokens /\ token'[session(t)].state # "unused"
  <2>1. CASE handler[p].session = None
    <3>1. session(t) = t /\ ~Started(t) /\ t # None
      BY <1>2, <2>1, NoUserAssumption DEF Started
    <3>2. \A s \in Tokens \ {t} : token[s].session # t
      BY <3>1 DEF SessionInv, ChainInv
    <3>3. \A q \in Handlers \ {p} : handler[q].session # t
      BY <3>1 DEF SessionInv, ChainInv, Refreshing
    <3>4. t \notin loggedOut
      BY <3>1 DEF SessionInv, LogoutInv
    <3> QED
      BY <1>3, <3>1, <3>2, <3>3, <3>4 DEF Started
  <2>2. CASE handler[p].session # None
    <3>1. session(t) = handler[p].session /\ Refreshing(p) /\ Started(handler[p].session)
      BY <2>2 DEF Refreshing, SessionInv, ChainInv
    <3>2. handler[p].session \notin forked =>
            \A s \in Tokens : Valid(s) => token[s].session # handler[p].session
      BY <1>0, <3>1 DEF SessionInv, ChainInv, At
    <3>3. handler[p].session \notin forked =>
            \A q \in Handlers \ {p} : handler[q].session # handler[p].session
      BY <3>1 DEF SessionInv, ChainInv
    <3>4. handler[p].session \notin forked => handler[p].session \notin loggedOut
      BY DEF SessionInv, LogoutInv, Unrepresented
    <3> QED
      BY <1>3, <3>1, <3>2, <3>3, <3>4 DEF Started
  <2> QED
    BY <2>1, <2>2
<1>5. OneTokenPerSession'
  BY <1>0, <1>3, <1>4 DEF SessionInv, ChainInv, OneTokenPerSession, Valid
<1>6. /\ \A q, x \in Handlers :
           /\ Refreshing(q)' /\ handler'[q].session = handler'[x].session
           /\ handler'[q].session \notin forked'
           => q = x
      /\ \A q \in Handlers, s \in Tokens :
           /\ Refreshing(q)' /\ Valid(s)' /\ token'[s].session = handler'[q].session
           /\ token'[s].session \notin forked'
           => handler'[q].token = s /\ handler'[q].pc \in {"refreshUser", "rotate"}
  BY <1>0, <1>1, <1>3, <1>4 DEF SessionInv, ChainInv, Refreshing, Valid
<1>7. /\ \A s \in Tokens : token'[s].session # None => Started(token[s].session)'
      /\ \A q \in Handlers : Refreshing(q)' => Started(handler[q].session)'
  BY <1>1, <1>3, <1>4 DEF SessionInv, ChainInv, Refreshing, Started
<1>8. \A q \in Handlers :
        /\ Refreshing(q)' => handler'[q].pc \in {"refreshUser", "rotate", "issue"}
        /\ handler'[q].pc \in {"refreshUser", "rotate"} => Refreshing(q)'
  BY <1>1 DEF SessionInv, ChainInv, Refreshing
<1>9. LogoutInv'
  BY <1>0, <1>1, <1>3, <1>4, NoUserAssumption
  DEF SessionInv, LogoutInv, Unrepresented, Started, Valid
<1> QED
  BY <1>5, <1>6, <1>7, <1>8, <1>9 DEF SessionInv, ChainInv

\* Logging out takes a representative away, the only one if none is in flight.
LEMMA LogoutChain ==
  ASSUME SessionInv, TypeInv', NEW t \in Tokens, Logout(t)
  PROVE  SessionInv'
<1>0. TypeInv /\ UNCHANGED <<forked, handler>>
  BY DEF SessionInv, ChainInv, Logout
<1>1. \A s \in Tokens : token'[s] = IF s = t THEN [token[t] EXCEPT !.state = "revoked"]
                                     ELSE token[s]
  BY <1>0 DEF Logout, TypeInv, TypeOK
<1>2. ASSUME NEW s \in Tokens
      PROVE  /\ token'[s].session = token[s].session
             /\ token'[s].state = "valid" => token[s].state = "valid" /\ s # t
             /\ token[s].state # "unused" => token'[s].state # "unused"
  BY <1>0, <1>1 DEF TypeInv, TypeOK, TokenRows
<1>3. CASE UNCHANGED loggedOut
  BY <1>0, <1>2, <1>3, ChainShrinks
<1>4. CASE Valid(t) /\ ~Refreshed(token[t].session)
  <2>1. loggedOut' = loggedOut \cup {token[t].session}
    BY <1>4 DEF Logout, Valid
  <2>2. Started(token[t].session)
    BY <1>0, <1>4, NoUserAssumption DEF SessionInv, ChainInv, TypeInv, Stored, Valid
  <2>3. \A q \in Handlers : handler'[q].session # token[t].session
    BY <1>0, <1>4 DEF Refreshed
  <2>4. token[t].session \in forked
        \/ \A s \in Tokens : Valid(s)' => token'[s].session # token[t].session
    BY <1>2, <1>4 DEF SessionInv, ChainInv, OneTokenPerSession, Valid
  <2>5. LogoutInv'
    BY <1>0, <1>2, <2>1, <2>2, <2>3, <2>4
    DEF SessionInv, LogoutInv, Unrepresented, Valid, Started
  <2>6. OneTokenPerSession'
    BY <1>0, <1>2 DEF SessionInv, ChainInv, OneTokenPerSession, Valid
  <2>7. ChainInv'
    BY <1>0, <1>2, <2>6 DEF SessionInv, ChainInv, Refreshing, Valid, Started
  <2> QED
    BY <2>5, <2>7 DEF SessionInv
<1> QED
  BY <1>3, <1>4 DEF Logout, Valid

-----------------------------------------------------------------------------
LEMMA SessionAlways == Spec => []SessionInv
<1>1. ASSUME SessionInv, [Next]_sessionVars PROVE SessionInv'
  <2>1. TypeInv'
    BY <1>1, TypeStep DEF SessionInv, ChainInv
  <2> QED
    BY <1>1, <2>1, LoginChain, AdministrationChain, RefreshFindChain, RotateChain,
       IssueChain, LogoutChain DEF Next, AuthCalls, AdminCalls, Continues
<1> QED
  BY <1>1, SessionInit, PTL DEF Spec

\* Refresh rotation: a session of which no token was refreshed twice at once
\* never has two valid refresh tokens, for any number of handlers, sessions,
\* failures, resets, logouts and suspensions, however they overlap.
THEOREM RotationHolds == Spec => []OneTokenPerSession
<1>1. SessionInv => OneTokenPerSession
  BY DEF SessionInv, ChainInv
<1> QED
  BY <1>1, SessionAlways, PTL

\* Whatever overlaps, a session logged out while no refresh of it was in flight
\* stays out, unless it had forked.
THEOREM LogoutHolds == Spec => []LogoutEndsSession
<1>1. SessionInv => LogoutEndsSession
  BY DEF SessionInv, LogoutInv, Unrepresented, LogoutEndsSession
<1> QED
  BY <1>1, SessionAlways, PTL
=============================================================================
