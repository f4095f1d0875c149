------------------------- MODULE RequestQuotaProofs -------------------------
(***************************************************************************)
(* Theorems about the quota of a match and the ledger of slots it            *)
(* implements, for every value of the constants.                            *)
(***************************************************************************)
EXTENDS RequestWorkflowProofs

-----------------------------------------------------------------------------
(* The counter never passes the largest total, however handlers overlap.    *)

\* Totals, counters and the limit a reservation read never pass the largest
\* total configured so far.
LimitInv ==
  /\ TypeInv
  /\ \A c \in Categories : quotaTotal[c] <= highTotal[c] /\ consumed[c] <= highTotal[c]
  /\ \A p \in Handlers :
       At(p, "reserveTake") => handler[p].limit <= highTotal[handler[p].cat]

\* A command that has just started has no limit in hand.
LEMMA StartsElsewhere ==
  ASSUME TypeInv, NEW p \in Handlers, Starts(p)
  PROVE  /\ handler'[p].pc \notin {"reserveTake", "idle"}
         /\ \A q \in Handlers \ {p} : handler'[q] = handler[q]
         /\ UNCHANGED <<accepting, requestVars, complement, badgeVars, quotaVars>>
<1>1. handler \in [Handlers -> LoadedStates]
  BY DEF TypeInv
<1>2. ASSUME NEW place \in Places \ {"reserveTake", "idle"}, NEW r, NEW to, NEW k,
             Become(p, Loaded(place, r, to, k)) \/ Become(p, Drafting(place, r, to))
      PROVE  /\ handler'[p].pc \notin {"reserveTake", "idle"}
             /\ \A q \in Handlers \ {p} : handler'[q] = handler[q]
  BY <1>1, <1>2, BecomeRow DEF Loaded, Drafting
<1>3. UNCHANGED <<accepting, requestVars, complement, badgeVars, quotaVars>>
  BY DEF Starts, RequesterStarts, StaffStarts,
         SaveDraftFind, SubmitRead, ComplementRead, CancelRead, ResolveRead,
     PatchRead, DecideRead
<1> QED
  BY <1>2, <1>3 DEF Starts, RequesterStarts, StaffStarts,
         SaveDraftFind, SubmitRead, ComplementRead, CancelRead,
     ResolveRead, PatchRead, DecideRead, Checked, Places

\* A step of a handler in flight changes its own record only.
LEMMA ContinuesAlone ==
  ASSUME TypeInv, NEW p \in Handlers, Continues(p) \/ Abort(p)
  PROVE  /\ ~At(p, "idle")
         /\ handler[p] \in LoadedStates /\ handler[p].req \in Requests
         /\ \A q \in Handlers \ {p} : handler'[q] = handler[q]
<1>1. handler \in [Handlers -> LoadedStates]
  BY DEF TypeInv
<1>2. ~At(p, "idle")
  BY DEF Continues, Abort, At, DraftUpdate, DraftCreate, SubmitCheck, SubmitWrite, PatchWrite,
     ComplementWrite, ResolveMark, ResolveCount, ResolveWrite, ReserveRead, ReserveTake,
     DecideWrite, CreateBadge, StoreBadge, DecideFinish, CancelWrite, ReleaseRead,
     ReleaseWrite
<1>3. \E s : Become(p, s)
  BY DEF Continues, Abort, DraftUpdate, DraftCreate, SubmitCheck, SubmitWrite, PatchWrite,
     ComplementWrite, ResolveMark, ResolveCount, ResolveWrite, ReserveRead, ReserveTake,
     DecideWrite, CreateBadge, StoreBadge, DecideFinish, CancelWrite, ReleaseRead,
     ReleaseWrite, Goto, Return
<1> QED
  BY <1>1, <1>2, <1>3, BecomeRow DEF LoadedStates, At

\* The reading of the total is the only step that puts a limit in hand.
LEMMA ContinuesLimit ==
  ASSUME TypeInv, NEW p \in Handlers, Continues(p) \/ Abort(p),
         handler'[p].pc = "reserveTake"
  PROVE  /\ ReserveRead(p)
         /\ handler'[p].limit = quotaTotal[handler[p].cat]
         /\ handler'[p].cat = handler[p].cat /\ handler[p].cat \in Categories
<1>1. handler \in [Handlers -> LoadedStates] /\ handler[p] \in HandlerStates
  BY DEF TypeInv, LoadedStates
<1>2. ~Return(p)
  BY <1>1, BecomeRow DEF Return, IdleHandler
<1>3. ASSUME NEW place \in Places \ {"reserveTake"}
      PROVE  ~Goto(p, place)
  <2>1. [handler[p] EXCEPT !.pc = place].pc = place
    BY <1>1 DEF HandlerStates
  <2> QED
    BY <1>1, <2>1, BecomeRow DEF Goto
<1>4. ~SubmitCheck(p)
  <2>1. ASSUME NEW d, Become(p, [handler[p] EXCEPT !.pc = "submitWrite", !.dup = d])
        PROVE  FALSE
    <3>1. [handler[p] EXCEPT !.pc = "submitWrite", !.dup = d].pc = "submitWrite"
      BY <1>1 DEF HandlerStates
    <3> QED
      BY <1>1, <2>1, <3>1, BecomeRow
  <2> QED
    BY <1>2, <2>1 DEF SubmitCheck
<1>5. ~ReserveTake(p)
  <2>1. [handler[p] EXCEPT !.pc = "decideWrite", !.limit = 0].pc = "decideWrite"
    BY <1>1 DEF HandlerStates
  <2> QED
    BY <1>1, <1>2, <2>1, BecomeRow DEF ReserveTake
<1>6. ReserveRead(p)
  BY <1>2, <1>3, <1>4, <1>5
     DEF Continues, Abort, DraftUpdate, DraftCreate, SubmitWrite, PatchWrite,
     ComplementWrite, ResolveMark, ResolveCount, ResolveWrite, DecideWrite, CreateBadge,
     StoreBadge, DecideFinish, CancelWrite, ReleaseRead, ReleaseWrite, Places
<1>7. handler'[p] = [handler[p] EXCEPT !.pc = "reserveTake", !.limit = quotaTotal[handler[p].cat]]
  BY <1>1, <1>2, <1>6, BecomeRow DEF ReserveRead
<1>8. handler[p].cat \in Categories
  BY <1>1, <1>6 DEF ReserveRead, At, TypeInv, LoadedStates, UsesCategory
<1> QED
  BY <1>1, <1>6, <1>7, <1>8 DEF HandlerStates

\* What a step of a handler in flight does to the quota rows.
LEMMA ContinuesQuota ==
  ASSUME NEW p \in Handlers, Continues(p) \/ Abort(p)
  PROVE  \/ /\ ReserveTake(p)
            /\ ConsumeSlotBelow(handler[p].cat, handler[p].limit)
            /\ Become(p, [handler[p] EXCEPT !.pc = "decideWrite", !.limit = 0])
         \/ ReleaseWrite(p) /\ GiveBackSlot(handler[p].cat)
         \/ UNCHANGED quotaVars
  BY DEF Continues, Abort, DraftUpdate, DraftCreate, SubmitCheck, SubmitWrite, PatchWrite,
     ComplementWrite, ResolveMark, ResolveCount, ResolveWrite, ReserveRead, ReserveTake,
     DecideWrite, CreateBadge, StoreBadge, DecideFinish, CancelWrite, ReleaseRead,
     ReleaseWrite

\* Every step keeps the bound.
LEMMA LimitStep == LimitInv /\ [Next]_vars => LimitInv'
<1> SUFFICES ASSUME LimitInv, [Next]_vars PROVE LimitInv'
  OBVIOUS
<1>t. TypeInv /\ QuotasTypeOK /\ handler \in [Handlers -> LoadedStates]
  BY DEF LimitInv, TypeInv
<1>u. TypeInv'
  BY <1>t, TypeStarts, TypeContinues, TypeEnvironment DEF Next
<1>1. ASSUME NEW p \in Handlers, Starts(p) PROVE LimitInv'
  BY <1>1, <1>t, <1>u, StartsElsewhere DEF LimitInv, At, quotaVars
<1>2. ASSUME NEW p \in Handlers, Continues(p) \/ Abort(p) PROVE LimitInv'
  <2>1. /\ highTotal' = highTotal /\ quotaTotal' = quotaTotal
        /\ \A c \in Categories : consumed'[c] <= highTotal[c]
    <3>1. CASE /\ ReserveTake(p)
               /\ ConsumeSlotBelow(handler[p].cat, handler[p].limit)
      <4> DEFINE c == handler[p].cat
                 n == handler[p].limit
      <4>1. c \in Categories /\ n \in Nat
        BY <3>1, <1>t DEF ReserveTake, At, LoadedStates, UsesCategory, HandlerStates
      <4>2. n <= highTotal[c]
        BY <3>1 DEF LimitInv, ReserveTake
      <4>3. consumed[c] < n /\ consumed' = [consumed EXCEPT ![c] = @ + 1]
            /\ highTotal' = highTotal /\ quotaTotal' = quotaTotal
        BY <3>1 DEF ConsumeSlotBelow
      <4>4. ASSUME NEW x \in Categories PROVE consumed'[x] <= highTotal[x]
        <5>1. consumed[c] \in Int /\ highTotal[c] \in Nat /\ consumed[x] <= highTotal[x]
          BY <1>t, <4>1 DEF QuotasTypeOK, LimitInv
        <5>2. consumed'[x] = IF x = c THEN consumed[c] + 1 ELSE consumed[x]
          BY <1>t, <4>1, <4>3 DEF QuotasTypeOK
        <5> QED
          BY <4>1, <4>2, <4>3, <5>1, <5>2
      <4> QED
        BY <4>3, <4>4
    <3>2. CASE GiveBackSlot(handler[p].cat)
      <4>1. ASSUME NEW x \in Categories PROVE consumed'[x] <= highTotal[x]
        <5>1. consumed[x] \in Int /\ highTotal[x] \in Nat /\ consumed[x] <= highTotal[x]
          BY <1>t DEF QuotasTypeOK, LimitInv
        <5>2. consumed'[x] = IF x = handler[p].cat THEN consumed[x] - 1 ELSE consumed[x]
          BY <3>2, <1>t DEF GiveBackSlot, QuotasTypeOK
        <5> QED
          BY <5>1, <5>2
      <4> QED
        BY <3>2, <4>1 DEF GiveBackSlot
    <3>3. CASE UNCHANGED quotaVars
      BY <3>3 DEF quotaVars, LimitInv
    <3> QED
      BY <1>2, <3>1, <3>2, <3>3, ContinuesQuota
  <2>2. ASSUME NEW q \in Handlers, handler'[q].pc = "reserveTake"
        PROVE  handler'[q].limit <= highTotal[handler'[q].cat]
    <3>1. CASE q = p
      BY <1>2, <1>t, <2>2, <3>1, ContinuesLimit DEF LimitInv
    <3>2. CASE q # p
      BY <1>2, <1>t, <2>2, <3>2, ContinuesAlone DEF LimitInv, At
    <3> QED
      BY <3>1, <3>2
  <2> QED
    BY <1>u, <2>1, <2>2 DEF LimitInv, At
<1>3. ASSUME NEW c \in Categories, NEW total \in 0..MaxTotal, ConfigureQuota(c, total)
      PROVE  LimitInv'
  <2>1. /\ handler' = handler /\ consumed' = consumed
        /\ quotaTotal' = [quotaTotal EXCEPT ![c] = total]
        /\ highTotal' = [highTotal EXCEPT ![c] = IF total > @ THEN total ELSE @]
    BY <1>3 DEF ConfigureQuota, SetQuota
  <2>2. total \in Nat
    BY MaxTotalAssumption
  <2>3. ASSUME NEW x \in Categories
        PROVE  /\ highTotal[x] \in Nat /\ highTotal'[x] \in Nat
               /\ highTotal[x] <= highTotal'[x] /\ quotaTotal'[x] <= highTotal'[x]
    BY <1>t, <2>1, <2>2 DEF QuotasTypeOK, LimitInv
  <2>4. \A x \in Categories : consumed'[x] <= highTotal'[x]
    BY <1>t, <2>1, <2>3 DEF QuotasTypeOK, LimitInv
  <2>5. ASSUME NEW q \in Handlers, At(q, "reserveTake")
        PROVE  handler[q].limit <= highTotal'[handler[q].cat]
    <3>1. handler[q].cat \in Categories /\ handler[q].limit \in Nat
      BY <1>t, <2>5 DEF At, LoadedStates, UsesCategory, HandlerStates
    <3>2. handler[q].limit <= highTotal[handler[q].cat]
      BY <2>5 DEF LimitInv
    <3> QED
      BY <2>3, <3>1, <3>2
  <2> QED
    BY <1>u, <2>1, <2>3, <2>4, <2>5 DEF LimitInv, At
<1>4. CASE WindowChanges \/ UNCHANGED vars
  BY <1>4, <1>u DEF WindowChanges, vars, quotaVars, LimitInv, At
<1> QED
  BY <1>1, <1>2, <1>3, <1>4 DEF Next

\* The counter of a quota row never passes the largest total configured for it,
\* for any number of handlers, commands that overlap, and failures.
THEOREM CounterWithinTotal == Spec => []WithinHighTotal
<1>1. Init => LimitInv
  BY TypeInit DEF LimitInv, Init, QuotasInit, NoRow, At, IdleHandler
<1>2. LimitInv => WithinHighTotal
  BY DEF LimitInv, WithinHighTotal
<1> QED
  BY <1>1, <1>2, LimitStep, PTL DEF Spec

-----------------------------------------------------------------------------
(* What a command writes, when the commands on one request do not overlap.  *)

\* What a step of a handler in flight does to the status and the category of
\* its request; it touches no other request.
LEMMA ContinuesStatus ==
  ASSUME SerialInv, NEW p \in Handlers, Continues(p),
         NEW r, r = handler[p].req
  PROVE  /\ \A x \in Requests : x # r => status'[x] = status[x] /\ category'[x] = category[x]
         /\ \/ status'[r] = status[r]
            \/ status[r] = None /\ status'[r] = "DRAFT"
            \/ TransitionAllowed(status[r], status'[r])
         /\ \/ status'[r] = status[r]
            \/ status'[r] # "VALIDATED"
            \/ HasSlotInHand(p) \/ "VALIDATED" \in PatchTargets
         /\ category'[r] = category[r] \/ status'[r] = "DRAFT"
<1>1. ~At(p, "idle") /\ TypeInv
  BY ContinuesAlone DEF SerialInv
<1>2. /\ r \in Requests
      /\ Agrees(handler[p], status[r], category[r])
      /\ status \in [Requests -> RequestStatusValues \cup {None}]
      /\ category \in [Requests -> Categories \cup {None}]
  BY <1>1, InHand DEF TypeInv, RowsTyped
<1>3. CASE DraftUpdate(p) \/ DraftCreate(p)
  BY <1>2, <1>3 DEF DraftUpdate, DraftCreate, Agrees, At
<1>4. CASE SubmitWrite(p) \/ ComplementWrite(p) \/ ResolveWrite(p)
  BY <1>2, <1>4 DEF SubmitWrite, ComplementWrite, ResolveWrite, WriteDecision, Agrees, At,
     TransitionAllowed, REQUEST_TRANSITIONS
<1>5. CASE PatchWrite(p)
  BY <1>2, <1>5 DEF PatchWrite, WriteDecision, Agrees, At
<1>6. CASE DecideWrite(p)
  BY <1>2, <1>6 DEF DecideWrite, WriteDecision, Agrees, At, HasSlotInHand
<1>7. CASE DecideFinish(p) \/ CancelWrite(p)
  BY <1>2, <1>7 DEF DecideFinish, CancelWrite, WriteDecision, Agrees, At,
     TransitionAllowed, REQUEST_TRANSITIONS
<1>8. CASE UNCHANGED requestVars
  BY <1>8 DEF requestVars
<1> QED
  BY <1>3, <1>4, <1>5, <1>6, <1>7, <1>8
     DEF Continues, SubmitCheck, ResolveMark, ResolveCount, ReserveRead, ReserveTake,
         CreateBadge, StoreBadge, ReleaseRead, ReleaseWrite

-----------------------------------------------------------------------------
(* Slots are accounted for, when the commands on one request do not overlap. *)

\* The steps after which a handler has a slot in hand.
LEMMA SlotComesFrom ==
  ASSUME TypeInv, NEW p \in Handlers, Continues(p), HasSlotInHand(p)'
  PROVE  \/ ReserveTake(p)
         \/ CancelWrite(p) /\ handler[p].seen \in StatusesWithReservedQuota
         \/ ReleaseRead(p)
<1>1. handler \in [Handlers -> LoadedStates] /\ handler[p] \in HandlerStates
  BY DEF TypeInv, LoadedStates
<1>2. handler'[p].pc \in {"decideWrite", "releaseRead", "releaseWrite"}
  BY DEF HasSlotInHand, At
<1>3. ~Return(p)
  BY <1>1, <1>2, BecomeRow DEF Return, IdleHandler
<1>4. ASSUME NEW place \in Places \ {"decideWrite", "releaseRead", "releaseWrite"}
      PROVE  ~Goto(p, place)
  <2>1. [handler[p] EXCEPT !.pc = place].pc = place
    BY <1>1 DEF HandlerStates
  <2> QED
    BY <1>1, <1>2, <2>1, BecomeRow DEF Goto
<1>5. ~SubmitCheck(p)
  <2>1. ASSUME NEW d, Become(p, [handler[p] EXCEPT !.pc = "submitWrite", !.dup = d])
        PROVE  FALSE
    <3>1. [handler[p] EXCEPT !.pc = "submitWrite", !.dup = d].pc = "submitWrite"
      BY <1>1 DEF HandlerStates
    <3> QED
      BY <1>1, <1>2, <2>1, <3>1, BecomeRow
  <2> QED
    BY <1>3, <2>1 DEF SubmitCheck
<1>6. ~ReserveRead(p)
  <2> DEFINE n == quotaTotal[handler[p].cat]
  <2>1. [handler[p] EXCEPT !.pc = "reserveTake", !.limit = n].pc = "reserveTake"
    BY <1>1 DEF HandlerStates
  <2> QED
    BY <1>1, <1>2, <1>3, <2>1, BecomeRow DEF ReserveRead
<1> QED
  BY <1>3, <1>4, <1>5, <1>6
     DEF Continues, DraftUpdate, DraftCreate, SubmitWrite, PatchWrite, ComplementWrite,
         ResolveMark, ResolveCount, ResolveWrite, DecideWrite, CreateBadge, StoreBadge,
         DecideFinish, CancelWrite, ReleaseWrite, Places

\* A handler stays with its request until it returns.
LEMMA SameRequest ==
  ASSUME TypeInv, NEW p \in Handlers, Continues(p) \/ Abort(p)
  PROVE  handler'[p].req \in {handler[p].req, None}
<1>1. handler \in [Handlers -> LoadedStates] /\ handler[p] \in HandlerStates
  BY DEF TypeInv, LoadedStates
<1>2. CASE Return(p)
  BY <1>1, <1>2, BecomeRow DEF Return, IdleHandler
<1>3. ASSUME NEW place, Goto(p, place)
      PROVE  handler'[p].req = handler[p].req
  <2>1. [handler[p] EXCEPT !.pc = place].req = handler[p].req
    BY <1>1 DEF HandlerStates
  <2> QED
    BY <1>1, <1>3, <2>1, BecomeRow DEF Goto
<1>4. CASE SubmitCheck(p)
  <2>1. ASSUME NEW d, Become(p, [handler[p] EXCEPT !.pc = "submitWrite", !.dup = d])
        PROVE  handler'[p].req = handler[p].req
    <3>1. [handler[p] EXCEPT !.pc = "submitWrite", !.dup = d].req = handler[p].req
      BY <1>1 DEF HandlerStates
    <3> QED
      BY <1>1, <2>1, <3>1, BecomeRow
  <2> QED
    BY <1>2, <1>4, <2>1 DEF SubmitCheck
<1>5. CASE ReserveRead(p) \/ ReserveTake(p)
  <2>1. ASSUME NEW place, NEW n,
               Become(p, [handler[p] EXCEPT !.pc = place, !.limit = n])
        PROVE  handler'[p].req = handler[p].req
    <3>1. [handler[p] EXCEPT !.pc = place, !.limit = n].req = handler[p].req
      BY <1>1 DEF HandlerStates
    <3> QED
      BY <1>1, <2>1, <3>1, BecomeRow
  <2> QED
    BY <1>2, <1>5, <2>1 DEF ReserveRead, ReserveTake
<1> QED
  BY <1>2, <1>3, <1>4, <1>5
     DEF Continues, Abort, DraftUpdate, DraftCreate, SubmitWrite, PatchWrite, ComplementWrite,
         ResolveMark, ResolveCount, ResolveWrite, DecideWrite, CreateBadge, StoreBadge,
         DecideFinish, CancelWrite, ReleaseRead, ReleaseWrite

\* The requests that account for a slot of c are those of a finite set.
LEMMA ClaimsFinite ==
  ASSUME NEW c \in Categories
  PROVE  /\ Claims(c) \subseteq Requests
         /\ IsFiniteSet(Claims(c)) /\ Cardinality(Claims(c)) \in Nat
<1>1. Claims(c) \subseteq Requests
  BY DEF Claims, Holders
<1> QED
  BY <1>1, RequestsAssumption, FS_Subset, FS_CardinalityType

\* A step of a handler in flight adds no request to those that account for a
\* slot, except the one a slot was just taken for.
LEMMA ContinuesClaims ==
  ASSUME SerialInv, "VALIDATED" \notin PatchTargets, NEW p \in Handlers,
         Continues(p) \/ Abort(p), NEW c \in Categories, NEW x \in Claims(c)'
  PROVE  \/ x \in Claims(c)
         \/ /\ ReserveTake(p) /\ HasSlotInHand(p)'
            /\ x = handler[p].req /\ c = handler[p].cat
<1> DEFINE r == handler[p].req
<1>1. /\ TypeInv /\ ~At(p, "idle")
      /\ \A q \in Handlers \ {p} : handler'[q] = handler[q]
      /\ handler'[p].req \in {r, None}
  BY ContinuesAlone, SameRequest DEF SerialInv
<1>2. /\ r \in Requests /\ x \in Requests
      /\ Agrees(handler[p], status[r], category[r])
      /\ \A q \in Handlers \ {p} : handler[q].req # r
      /\ category'[x] = c
  BY <1>1, InHand DEF Claims, Holders
<1>3. \/ status'[x] \in StatusesWithReservedQuota
      \/ \E q \in Handlers : handler'[q].req = x /\ HasSlotInHand(q)'
  BY DEF Claims, Holders
<1>4. /\ \A y \in Requests : y # r => status'[y] = status[y] /\ category'[y] = category[y]
      /\ Abort(p) => UNCHANGED <<status, category>>
      /\ Abort(p) => ~HasSlotInHand(p)'
  <2>1. Abort(p) => UNCHANGED <<status, category>>
    BY DEF Abort, requestVars
  <2>2. Abort(p) => ~HasSlotInHand(p)'
    BY <1>1, BecomeRow DEF Abort, Return, IdleHandler, HasSlotInHand, At, TypeInv
  <2> QED
    BY <2>1, <2>2, ContinuesStatus
<1>5. CASE x # r
  <2>1. status'[x] = status[x] /\ category'[x] = category[x]
    BY <1>2, <1>4, <1>5
  <2>2. ASSUME NEW q \in Handlers, handler'[q].req = x, HasSlotInHand(q)'
        PROVE  handler[q].req = x /\ HasSlotInHand(q)
    <3>1. q # p
      BY <1>1, <1>2, <1>5, <2>2, NoneAssumption
    <3> QED
      BY <1>1, <2>2, <3>1 DEF HasSlotInHand, At
  <2> QED
    BY <1>2, <1>3, <2>1, <2>2 DEF Claims, Holders
<1>6. CASE x = r
  <2>1. \/ status'[r] \in StatusesWithReservedQuota
        \/ HasSlotInHand(p)'
    <3>1. \A q \in Handlers \ {p} : handler'[q].req # r
      BY <1>1, <1>2
    <3> QED
      BY <1>3, <1>6, <3>1
  <2>2. CASE status'[r] \in StatusesWithReservedQuota
    <3>1. category'[r] = category[r]
      BY <1>4, <2>2, ContinuesStatus DEF StatusesWithReservedQuota
    <3>2. status[r] \in StatusesWithReservedQuota \/ HasSlotInHand(p)
      BY <1>4, <2>2, ContinuesStatus
         DEF StatusesWithReservedQuota, TransitionAllowed, REQUEST_TRANSITIONS
    <3> QED
      BY <1>2, <1>6, <3>1, <3>2 DEF Claims, Holders
  <2>3. CASE HasSlotInHand(p)'
    <3>1. CASE ReserveTake(p)
      <4>1. category'[r] = category[r]
        BY <3>1 DEF ReserveTake, requestVars
      <4>2. category[r] = handler[p].cat
        BY <1>2, <3>1 DEF ReserveTake, Agrees, At, UsesCategory
      <4> QED
        BY <1>2, <1>6, <2>3, <3>1, <4>1, <4>2
    <3>2. CASE CancelWrite(p) /\ handler[p].seen \in StatusesWithReservedQuota
      <4>1. category' = category /\ status[r] \in StatusesWithReservedQuota
        BY <1>2, <3>2 DEF CancelWrite, Agrees, At
      <4> QED
        BY <1>2, <1>6, <4>1 DEF Claims, Holders
    <3>3. CASE ReleaseRead(p)
      <4>1. category' = category /\ HasSlotInHand(p)
        BY <3>3 DEF ReleaseRead, HasSlotInHand, requestVars
      <4> QED
        BY <1>2, <1>6, <4>1 DEF Claims
    <3> QED
      BY <1>1, <1>4, <2>3, <3>1, <3>2, <3>3, SlotComesFrom
  <2> QED
    BY <2>1, <2>2, <2>3
<1> QED
  BY <1>5, <1>6

\* The command that has just started has no slot in hand.
LEMMA StartsClaims ==
  ASSUME SerialInv, ~AllowOverride, NEW p \in Handlers, Starts(p), NEW c \in Categories
  PROVE  Claims(c)' \subseteq Claims(c)
<1>1. /\ \A q \in Handlers \ {p} : handler'[q] = handler[q]
      /\ status' = status /\ category' = category
      /\ handler \in [Handlers -> LoadedStates]
  BY StartsElsewhere DEF SerialInv, TypeInv, requestVars
<1>2. ASSUME NEW place \in Places \ {"releaseRead", "releaseWrite"},
             NEW r, NEW to, NEW k,
             place = "decideWrite" => to = "REJECTED",
             Become(p, Loaded(place, r, to, k))
      PROVE  ~HasSlotInHand(p)'
  BY <1>1, <1>2, BecomeRow DEF Loaded, HasSlotInHand, At
<1>3. ASSUME NEW place \in {"draftUpdate", "draftCreate"}, NEW r, NEW d,
             Become(p, Drafting(place, r, d))
      PROVE  ~HasSlotInHand(p)'
  BY <1>1, <1>3, BecomeRow DEF Drafting, HasSlotInHand, At
<1>4. ~HasSlotInHand(p)'
  BY <1>2, <1>3 DEF Starts, RequesterStarts, StaffStarts,
         SaveDraftFind, SubmitRead, ComplementRead, CancelRead,
     ResolveRead, PatchRead, DecideRead, Checked, Places
<1>5. \A q \in Handlers : HasSlotInHand(q)' => HasSlotInHand(q) /\ handler'[q] = handler[q]
  BY <1>1, <1>4 DEF HasSlotInHand, At
<1> QED
  BY <1>1, <1>5 DEF Claims, Holders

\* Every request that holds a slot or has one in hand is paid for, and no more
\* slots are paid for than were ever granted.
SlotInv == SerialInv /\ LimitInv /\ SlotsAccounted

\* A smaller set of claims is still accounted for.
LEMMA FewerClaims ==
  ASSUME NEW c \in Categories, Claims(c)' \subseteq Claims(c)
  PROVE  /\ Cardinality(Claims(c)') \in Nat
         /\ Cardinality(Claims(c)') <= Cardinality(Claims(c))
<1>1. IsFiniteSet(Claims(c))
  BY ClaimsFinite
<1> QED
  BY <1>1, FS_Subset, FS_CardinalityType

\* A step of a handler in flight keeps the slots accounted for.
LEMMA ContinuesAccounted ==
  ASSUME SlotInv, "VALIDATED" \notin PatchTargets, NEW p \in Handlers,
         Continues(p) \/ Abort(p), NEW c \in Categories
  PROVE  Cardinality(Claims(c)') <= consumed'[c]
<1> DEFINE r == handler[p].req
           d == handler[p].cat
<1>1. /\ SerialInv /\ TypeInv /\ ~At(p, "idle")
      /\ consumed \in [Categories -> Int]
      /\ Cardinality(Claims(c)) \in Nat /\ Cardinality(Claims(c)) <= consumed[c]
      /\ IsFiniteSet(Claims(c))
  BY ContinuesAlone, ClaimsFinite DEF SlotInv, SerialInv, TypeInv, QuotasTypeOK, SlotsAccounted
<1>2. /\ r \in Requests /\ handler[p] \in LoadedStates
      /\ Agrees(handler[p], status[r], category[r])
      /\ \A q \in Handlers \ {p} : handler[q].req # r
  BY <1>1, InHand, ContinuesAlone
<1>3. CASE ReserveTake(p) /\ ConsumeSlotBelow(d, handler[p].limit)
  <2>1. d \in Categories /\ ConsumeSlotBelow(d, handler[p].limit)
    BY <1>2, <1>3 DEF ReserveTake, At, LoadedStates, UsesCategory
  <2>2. consumed'[c] = IF c = d THEN consumed[c] + 1 ELSE consumed[c]
    BY <1>1, <2>1 DEF ConsumeSlotBelow
  <2>3. CASE c = d
    <3>1. Claims(c)' \subseteq Claims(c) \cup {r}
      BY <1>1, ContinuesClaims
    <3>2. /\ IsFiniteSet(Claims(c) \cup {r})
          /\ Cardinality(Claims(c) \cup {r}) \in Nat
          /\ Cardinality(Claims(c) \cup {r}) <= Cardinality(Claims(c)) + 1
      <4>1. /\ IsFiniteSet(Claims(c) \cup {r})
            /\ Cardinality(Claims(c) \cup {r}) =
                 IF r \in Claims(c) THEN Cardinality(Claims(c)) ELSE Cardinality(Claims(c)) + 1
        BY <1>1, FS_AddElement
      <4> QED
        BY <1>1, <4>1
    <3>3. /\ Cardinality(Claims(c)') \in Nat
          /\ Cardinality(Claims(c)') <= Cardinality(Claims(c) \cup {r})
      BY <3>1, <3>2, FS_Subset, FS_CardinalityType
    <3> QED
      BY <1>1, <2>2, <2>3, <3>2, <3>3
  <2>4. CASE c # d
    <3>1. Claims(c)' \subseteq Claims(c)
      BY <1>1, <2>4, ContinuesClaims
    <3> QED
      BY <1>1, <2>2, <2>4, <3>1, FewerClaims
  <2> QED
    BY <2>3, <2>4
<1>4. CASE ReleaseWrite(p)
  <2>1. d \in Categories /\ GiveBackSlot(d) /\ ~ReserveTake(p)
    BY <1>2, <1>4 DEF ReleaseWrite, ReserveTake, At, LoadedStates, UsesCategory
  <2>2. consumed'[c] = IF c = d THEN consumed[c] - 1 ELSE consumed[c]
    BY <1>1, <2>1 DEF GiveBackSlot
  <2>3. Claims(c)' \subseteq Claims(c)
    BY <1>1, <2>1, ContinuesClaims
  <2>4. CASE c = d
    <3>1. r \in Claims(c)
      BY <1>2, <1>4, <2>4 DEF ReleaseWrite, At, Agrees, UsesCategory, Claims, HasSlotInHand
    <3>2. r \notin Claims(c)'
      <4>1. status'[r] = "CANCELLED"
        BY <1>2, <1>4 DEF ReleaseWrite, At, Agrees, requestVars
      <4>2. ASSUME NEW q \in Handlers, handler'[q].req = r PROVE ~HasSlotInHand(q)'
        <5>1. q = p
          BY <1>1, <1>2, <4>2, ContinuesAlone
        <5>2. Become(p, IdleHandler) /\ handler \in [Handlers -> LoadedStates]
          BY <1>1, <1>4 DEF ReleaseWrite, Return, TypeInv
        <5>3. handler'[q].pc = "idle"
          BY <5>1, <5>2, BecomeRow DEF IdleHandler
        <5> QED
          BY <5>3 DEF HasSlotInHand, At
      <4> QED
        BY <4>1, <4>2 DEF Claims, Holders, StatusesWithReservedQuota
    <3>3. Claims(c)' \subseteq Claims(c) \ {r}
      BY <2>3, <3>2
    <3>4. /\ IsFiniteSet(Claims(c) \ {r})
          /\ Cardinality(Claims(c) \ {r}) = Cardinality(Claims(c)) - 1
      <4>1. IsFiniteSet(Claims(c))
        BY <1>1
      <4> QED
        BY <3>1, <4>1, FS_RemoveElement
    <3>5. /\ Cardinality(Claims(c)') \in Nat
          /\ Cardinality(Claims(c)') <= Cardinality(Claims(c) \ {r})
      BY <3>3, <3>4, FS_Subset, FS_CardinalityType
    <3> QED
      BY <1>1, <2>2, <2>4, <3>4, <3>5
  <2>5. CASE c # d
    BY <1>1, <2>2, <2>3, <2>5, FewerClaims
  <2> QED
    BY <2>4, <2>5
<1>5. CASE UNCHANGED quotaVars
  <2>1. Claims(c)' \subseteq Claims(c)
    <3>1. Return(p) => ~HasSlotInHand(p)'
      BY <1>1, BecomeRow DEF Return, IdleHandler, HasSlotInHand, At, TypeInv
    <3>2. ReserveTake(p) => d \in Categories
      BY <1>2 DEF ReserveTake, At, LoadedStates, UsesCategory
    <3>3. d \in Categories => ~ConsumeSlotBelow(d, handler[p].limit)
      BY <1>1, <1>5 DEF ConsumeSlotBelow, quotaVars
    <3>4. ReserveTake(p) => Return(p)
      BY <3>2, <3>3 DEF ReserveTake
    <3> QED
      BY <1>1, <3>1, <3>4, ContinuesClaims
  <2> QED
    BY <1>1, <1>5, <2>1, FewerClaims DEF quotaVars
<1> QED
  BY <1>3, <1>4, <1>5, ContinuesQuota

\* The counter covers every request that holds a slot or has one in hand, when
\* commands on one request do not overlap, no administrator overrides the quota
\* and PATCH is not used to validate: whatever fails, a slot is never handed out
\* twice.
THEOREM SlotsCovered ==
  ASSUME Serialised, ~AllowOverride, "VALIDATED" \notin PatchTargets
  PROVE  Spec => []SlotsAccounted
<1>1. Init => SlotInv
  <2> SUFFICES ASSUME Init PROVE SlotInv
    OBVIOUS
  <2>1. SerialInv /\ LimitInv
    BY SerialInit, TypeInit DEF LimitInv, Init, QuotasInit, NoRow, At, IdleHandler
  <2>2. ASSUME NEW c \in Categories PROVE Cardinality(Claims(c)) <= consumed[c]
    <3>1. Claims(c) = {}
      BY NoneAssumption DEF Init, Claims, Holders, HasSlotInHand, At, IdleHandler,
         StatusesWithReservedQuota, RequestStatusValues
    <3> QED
      BY <3>1, FS_EmptySet DEF Init, QuotasInit
  <2> QED
    BY <2>1, <2>2 DEF SlotInv, SlotsAccounted
<1>2. SlotInv /\ [Next]_vars => SlotInv'
  <2> SUFFICES ASSUME SlotInv, [Next]_vars PROVE SlotInv'
    OBVIOUS
  <2>1. SerialInv' /\ LimitInv'
    BY SerialStarts, SerialContinues, SerialEnvironment, LimitStep DEF SlotInv, Next
  <2>2. ASSUME NEW c \in Categories PROVE Cardinality(Claims(c)') <= consumed'[c]
    <3>1. /\ Cardinality(Claims(c)) \in Nat /\ Cardinality(Claims(c)) <= consumed[c]
          /\ consumed[c] \in Int
      BY ClaimsFinite DEF SlotInv, SlotsAccounted, SerialInv, TypeInv, QuotasTypeOK
    <3>2. ASSUME NEW p \in Handlers, Starts(p)
          PROVE  Cardinality(Claims(c)') <= consumed'[c]
      BY <3>1, <3>2, StartsClaims, FewerClaims, StartsElsewhere DEF SlotInv, SerialInv, quotaVars
    <3>3. CASE UNCHANGED <<status, category, handler, consumed>>
      BY <3>1, <3>3 DEF Claims, Holders, HasSlotInHand, At
    <3> QED
      BY <3>2, <3>3, ContinuesAccounted
         DEF Next, ConfigureQuota, SetQuota, WindowChanges, vars, requestVars, quotaVars
  <2> QED
    BY <2>1, <2>2 DEF SlotInv, SlotsAccounted
<1>3. SlotInv => SlotsAccounted
  BY DEF SlotInv
<1> QED
  BY <1>1, <1>2, <1>3, PTL DEF Spec

\* Under the same conditions the requests that hold a slot never outnumber the
\* largest total configured: the claims are covered by the counter, and the
\* counter by the total.
THEOREM NeverOversold ==
  ASSUME Serialised, ~AllowOverride, "VALIDATED" \notin PatchTargets
  PROVE  Spec => []NoOversell
<1>1. TypeOK /\ SlotsAccounted /\ WithinHighTotal => NoOversell
  <2> SUFFICES ASSUME TypeOK, SlotsAccounted, WithinHighTotal, NEW c \in Categories
               PROVE  Cardinality(Holders(c)) <= highTotal[c]
    BY DEF NoOversell
  <2>1. /\ IsFiniteSet(Claims(c)) /\ Cardinality(Claims(c)) \in Nat
        /\ Holders(c) \subseteq Claims(c)
    BY ClaimsFinite DEF Claims
  <2>2. /\ Cardinality(Holders(c)) \in Nat
        /\ Cardinality(Holders(c)) <= Cardinality(Claims(c))
    BY <2>1, FS_Subset, FS_CardinalityType
  <2>3. /\ Cardinality(Claims(c)) <= consumed[c] /\ consumed[c] <= highTotal[c]
        /\ consumed[c] \in Int /\ highTotal[c] \in Nat
    BY DEF SlotsAccounted, WithinHighTotal, TypeOK, QuotasTypeOK
  <2> QED
    BY <2>1, <2>2, <2>3
<1> QED
  BY <1>1, TypeCorrect, SlotsCovered, CounterWithinTotal, PTL

-----------------------------------------------------------------------------
(* The handlers implement SlotLedger: each step takes one slot while there   *)
(* is room, gives one back, raises a capacity, or leaves the ledger alone.  *)

\* The ledger's variables, as RequestWorkflow maps them.
HeldBy == [c \in Categories |-> Claims(c)]

\* The ledger counts with the same Cardinality.
LEMMA LedgerCardinality == \A S : Ledger!Cardinality(S) = Cardinality(S)
  BY DEF Ledger!Cardinality, Cardinality

\* A command that starts leaves every claim alone.
LEMMA StartsKeepClaims ==
  ASSUME SerialInv, ~AllowOverride, NEW p \in Handlers, Starts(p), NEW c \in Categories
  PROVE  Claims(c)' = Claims(c)
<1>1. At(p, "idle")
  BY DEF Starts, RequesterStarts, StaffStarts, SaveDraftFind, SubmitRead, ComplementRead,
     CancelRead, ResolveRead, PatchRead, DecideRead, Arrives
<1>2. /\ \A q \in Handlers \ {p} : handler'[q] = handler[q]
      /\ status' = status /\ category' = category
  BY StartsElsewhere DEF SerialInv, requestVars
<1>3. Claims(c) \subseteq Claims(c)'
  BY <1>1, <1>2 DEF Claims, Holders, HasSlotInHand, At
<1> QED
  BY <1>3, StartsClaims

\* A step of a handler in flight takes no claim from another request.
LEMMA ContinuesKeepsOthers ==
  ASSUME SerialInv, NEW p \in Handlers, Continues(p) \/ Abort(p), NEW c \in Categories,
         NEW x \in Claims(c), x # handler[p].req
  PROVE  x \in Claims(c)'
<1>1. \A q \in Handlers \ {p} : handler'[q] = handler[q]
  BY ContinuesAlone DEF SerialInv
<1>2. x \in Requests /\ category[x] = c
  BY DEF Claims, Holders
<1>3. status'[x] = status[x] /\ category'[x] = category[x]
  BY <1>2, ContinuesStatus DEF Abort, requestVars
<1>4. ASSUME NEW q \in Handlers, handler[q].req = x, HasSlotInHand(q)
      PROVE  handler'[q].req = x /\ HasSlotInHand(q)'
  <2>1. handler'[q] = handler[q]
    BY <1>1, <1>4
  <2> QED
    BY <1>4, <2>1 DEF HasSlotInHand, At
<1> QED
  BY <1>2, <1>3, <1>4 DEF Claims, Holders

\* A step of a handler in flight takes one slot, drops one or none.
LEMMA ContinuesLedger ==
  ASSUME SlotInv, "VALIDATED" \notin PatchTargets, NEW p \in Handlers,
         Continues(p) \/ Abort(p)
  PROVE  [Ledger!LedgerNext]_(Ledger!ledgerVars)
<1> DEFINE r == handler[p].req
<1>1. /\ SerialInv /\ TypeInv /\ LimitInv /\ r \in Requests /\ ~At(p, "idle")
      /\ handler[p] \in LoadedStates /\ Agrees(handler[p], status[r], category[r])
  BY ContinuesAlone, InHand DEF SlotInv, SerialInv
<1>2. highTotal' = highTotal
  BY ContinuesQuota DEF ConsumeSlotBelow, GiveBackSlot, quotaVars
<1>3. \A c \in Categories : Claims(c) \ {r} \subseteq Claims(c)'
  BY <1>1, ContinuesKeepsOthers
<1>4. \A c \in Categories : r \in Claims(c) => category[r] = c
  BY DEF Claims, Holders
<1>5. ASSUME NEW d \in Categories, r \in Claims(d)', r \notin Claims(d)
      PROVE  Ledger!LedgerNext
  <2>1. ReserveTake(p) /\ HasSlotInHand(p)' /\ d = handler[p].cat
    BY <1>1, <1>5, ContinuesClaims
  <2>2. /\ category[r] = d /\ category' = category
        /\ handler[p].limit <= highTotal[d] /\ handler[p].limit \in Nat
    BY <1>1, <2>1 DEF ReserveTake, Agrees, At, UsesCategory, LimitInv, requestVars,
       LoadedStates, HandlerStates
  <2>3. consumed[d] < handler[p].limit
    <3>1. ~Return(p)
      BY <1>1, <2>1, BecomeRow DEF Return, IdleHandler, HasSlotInHand, At, TypeInv
    <3> QED
      BY <2>1, <3>1 DEF ReserveTake, ConsumeSlotBelow
  <2>4. Cardinality(Claims(d)) < highTotal[d]
    <3>1. /\ Cardinality(Claims(d)) \in Nat /\ Cardinality(Claims(d)) <= consumed[d]
          /\ consumed[d] \in Int /\ highTotal[d] \in Nat
      BY <1>1, ClaimsFinite DEF SlotInv, SlotsAccounted, TypeInv, QuotasTypeOK
    <3> QED
      BY <2>2, <2>3, <3>1
  <2>5. Claims(d)' = Claims(d) \cup {r}
    BY <1>1, <1>3, <1>5, ContinuesClaims
  <2>6. ASSUME NEW c \in Categories, c # d
        PROVE  Claims(c)' = Claims(c)
    <3>1. r \notin Claims(c) /\ Claims(c)' \subseteq Claims(c)
      BY <1>1, <1>4, <2>1, <2>2, <2>6, ContinuesClaims
    <3> QED
      BY <1>3, <3>1
  <2>7. HeldBy' = [HeldBy EXCEPT ![d] = @ \cup {r}]
    BY <2>5, <2>6 DEF HeldBy
  <2>8. Ledger!Take(d, r)
    <3>1. HeldBy[d] = Claims(d)
      BY DEF HeldBy
    <3>2. Ledger!Cardinality(HeldBy[d]) < highTotal[d] /\ r \notin HeldBy[d]
      BY <1>5, <2>4, <3>1, LedgerCardinality
    <3> QED
      BY <1>2, <2>7, <3>2 DEF Ledger!Take, HeldBy
  <2> QED
    BY <1>1, <2>8 DEF Ledger!LedgerNext
<1>6. ASSUME \A c \in Categories : Claims(c)' \subseteq Claims(c)
      PROVE  [Ledger!LedgerNext]_(Ledger!ledgerVars)
  <2>1. CASE \A c \in Categories : Claims(c)' = Claims(c)
    BY <1>2, <2>1 DEF Ledger!ledgerVars
  <2>2. ASSUME NEW d \in Categories, Claims(d)' # Claims(d)
        PROVE  Ledger!LedgerNext
    <3>1. r \in Claims(d) /\ Claims(d)' = Claims(d) \ {r}
      BY <1>3, <1>6, <2>2
    <3>2. ASSUME NEW c \in Categories, c # d
          PROVE  Claims(c)' = Claims(c)
      BY <1>3, <1>4, <1>6, <3>1, <3>2
    <3>3. HeldBy' = [HeldBy EXCEPT ![d] = @ \ {r}]
      BY <3>1, <3>2 DEF HeldBy
    <3>4. Ledger!Drop(d, r)
      BY <1>2, <3>1, <3>3 DEF Ledger!Drop, HeldBy
    <3> QED
      BY <1>1, <3>4 DEF Ledger!LedgerNext
  <2> QED
    BY <2>1, <2>2
<1>7. ASSUME NEW d \in Categories, ~(Claims(d)' \subseteq Claims(d))
      PROVE  r \in Claims(d)' /\ r \notin Claims(d)
  BY <1>1, <1>7, ContinuesClaims
<1> QED
  BY <1>5, <1>6, <1>7

\* Every step of the handlers and of the organiser is one of the ledger's.
LEMMA LedgerStep ==
  ASSUME ~AllowOverride, "VALIDATED" \notin PatchTargets
  PROVE  SlotInv /\ [Next]_vars => [Ledger!LedgerNext]_(Ledger!ledgerVars)
<1> SUFFICES ASSUME SlotInv, [Next]_vars
             PROVE  [Ledger!LedgerNext]_(Ledger!ledgerVars)
  OBVIOUS
<1>1. ASSUME NEW p \in Handlers, Starts(p)
      PROVE  UNCHANGED Ledger!ledgerVars
  <2>1. highTotal' = highTotal
    BY <1>1, StartsElsewhere DEF SlotInv, SerialInv, quotaVars
  <2> QED
    BY <1>1, <2>1, StartsKeepClaims DEF SlotInv, Ledger!ledgerVars
<1>2. ASSUME NEW c \in Categories, NEW total \in 0..MaxTotal, ConfigureQuota(c, total)
      PROVE  [Ledger!LedgerNext]_(Ledger!ledgerVars)
  <2>1. HeldBy' = HeldBy
    BY <1>2 DEF ConfigureQuota, HeldBy, Claims, Holders, HasSlotInHand, At, requestVars
  <2>2. /\ highTotal' = [highTotal EXCEPT ![c] = IF total > @ THEN total ELSE @]
        /\ highTotal \in [Categories -> Nat] /\ total \in Nat
    BY <1>2, MaxTotalAssumption
       DEF ConfigureQuota, SetQuota, SlotInv, SerialInv, TypeInv, QuotasTypeOK
  <2>3. CASE total > highTotal[c]
    <3>1. /\ highTotal'[c] = total
          /\ highTotal' = [highTotal EXCEPT ![c] = highTotal'[c]]
      BY <2>2, <2>3
    <3>2. Ledger!Raise(c)
      BY <2>1, <2>2, <2>3, <3>1 DEF Ledger!Raise, HeldBy
    <3> QED
      BY <3>2 DEF Ledger!LedgerNext
  <2>4. CASE ~(total > highTotal[c])
    <3>1. highTotal' = highTotal
      BY <2>2, <2>4
    <3> QED
      BY <2>1, <3>1 DEF Ledger!ledgerVars, HeldBy
  <2> QED
    BY <2>3, <2>4
<1>3. CASE UNCHANGED <<status, category, handler, highTotal>>
  BY <1>3 DEF Ledger!ledgerVars, Claims, Holders, HasSlotInHand, At
<1> QED
  BY <1>1, <1>2, <1>3, ContinuesLedger DEF Next, WindowChanges, vars, requestVars, quotaVars

\* The commands of the requests module implement the ledger of slots: seen
\* through who holds a slot and the largest total configured, they only ever
\* take a slot while there is room, give one back or see a capacity raised,
\* whatever fails, under the conditions of SlotsCovered.
THEOREM LedgerImplemented ==
  ASSUME Serialised, ~AllowOverride, "VALIDATED" \notin PatchTargets
  PROVE  Spec => ImplementsLedger
<1>1. Init => Ledger!LedgerInit
  <2> SUFFICES ASSUME Init PROVE Ledger!LedgerInit
    OBVIOUS
  <2>1. \A c \in Categories : Claims(c) = {}
    BY NoneAssumption DEF Init, Claims, Holders, HasSlotInHand, At, IdleHandler,
       StatusesWithReservedQuota, RequestStatusValues
  <2> QED
    BY <2>1 DEF Ledger!LedgerInit, Init, QuotasInit
<1>2. Init => LimitInv
  BY TypeInit DEF LimitInv, Init, QuotasInit, NoRow, At, IdleHandler
<1>3. SerialInv /\ LimitInv /\ SlotsAccounted <=> SlotInv
  BY DEF SlotInv
<1> QED
  BY <1>1, <1>2, <1>3, LimitStep, LedgerStep, SerialAlways, SlotsCovered, PTL
     DEF Spec, ImplementsLedger, Ledger!LedgerSpec
=============================================================================
