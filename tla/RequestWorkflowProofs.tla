----------------------- MODULE RequestWorkflowProofs -----------------------
(***************************************************************************)
(* Theorems about RequestWorkflow, for every value of its constants.        *)
(***************************************************************************)
EXTENDS RequestWorkflow, FiniteSetTheorems, TLAPS

-----------------------------------------------------------------------------
(* Types.                                                                  *)

\* The places at which a handler uses the category it read.
UsesCategory ==
  { "draftUpdate", "draftCreate", "reserveRead", "reserveTake", "decideWrite",
    "cancelWrite", "releaseRead", "releaseWrite" }

\* The places at which it has the status it is to write.
UsesTarget == { "patchWrite", "reserveRead", "reserveTake", "decideWrite" }

\* A handler in flight has the values it is going to use.
LoadedStates ==
  { s \in HandlerStates :
      /\ s.pc # "idle" => s.req \in Requests
      /\ s.pc \in UsesCategory => s.cat \in Categories
      /\ s.pc \in UsesTarget => s.to \in RequestStatusValues
      /\ s.pc \in {"complementWrite", "resolveMark"} => s.cpl \in Complements }

\* The rows have their types, and a request that exists has a category.
RowsTyped ==
  /\ status \in [Requests -> RequestStatusValues \cup {None}]
  /\ category \in [Requests -> Categories \cup {None}]
  /\ duplicateOf \in [Requests -> Requests \cup {None}]
  /\ lastDecision \in [Requests -> RequestStatusValues \cup {None}]
  /\ complement \in [Requests -> [Complements -> {"absent", "open", "resolved"}]]
  /\ badges \subseteq Requests
  /\ stored \subseteq Requests
  /\ \A r \in Requests : status[r] # None => category[r] \in Categories

\* Rows are never deleted: the request of a handler in flight exists, unless the
\* handler is about to create it.
RowsExist ==
  \A p \in Handlers :
    handler[p].pc \notin {"idle", "draftCreate"} => status[handler[p].req] # None

\* The inductive form of TypeOK.
TypeInv ==
  /\ accepting \in BOOLEAN
  /\ RowsTyped
  /\ QuotasTypeOK
  /\ handler \in [Handlers -> LoadedStates]
  /\ RowsExist

\* The record of an idle handler is well formed.
LEMMA IdleLoaded == IdleHandler \in LoadedStates
  BY DEF IdleHandler, LoadedStates, HandlerStates, Places, UsesCategory, UsesTarget

\* Replacing the record of one handler.
LEMMA BecomeRow ==
  ASSUME handler \in [Handlers -> LoadedStates], NEW p \in Handlers, NEW s, Become(p, s)
  PROVE  /\ handler'[p] = s
         /\ \A q \in Handlers \ {p} : handler'[q] = handler[q]
  BY DEF Become

\* Replacing it by a well-formed record.
LEMMA BecomeTyped ==
  ASSUME handler \in [Handlers -> LoadedStates], NEW p \in Handlers,
         NEW s \in LoadedStates, Become(p, s)
  PROVE  handler' \in [Handlers -> LoadedStates]
  BY DEF Become

\* The record a command holds after its first read is well formed.
LEMMA LoadedTyped ==
  ASSUME RowsTyped, NEW r \in Requests, status[r] # None,
         NEW place \in Places, NEW to \in RequestStatusValues \cup {None},
         NEW k \in Complements \cup {None},
         place \in UsesTarget => to \in RequestStatusValues,
         place \in {"complementWrite", "resolveMark"} => k \in Complements
  PROVE  Loaded(place, r, to, k) \in LoadedStates
  BY DEF Loaded, LoadedStates, HandlerStates, RowsTyped

\* So is the record of a command that passed assertTransitionAllowed.
LEMMA CheckedTyped ==
  ASSUME RowsTyped, handler \in [Handlers -> LoadedStates],
         NEW p \in Handlers, NEW r \in Requests, NEW place \in Places,
         place \notin {"complementWrite", "resolveMark"},
         NEW to \in RequestStatusValues, Checked(p, r, place, to)
  PROVE  handler' \in [Handlers -> LoadedStates]
<1>1. Loaded(place, r, to, None) \in LoadedStates
  BY LoadedTyped DEF Checked
<1> QED
  BY <1>1, BecomeTyped DEF Checked

\* And that of a draft handler.
LEMMA DraftingTyped ==
  ASSUME NEW place \in {"draftUpdate", "draftCreate"}, NEW r \in Requests,
         NEW c \in Categories
  PROVE  Drafting(place, r, c) \in LoadedStates
  BY DEF Drafting, LoadedStates, HandlerStates, Places, UsesCategory, UsesTarget

\* A write of a status and its decision row keeps the rows typed, and rows that
\* exist go on existing.
LEMMA WriteDecisionTyped ==
  ASSUME RowsTyped, NEW r \in Requests, status[r] # None,
         NEW to \in RequestStatusValues, WriteDecision(r, to),
         UNCHANGED <<category, badgeVars>>,
         duplicateOf' \in [Requests -> Requests \cup {None}],
         complement' \in [Requests -> [Complements -> {"absent", "open", "resolved"}]]
  PROVE  /\ RowsTyped'
         /\ \A x \in Requests : status[x] # None => status'[x] # None
  BY NoneAssumption DEF RowsTyped, WriteDecision, badgeVars

\* The types hold initially.
LEMMA TypeInit == Init => TypeInv
<1> SUFFICES ASSUME Init PROVE TypeInv
  OBVIOUS
<1>1. handler \in [Handlers -> LoadedStates]
  BY IdleLoaded DEF Init
<1>2. RowsTyped
  BY DEF Init, RowsTyped
<1>3. QuotasTypeOK
  BY DEF Init, QuotasInit, QuotasTypeOK, NoRow
<1> QED
  BY <1>1, <1>2, <1>3 DEF Init, TypeInv, RowsExist, IdleHandler

\* Each first read of a command keeps the types.
LEMMA TypeStarts ==
  ASSUME TypeInv, NEW p \in Handlers, Starts(p)
  PROVE  TypeInv'
<1>1. handler' \in [Handlers -> LoadedStates]
  <2>1. ASSUME NEW o \in Requesters, NEW c \in Categories, SaveDraftFind(p, o, c)
        PROVE  handler' \in [Handlers -> LoadedStates]
    BY <2>1, DraftingTyped, BecomeTyped DEF SaveDraftFind, TypeInv
  <2>2. ASSUME NEW r \in Requests, SubmitRead(p, r) \/ CancelRead(p, r)
        PROVE  handler' \in [Handlers -> LoadedStates]
    BY <2>2, CheckedTyped DEF SubmitRead, CancelRead, TypeInv, Places, RequestStatusValues
  <2>3. ASSUME NEW r \in Requests, ComplementRead(p, r)
        PROVE  handler' \in [Handlers -> LoadedStates]
    BY <2>3, LoadedTyped, BecomeTyped DEF ComplementRead, TypeInv, Places, UsesTarget
  <2>4. ASSUME NEW r \in Requests, NEW k \in Complements, ResolveRead(p, r, k)
        PROVE  handler' \in [Handlers -> LoadedStates]
    BY <2>4, LoadedTyped, BecomeTyped DEF ResolveRead, TypeInv, Places, UsesTarget
  <2>5. ASSUME NEW r \in Requests, NEW to \in RequestStatusValues, PatchRead(p, r, to)
        PROVE  handler' \in [Handlers -> LoadedStates]
    BY <2>5, CheckedTyped DEF PatchRead, TypeInv, Places
  <2>6. ASSUME NEW r \in Requests, NEW to \in {"VALIDATED", "REJECTED"}, DecideRead(p, r, to)
        PROVE  handler' \in [Handlers -> LoadedStates]
    BY <2>6, CheckedTyped DEF DecideRead, TypeInv, Places, RequestStatusValues
  <2> QED
    BY <2>1, <2>2, <2>3, <2>4, <2>5, <2>6 DEF Starts, RequesterStarts, StaffStarts
<1>2. UNCHANGED <<accepting, requestVars, complement, badgeVars, quotaVars>>
  BY DEF Starts, RequesterStarts, StaffStarts,
         SaveDraftFind, SubmitRead, ComplementRead, CancelRead, ResolveRead,
         PatchRead, DecideRead
<1>3. RowsExist'
  <2>1. UNCHANGED status
    BY <1>2 DEF requestVars
  <2>2. ASSUME NEW r \in Requests, status[r] # None, NEW place \in Places,
               NEW to, NEW k, Become(p, Loaded(place, r, to, k))
        PROVE  RowsExist'
    BY <2>1, <2>2, BecomeRow DEF RowsExist, TypeInv, Loaded
  <2>3. ASSUME NEW o \in Requesters, NEW c \in Categories, SaveDraftFind(p, o, c)
        PROVE  RowsExist'
    <3>1. PICK r \in Requests :
            \/ status[r] = "DRAFT" /\ Become(p, Drafting("draftUpdate", r, c))
            \/ Become(p, Drafting("draftCreate", r, c))
      BY <2>3 DEF SaveDraftFind
    <3>2. "DRAFT" # None
      BY NoneAssumption DEF RequestStatusValues
    <3> QED
      BY <2>1, <3>1, <3>2, BecomeRow DEF RowsExist, TypeInv, Drafting
  <2>4. ASSUME NEW r \in Requests, NEW place \in Places, NEW to, Checked(p, r, place, to)
        PROVE  RowsExist'
    BY <2>2, <2>4 DEF Checked
  <2>5. ASSUME NEW r \in Requests, SubmitRead(p, r) \/ CancelRead(p, r)
        PROVE  RowsExist'
    BY <2>4, <2>5 DEF SubmitRead, CancelRead, Places
  <2>6. ASSUME NEW r \in Requests, ComplementRead(p, r)
        PROVE  RowsExist'
    BY <2>2, <2>6 DEF ComplementRead, Places
  <2>7. ASSUME NEW r \in Requests, NEW k \in Complements, ResolveRead(p, r, k)
        PROVE  RowsExist'
    BY <2>2, <2>7 DEF ResolveRead, Places
  <2>8. ASSUME NEW r \in Requests, NEW to \in RequestStatusValues, PatchRead(p, r, to)
        PROVE  RowsExist'
    BY <2>4, <2>8 DEF PatchRead, Places
  <2>9. ASSUME NEW r \in Requests, NEW to \in {"VALIDATED", "REJECTED"}, DecideRead(p, r, to)
        PROVE  RowsExist'
    BY <2>4, <2>9 DEF DecideRead, Places
  <2> QED
    BY <2>3, <2>5, <2>6, <2>7, <2>8, <2>9 DEF Starts, RequesterStarts, StaffStarts
<1> QED
  BY <1>1, <1>2, <1>3 DEF TypeInv, RowsTyped, QuotasTypeOK, requestVars, badgeVars, quotaVars

\* A row that exists goes on existing while a handler works on it.
LEMMA RowsExistStep ==
  ASSUME TypeInv, NEW p \in Handlers, ~At(p, "idle"),
         NEW s \in LoadedStates, Become(p, s),
         s.pc = "idle" \/ (s.req = handler[p].req /\ ~At(p, "draftCreate")),
         \A r \in Requests : status[r] # None => status'[r] # None
  PROVE  RowsExist'
<1> SUFFICES ASSUME NEW q \in Handlers, handler'[q].pc \notin {"idle", "draftCreate"}
             PROVE  status'[handler'[q].req] # None
  BY DEF RowsExist
<1>0. handler \in [Handlers -> LoadedStates] /\ RowsExist
  BY DEF TypeInv
<1>r. handler'[p] = s /\ \A x \in Handlers \ {p} : handler'[x] = handler[x]
  BY <1>0, BecomeRow
<1>1. CASE q = p
  <2>1. handler'[q] = s
    BY <1>r, <1>1
  <2>2. status[handler[p].req] # None /\ handler[p].req \in Requests
    BY <1>0, <2>1 DEF RowsExist, At, LoadedStates
  <2> QED
    BY <2>1, <2>2
<1>2. CASE q # p
  <2>1. handler'[q] = handler[q]
    BY <1>r, <1>2
  <2>2. status[handler[q].req] # None /\ handler[q].req \in Requests
    BY <1>0, <2>1 DEF RowsExist, LoadedStates
  <2> QED
    BY <2>1, <2>2
<1> QED
  BY <1>1, <1>2

\* What a step of a handler in flight has to show: its next record, and rows that
\* keep their types and are not deleted.
LEMMA StepTyped ==
  ASSUME TypeInv, NEW p \in Handlers, ~At(p, "idle"),
         NEW s \in LoadedStates, Become(p, s),
         s.pc = "idle" \/ (s.req = handler[p].req /\ ~At(p, "draftCreate")),
         \A r \in Requests : status[r] # None => status'[r] # None,
         RowsTyped', QuotasTypeOK', UNCHANGED accepting
  PROVE  TypeInv'
<1>1. handler' \in [Handlers -> LoadedStates]
  BY BecomeTyped DEF TypeInv
<1>2. RowsExist'
  BY RowsExistStep
<1> QED
  BY <1>1, <1>2 DEF TypeInv

\* A step that moves on within its command and leaves the request rows alone.
LEMMA GotoStep ==
  ASSUME TypeInv, NEW p \in Handlers, ~At(p, "idle"), ~At(p, "draftCreate"),
         NEW place \in Places \ {"idle"}, Goto(p, place),
         place \in UsesCategory => handler[p].pc \in UsesCategory,
         place \notin UsesTarget \cup {"complementWrite", "resolveMark"},
         \A r \in Requests : status[r] # None => status'[r] # None,
         RowsTyped', QuotasTypeOK', UNCHANGED accepting
  PROVE  TypeInv'
<1> DEFINE s == [handler[p] EXCEPT !.pc = place]
<1>1. /\ handler[p] \in HandlerStates
      /\ handler[p].req \in Requests
      /\ handler[p].pc \in UsesCategory => handler[p].cat \in Categories
  BY DEF LoadedStates, At, TypeInv
<1>2. s \in HandlerStates
  BY <1>1 DEF HandlerStates
<1>3. s.pc = place /\ s.req = handler[p].req /\ s.cat = handler[p].cat
  BY <1>1 DEF HandlerStates
<1>4. s \in LoadedStates
  BY <1>1, <1>2, <1>3 DEF LoadedStates
<1> QED
  BY <1>3, <1>4, StepTyped DEF Goto

\* A step that ends its command.
LEMMA ReturnStep ==
  ASSUME TypeInv, NEW p \in Handlers, ~At(p, "idle"), Return(p),
         \A r \in Requests : status[r] # None => status'[r] # None,
         RowsTyped', QuotasTypeOK', UNCHANGED accepting
  PROVE  TypeInv'
<1>1. IdleHandler.pc = "idle"
  BY DEF IdleHandler
<1> QED
  BY <1>1, IdleLoaded, StepTyped DEF Return

\* Each step of a handler in flight keeps the types.
LEMMA TypeContinues ==
  ASSUME TypeInv, NEW p \in Handlers, Continues(p)
  PROVE  TypeInv'
<1>0. /\ RowsTyped /\ QuotasTypeOK /\ accepting \in BOOLEAN
      /\ handler \in [Handlers -> LoadedStates]
  BY DEF TypeInv
<1>h. /\ handler[p] \in HandlerStates
      /\ ~At(p, "idle") => handler[p].req \in Requests
      /\ handler[p].pc \in UsesCategory => handler[p].cat \in Categories
      /\ handler[p].pc \in UsesTarget =>
           handler[p].to \in RequestStatusValues
      /\ handler[p].pc \in {"complementWrite", "resolveMark"} =>
           handler[p].cpl \in Complements
  BY <1>0 DEF LoadedStates, At
<1>n. None \notin RequestStatusValues
  BY NoneAssumption
<1>1. CASE DraftUpdate(p) \/ DraftCreate(p)
  <2>1. RowsTyped'
    BY <1>0, <1>1, <1>h DEF DraftUpdate, DraftCreate, RowsTyped, At, UsesCategory, UsesTarget,
       RequestStatusValues, requestVars, badgeVars
  <2>2. \A r \in Requests : status[r] # None => status'[r] # None
    BY <1>0, <1>1, <1>n DEF DraftUpdate, DraftCreate, RowsTyped, RequestStatusValues
  <2> QED
    BY <1>0, <1>1, <2>1, <2>2, ReturnStep
       DEF DraftUpdate, DraftCreate, At, QuotasTypeOK, quotaVars
<1>r. ASSUME ~At(p, "idle"), ~At(p, "draftCreate")
      PROVE  handler[p].req \in Requests /\ status[handler[p].req] # None
  BY <1>0, <1>h, <1>r DEF TypeInv, RowsExist, At
<1>2. CASE SubmitCheck(p)
  <2>1. UNCHANGED <<requestVars, complement, badgeVars, quotaVars, accepting>>
    BY <1>2 DEF SubmitCheck
  <2>2. /\ RowsTyped' /\ QuotasTypeOK'
        /\ \A r \in Requests : status[r] # None => status'[r] # None
    BY <1>0, <2>1 DEF RowsTyped, QuotasTypeOK, requestVars, badgeVars, quotaVars
  <2>3. CASE Return(p)
    BY <1>2, <2>1, <2>2, <2>3, ReturnStep DEF SubmitCheck, At
  <2>4. ASSUME NEW d \in Requests \cup {None},
               Become(p, [handler[p] EXCEPT !.pc = "submitWrite", !.dup = d])
        PROVE  TypeInv'
    <3> DEFINE s == [handler[p] EXCEPT !.pc = "submitWrite", !.dup = d]
    <3>0. handler[p] \in HandlerStates /\ "submitWrite" \in Places
      BY <1>h DEF LoadedStates, Places
    <3>1. s \in HandlerStates /\ s.pc = "submitWrite" /\ s.req = handler[p].req
      BY <3>0 DEF HandlerStates
    <3>2. s \in LoadedStates
      BY <3>1, <1>h, <1>2 DEF LoadedStates, UsesCategory, UsesTarget, SubmitCheck, At
    <3> QED
      BY <1>2, <2>1, <2>2, <2>4, <3>1, <3>2, StepTyped DEF SubmitCheck, At
  <2> QED
    BY <1>2, <2>3, <2>4 DEF SubmitCheck
<1>3. CASE SubmitWrite(p)
  <2>1. duplicateOf' \in [Requests -> Requests \cup {None}]
    BY <1>0, <1>3, <1>h DEF SubmitWrite, RowsTyped, HandlerStates
  <2>2. /\ RowsTyped'
        /\ \A r \in Requests : status[r] # None => status'[r] # None
    BY <1>0, <1>3, <1>r, <2>1, WriteDecisionTyped
       DEF SubmitWrite, At, RequestStatusValues, RowsTyped
  <2> QED
    BY <1>0, <1>3, <2>2, ReturnStep DEF SubmitWrite, At, QuotasTypeOK, quotaVars
<1>4. CASE PatchWrite(p)
  <2>1. /\ RowsTyped'
        /\ \A r \in Requests : status[r] # None => status'[r] # None
    BY <1>0, <1>4, <1>h, <1>r, WriteDecisionTyped DEF PatchWrite, At, RowsTyped, UsesTarget
  <2> QED
    BY <1>0, <1>4, <2>1, ReturnStep DEF PatchWrite, At, QuotasTypeOK, quotaVars
<1>5. CASE ComplementWrite(p)
  <2>1. complement' \in [Requests -> [Complements -> {"absent", "open", "resolved"}]]
    BY <1>0, <1>5 DEF ComplementWrite, RowsTyped
  <2>2. /\ RowsTyped'
        /\ \A r \in Requests : status[r] # None => status'[r] # None
    BY <1>0, <1>5, <1>r, <2>1, WriteDecisionTyped
       DEF ComplementWrite, At, RequestStatusValues, RowsTyped
  <2> QED
    BY <1>0, <1>5, <2>2, ReturnStep DEF ComplementWrite, At, QuotasTypeOK, quotaVars
<1>6. CASE ResolveMark(p)
  <2>1. complement' \in [Requests -> [Complements -> {"absent", "open", "resolved"}]]
    BY <1>0, <1>6 DEF ResolveMark, RowsTyped
  <2>2. /\ RowsTyped' /\ QuotasTypeOK'
        /\ \A r \in Requests : status[r] # None => status'[r] # None
    BY <1>0, <1>6, <2>1 DEF ResolveMark, RowsTyped, QuotasTypeOK, requestVars, badgeVars,
       quotaVars
  <2> QED
    BY <1>6, <2>2, GotoStep DEF ResolveMark, At, Places, UsesCategory, UsesTarget
<1>7. CASE ResolveWrite(p)
  <2>1. /\ RowsTyped'
        /\ \A r \in Requests : status[r] # None => status'[r] # None
    BY <1>0, <1>7, <1>n, <1>r DEF ResolveWrite, At, RowsTyped, RequestStatusValues, badgeVars
  <2> QED
    BY <1>0, <1>7, <2>1, ReturnStep DEF ResolveWrite, At, QuotasTypeOK, quotaVars
<1>8. CASE ResolveCount(p) \/ ReleaseRead(p)
  <2>1. /\ RowsTyped' /\ QuotasTypeOK' /\ UNCHANGED accepting
        /\ \A r \in Requests : status[r] # None => status'[r] # None
    BY <1>0, <1>8 DEF ResolveCount, ReleaseRead, RowsTyped, QuotasTypeOK,
       requestVars, badgeVars, quotaVars
  <2>2. CASE Return(p)
    BY <1>8, <2>1, <2>2, ReturnStep DEF ResolveCount, ReleaseRead, At
  <2>3. CASE ResolveCount(p) /\ Goto(p, "resolveWrite")
    BY <2>1, <2>3, GotoStep DEF ResolveCount, At, Places, UsesCategory, UsesTarget
  <2>4. CASE ReleaseRead(p) /\ Goto(p, "releaseWrite")
    BY <2>1, <2>4, GotoStep DEF ReleaseRead, At, Places, UsesCategory, UsesTarget
  <2> QED
    BY <1>8, <2>2, <2>3, <2>4 DEF ResolveCount, ReleaseRead
<1>9. CASE ReserveRead(p) \/ ReserveTake(p)
  <2>a. handler[p].pc \in {"reserveRead", "reserveTake"}
    BY <1>9 DEF ReserveRead, ReserveTake, At
  <2>0. /\ handler[p].cat \in Categories /\ handler[p].to \in RequestStatusValues
        /\ handler[p].req \in Requests
    BY <1>h, <2>a DEF UsesCategory, UsesTarget, At
  <2>1. /\ RowsTyped' /\ UNCHANGED accepting
        /\ \A r \in Requests : status[r] # None => status'[r] # None
    BY <1>0, <1>9 DEF ReserveRead, ReserveTake, RowsTyped, requestVars, badgeVars
  <2>2. QuotasTypeOK'
    BY <1>0, <1>9 DEF ReserveRead, ReserveTake, ConsumeSlotBelow, QuotasTypeOK, quotaVars
  <2>3. CASE Return(p)
    BY <1>9, <2>1, <2>2, <2>3, ReturnStep DEF ReserveRead, ReserveTake, At
  <2>4. ASSUME NEW n \in Nat, NEW place \in {"reserveTake", "decideWrite"},
               Become(p, [handler[p] EXCEPT !.pc = place, !.limit = n])
        PROVE  TypeInv'
    <3> DEFINE s == [handler[p] EXCEPT !.pc = place, !.limit = n]
    <3>0. handler[p] \in HandlerStates /\ place \in Places
      BY <1>h DEF LoadedStates, Places
    <3>1. /\ s \in HandlerStates /\ s.pc = place /\ s.req = handler[p].req
          /\ s.cat = handler[p].cat /\ s.to = handler[p].to
      BY <3>0 DEF HandlerStates
    <3>3. s \in LoadedStates
      BY <3>1, <2>0, <1>h DEF LoadedStates
    <3> QED
      BY <1>9, <2>1, <2>2, <2>4, <3>1, <3>3, StepTyped DEF ReserveRead, ReserveTake, At
  <2>5. ReserveRead(p) /\ Configured(handler[p].cat) =>
          quotaTotal[handler[p].cat] \in Nat
    BY <1>0, <1>h DEF ReserveRead, At, UsesCategory, UsesTarget, Configured, QuotasTypeOK
  <2> QED
    BY <1>9, <2>3, <2>4, <2>5 DEF ReserveRead, ReserveTake
<1>10. CASE DecideWrite(p) \/ CancelWrite(p) \/ DecideFinish(p)
  <2>1. /\ RowsTyped'
        /\ \A r \in Requests : status[r] # None => status'[r] # None
    BY <1>0, <1>10, <1>h, <1>r, WriteDecisionTyped
       DEF DecideWrite, CancelWrite, DecideFinish, At, RequestStatusValues, RowsTyped,
           UsesTarget
  <2>2. QuotasTypeOK' /\ UNCHANGED accepting
    BY <1>0, <1>10 DEF DecideWrite, CancelWrite, DecideFinish, QuotasTypeOK, quotaVars
  <2>3. CASE Return(p)
    BY <1>10, <2>1, <2>2, <2>3, ReturnStep DEF DecideWrite, CancelWrite, DecideFinish, At
  <2>4. CASE DecideWrite(p) /\ Goto(p, "createBadge")
    BY <2>1, <2>2, <2>4, GotoStep DEF DecideWrite, At, Places, UsesCategory, UsesTarget
  <2>5. CASE CancelWrite(p) /\ Goto(p, "releaseRead")
    BY <2>1, <2>2, <2>5, GotoStep DEF CancelWrite, At, Places, UsesCategory, UsesTarget
  <2> QED
    BY <1>10, <2>3, <2>4, <2>5 DEF DecideWrite, CancelWrite, DecideFinish
<1>11. CASE CreateBadge(p) \/ StoreBadge(p)
  <2>1. /\ RowsTyped' /\ QuotasTypeOK' /\ UNCHANGED accepting
        /\ \A r \in Requests : status[r] # None => status'[r] # None
    BY <1>0, <1>11, <1>h DEF CreateBadge, StoreBadge, At, RowsTyped, QuotasTypeOK,
       requestVars, quotaVars
  <2>2. CASE Return(p)
    BY <1>11, <2>1, <2>2, ReturnStep DEF CreateBadge, StoreBadge, At
  <2>3. CASE CreateBadge(p) /\ Goto(p, "storeBadge")
    BY <2>1, <2>3, GotoStep DEF CreateBadge, At, Places, UsesCategory, UsesTarget
  <2>4. CASE StoreBadge(p) /\ Goto(p, "finish")
    BY <2>1, <2>4, GotoStep DEF StoreBadge, At, Places, UsesCategory, UsesTarget
  <2> QED
    BY <1>11, <2>2, <2>3, <2>4 DEF CreateBadge, StoreBadge
<1>12. CASE ReleaseWrite(p)
  <2>1. /\ RowsTyped'
        /\ \A r \in Requests : status[r] # None => status'[r] # None
    <3>1. UNCHANGED <<requestVars, complement, badgeVars>>
      BY <1>12 DEF ReleaseWrite
    <3> QED
      BY <1>0, <3>1 DEF RowsTyped, requestVars, badgeVars
  <2>2. QuotasTypeOK'
    BY <1>0, <1>12, <1>h DEF ReleaseWrite, GiveBackSlot, QuotasTypeOK, At, UsesCategory
  <2> QED
    BY <1>12, <2>1, <2>2, ReturnStep DEF ReleaseWrite, At
<1> QED
  BY <1>1, <1>2, <1>3, <1>4, <1>5, <1>6, <1>7, <1>8, <1>9, <1>10, <1>11, <1>12 DEF Continues

\* Configuring a quota, a failure and the window of the match keep the types.
LEMMA TypeEnvironment ==
  ASSUME TypeInv,
         \/ \E c \in Categories, total \in 0..MaxTotal : ConfigureQuota(c, total)
         \/ WindowChanges
         \/ \E p \in Handlers : Abort(p)
         \/ UNCHANGED vars
  PROVE  TypeInv'
<1>1. ASSUME NEW c \in Categories, NEW total \in 0..MaxTotal, ConfigureQuota(c, total)
      PROVE  TypeInv'
  <2>1. total \in Nat
    BY MaxTotalAssumption
  <2>2. QuotasTypeOK'
    BY <1>1, <2>1 DEF ConfigureQuota, SetQuota, QuotasTypeOK, TypeInv
  <2> QED
    BY <1>1, <2>2 DEF ConfigureQuota, TypeInv, RowsTyped, RowsExist, requestVars, badgeVars
<1>2. CASE WindowChanges \/ UNCHANGED vars
  BY <1>2 DEF WindowChanges, vars, TypeInv, RowsTyped, RowsExist, QuotasTypeOK,
     requestVars, badgeVars, quotaVars
<1>3. ASSUME NEW p \in Handlers, Abort(p)
      PROVE  TypeInv'
  BY <1>3, ReturnStep DEF Abort, TypeInv, RowsTyped, QuotasTypeOK, requestVars,
     badgeVars, quotaVars
<1> QED
  BY <1>1, <1>2, <1>3

\* Every variable has its type in every reachable state, for any number of
\* handlers and requests, however the commands overlap and fail.
THEOREM TypeCorrect == Spec => []TypeOK
<1>1. Init => TypeInv
  BY TypeInit
<1>2. TypeInv /\ [Next]_vars => TypeInv'
  BY TypeStarts, TypeContinues, TypeEnvironment DEF Next
<1>3. TypeInv => TypeOK
  BY DEF TypeInv, RowsTyped, TypeOK, LoadedStates
<1> QED
  BY <1>1, <1>2, <1>3, PTL DEF Spec

-----------------------------------------------------------------------------
(* What holds when the commands on one request do not overlap (Serialised):  *)
(* a snapshot taken at the start of a command is still the row when the      *)
(* command uses it.  Commands on different requests interleave freely, and   *)
(* any await may fail.                                                       *)

\* The record h of a handler agrees with the row (its status st and category
\* cat) of the request the handler works on.
Agrees(h, st, cat) ==
  /\ h.pc = "draftUpdate" => st = "DRAFT"
  /\ h.pc = "draftCreate" => st = None
  /\ h.pc \in {"submitCheck", "submitWrite"} => st = "DRAFT"
  /\ h.pc = "complementWrite" => st = "UNDER_REVIEW"
  /\ h.pc \in {"resolveMark", "resolveCount"} => st = h.seen
  /\ h.pc = "resolveWrite" => st = "INFO_REQUESTED"
  /\ h.pc = "patchWrite" => TransitionAllowed(st, h.to) /\ h.to \in PatchTargets
  /\ h.pc \in {"reserveRead", "reserveTake"} =>
       h.to = "VALIDATED" /\ TransitionAllowed(st, "VALIDATED")
  /\ h.pc = "decideWrite" =>
       h.to \in {"VALIDATED", "REJECTED"} /\ TransitionAllowed(st, h.to)
  /\ h.pc \in {"createBadge", "storeBadge", "finish"} => st = "VALIDATED"
  /\ h.pc = "cancelWrite" => st = h.seen /\ TransitionAllowed(st, "CANCELLED")
  /\ h.pc \in {"releaseRead", "releaseWrite"} => st = "CANCELLED"
  /\ h.pc \in UsesCategory \ {"draftUpdate", "draftCreate"} => h.cat = cat

\* No two handlers in flight work on the same request.
Separate ==
  \A p, q \in Handlers : p # q /\ handler[p].req # None => handler[q].req # handler[p].req

SerialInv ==
  /\ TypeInv
  /\ Separate
  /\ \A p \in Handlers :
       ~At(p, "idle") =>
         Agrees(handler[p], status[handler[p].req], category[handler[p].req])
  /\ \A p \in Handlers : At(p, "idle") => handler[p].req = None

\* No handler is in flight initially.
LEMMA SerialInit == Init => SerialInv
<1> SUFFICES ASSUME Init PROVE SerialInv
  OBVIOUS
<1>1. \A p \in Handlers : handler[p] = IdleHandler
  BY DEF Init
<1> QED
  BY <1>1, TypeInit DEF SerialInv, Separate, At, IdleHandler

\* A step that replaces the record of one handler and touches no row but the
\* one of the handler's request keeps the invariant if the new record agrees
\* with that row.
LEMMA SerialStep ==
  ASSUME SerialInv, TypeInv', NEW p \in Handlers, NEW s, Become(p, s),
         \/ s = IdleHandler
         \/ /\ s.pc # "idle" /\ s.req \in Requests
            /\ s.req = handler[p].req \/ ~InFlight(s.req)
            /\ Agrees(s, status'[s.req], category'[s.req]),
         \A r \in Requests :
           r # handler[p].req => status'[r] = status[r] /\ category'[r] = category[r]
  PROVE  SerialInv'
<1>0. /\ handler \in [Handlers -> LoadedStates]
      /\ \A q \in Handlers : ~At(q, "idle") => handler[q].req \in Requests
  BY DEF SerialInv, TypeInv, LoadedStates, At
<1>1. /\ handler'[p] = s
      /\ \A q \in Handlers \ {p} : handler'[q] = handler[q]
  BY <1>0, BecomeRow
<1>2. \A q \in Handlers \ {p} : s.req # None => s.req # handler[q].req
  BY DEF SerialInv, Separate, InFlight, IdleHandler
<1>3. Separate'
  BY <1>1, <1>2, NoneAssumption DEF SerialInv, Separate
<1>4. ASSUME NEW q \in Handlers, ~At(q, "idle")'
      PROVE  Agrees(handler[q], status[handler[q].req], category[handler[q].req])'
  <2>1. CASE q = p
    BY <1>1, <1>4, <2>1 DEF Agrees, At, IdleHandler
  <2>2. CASE q # p
    <3>1. handler'[q] = handler[q] /\ ~At(q, "idle")
      BY <1>1, <1>4, <2>2 DEF At
    <3>2. handler[q].req \in Requests /\ handler[q].req # handler[p].req
      BY <1>0, <3>1, <2>2, NoneAssumption DEF SerialInv, Separate
    <3>3. Agrees(handler[q], status[handler[q].req], category[handler[q].req])
      BY <3>1 DEF SerialInv
    <3> QED
      BY <3>1, <3>2, <3>3 DEF Agrees
  <2> QED
    BY <2>1, <2>2
<1>5. ASSUME NEW q \in Handlers, At(q, "idle")'
      PROVE  handler'[q].req = None
  BY <1>1, <1>5 DEF At, IdleHandler, SerialInv
<1> QED
  BY <1>3, <1>4, <1>5 DEF SerialInv

\* A command starts: its record is what it has just read.
LEMMA SerialStarts ==
  ASSUME Serialised, SerialInv, NEW p \in Handlers, Starts(p)
  PROVE  SerialInv'
<1>1. TypeInv'
  BY TypeStarts DEF SerialInv
<1>2. status' = status /\ category' = category
  BY DEF Starts, RequesterStarts, StaffStarts,
         SaveDraftFind, SubmitRead, ComplementRead, CancelRead, ResolveRead,
     PatchRead, DecideRead, requestVars
<1>3. ASSUME NEW r \in Requests, ~InFlight(r), NEW place \in Places, NEW to, NEW k,
             place # "idle", Become(p, Loaded(place, r, to, k)),
             Agrees(Loaded(place, r, to, k), status[r], category[r])
      PROVE  SerialInv'
  <2> DEFINE s == Loaded(place, r, to, k)
  <2>1. s.pc = place /\ s.req = r
    BY DEF Loaded
  <2> QED
    BY <1>1, <1>2, <1>3, <2>1, SerialStep
<1>4. ASSUME NEW o \in Requesters, NEW c \in Categories, SaveDraftFind(p, o, c)
      PROVE  SerialInv'
  <2>1. PICK r \in Requests :
          /\ ~InFlight(r)
          /\ \/ status[r] = "DRAFT" /\ Become(p, Drafting("draftUpdate", r, c))
             \/ status[r] = None /\ Become(p, Drafting("draftCreate", r, c))
    BY <1>4 DEF SaveDraftFind, Arrives
  <2>2. ASSUME NEW place \in {"draftUpdate", "draftCreate"},
               Become(p, Drafting(place, r, c)),
               place = "draftUpdate" => status[r] = "DRAFT",
               place = "draftCreate" => status[r] = None
        PROVE  SerialInv'
    <3> DEFINE s == Drafting(place, r, c)
    <3>1. s.pc = place /\ s.req = r
      BY DEF Drafting
    <3>2. Agrees(s, status[r], category[r])
      BY <2>2, <3>1 DEF Agrees
    <3> QED
      BY <1>1, <1>2, <2>1, <2>2, <3>1, <3>2, SerialStep
  <2> QED
    BY <2>1, <2>2
<1>5. ASSUME NEW r \in Requests, SubmitRead(p, r)
      PROVE  SerialInv'
  <2>1. status[r] = "DRAFT"
    BY <1>5 DEF SubmitRead, Checked, TransitionAllowed, REQUEST_TRANSITIONS
  <2> QED
    BY <1>3, <1>5, <2>1 DEF SubmitRead, Arrives, Checked, Loaded, Agrees, Places, UsesCategory
<1>6. ASSUME NEW r \in Requests, CancelRead(p, r)
      PROVE  SerialInv'
  BY <1>3, <1>6 DEF CancelRead, Arrives, Checked, Loaded, Agrees, Places, UsesCategory
<1>7. ASSUME NEW r \in Requests, ComplementRead(p, r)
      PROVE  SerialInv'
  <2>1. status[r] = "UNDER_REVIEW"
    BY <1>7 DEF ComplementRead, TransitionAllowed, REQUEST_TRANSITIONS
  <2> QED
    BY <1>3, <1>7, <2>1 DEF ComplementRead, Arrives, Loaded, Agrees, Places, UsesCategory
<1>8. ASSUME NEW r \in Requests, NEW k \in Complements, ResolveRead(p, r, k)
      PROVE  SerialInv'
  BY <1>3, <1>8 DEF ResolveRead, Arrives, Loaded, Agrees, Places, UsesCategory
<1>9. ASSUME NEW r \in Requests, NEW to \in RequestStatusValues, PatchRead(p, r, to)
      PROVE  SerialInv'
  BY <1>3, <1>9 DEF PatchRead, Arrives, Checked, Loaded, Agrees, Places, UsesCategory
<1>10. ASSUME NEW r \in Requests, NEW to \in {"VALIDATED", "REJECTED"}, DecideRead(p, r, to)
       PROVE  SerialInv'
  BY <1>3, <1>10 DEF DecideRead, Arrives, Checked, Loaded, Agrees, Places, UsesCategory
<1> QED
  BY <1>4, <1>5, <1>6, <1>7, <1>8, <1>9, <1>10 DEF Starts, RequesterStarts, StaffStarts

\* What a handler in flight knows when commands on its request do not overlap.
LEMMA InHand ==
  ASSUME SerialInv, NEW p \in Handlers, ~At(p, "idle")
  PROVE  /\ handler[p] \in HandlerStates
         /\ handler[p].req \in Requests
         /\ Agrees(handler[p], status[handler[p].req], category[handler[p].req])
         /\ \A q \in Handlers \ {p} : handler[q].req # handler[p].req
<1>1. handler[p] \in HandlerStates /\ handler[p].req \in Requests
  BY DEF SerialInv, TypeInv, LoadedStates, At
<1> QED
  BY <1>1, NoneAssumption DEF SerialInv, Separate

\* A step of a handler in flight: its new record agrees with the row it leaves.
LEMMA SerialContinues ==
  ASSUME SerialInv, NEW p \in Handlers, Continues(p)
  PROVE  SerialInv'
<1>1. TypeInv'
  BY TypeContinues DEF SerialInv
<1>2. ~At(p, "idle")
  BY DEF Continues, At, DraftUpdate, DraftCreate, SubmitCheck, SubmitWrite, PatchWrite,
     ComplementWrite, ResolveMark, ResolveCount, ResolveWrite, ReserveRead, ReserveTake,
     DecideWrite, CreateBadge, StoreBadge, DecideFinish, CancelWrite, ReleaseRead,
     ReleaseWrite
<1> DEFINE r == handler[p].req
<1>3. /\ handler[p] \in HandlerStates /\ r \in Requests
      /\ Agrees(handler[p], status[r], category[r])
      /\ status \in [Requests -> RequestStatusValues \cup {None}]
      /\ category \in [Requests -> Categories \cup {None}]
  BY <1>2, InHand DEF SerialInv, TypeInv, RowsTyped
<1>4. \A x \in Requests : x # r => status'[x] = status[x] /\ category'[x] = category[x]
  BY <1>3 DEF Continues, DraftUpdate, DraftCreate, SubmitCheck, SubmitWrite, PatchWrite,
     ComplementWrite, ResolveMark, ResolveCount, ResolveWrite, ReserveRead, ReserveTake,
     DecideWrite, CreateBadge, StoreBadge, DecideFinish, CancelWrite, ReleaseRead,
     ReleaseWrite, WriteDecision, requestVars
<1>5. CASE Return(p)
  BY <1>1, <1>4, <1>5, SerialStep DEF Return
<1>6. ASSUME NEW s, Become(p, s), s.pc # "idle", s.req = r,
             Agrees(s, status'[r], category'[r])
      PROVE  SerialInv'
  BY <1>1, <1>3, <1>4, <1>6, SerialStep
<1>7. ASSUME NEW place \in Places \ {"idle"}, Goto(p, place),
             Agrees([handler[p] EXCEPT !.pc = place], status'[r], category'[r])
      PROVE  SerialInv'
  <2> DEFINE s == [handler[p] EXCEPT !.pc = place]
  <2>1. s.pc = place /\ s.req = r
    BY <1>3 DEF HandlerStates
  <2> QED
    BY <1>6, <1>7, <2>1 DEF Goto
<1>8. ASSUME NEW place \in Places \ {"idle"}
      PROVE  /\ [handler[p] EXCEPT !.pc = place].pc = place
             /\ [handler[p] EXCEPT !.pc = place].to = handler[p].to
             /\ [handler[p] EXCEPT !.pc = place].cat = handler[p].cat
             /\ [handler[p] EXCEPT !.pc = place].seen = handler[p].seen
  BY <1>3 DEF HandlerStates
<1>9. CASE SubmitCheck(p) /\ ~Return(p)
  <2>1. PICK d \in Requests \cup {None} :
          Become(p, [handler[p] EXCEPT !.pc = "submitWrite", !.dup = d])
    BY <1>9 DEF SubmitCheck
  <2> DEFINE s == [handler[p] EXCEPT !.pc = "submitWrite", !.dup = d]
  <2>2. s.pc = "submitWrite" /\ s.req = r
    BY <1>3 DEF HandlerStates
  <2>3. Agrees(s, status'[r], category'[r])
    BY <1>3, <1>9, <2>2 DEF SubmitCheck, At, Agrees, UsesCategory, requestVars
  <2> QED
    BY <1>6, <2>1, <2>2, <2>3
<1>10. CASE ResolveMark(p)
  <2>1. Agrees([handler[p] EXCEPT !.pc = "resolveCount"], status'[r], category'[r])
    BY <1>3, <1>8, <1>10 DEF ResolveMark, At, Agrees, UsesCategory, Places, requestVars
  <2> QED
    BY <1>7, <1>10, <2>1 DEF ResolveMark, Places
<1>11. CASE ResolveCount(p) /\ ~Return(p)
  <2>1. Agrees([handler[p] EXCEPT !.pc = "resolveWrite"], status'[r], category'[r])
    BY <1>3, <1>8, <1>11 DEF ResolveCount, At, Agrees, UsesCategory, Places, requestVars
  <2> QED
    BY <1>7, <1>11, <2>1 DEF ResolveCount, Places
<1>12. ASSUME NEW place \in {"reserveTake", "decideWrite"}, NEW n \in Nat,
              Become(p, [handler[p] EXCEPT !.pc = place, !.limit = n]),
              handler[p].pc \in {"reserveRead", "reserveTake"},
              UNCHANGED <<status, category>>
       PROVE  SerialInv'
  <2> DEFINE s == [handler[p] EXCEPT !.pc = place, !.limit = n]
  <2>1. /\ s.pc = place /\ s.req = r /\ s.to = handler[p].to /\ s.cat = handler[p].cat
    BY <1>3 DEF HandlerStates
  <2>2. Agrees(s, status'[r], category'[r])
    BY <1>3, <1>12, <2>1 DEF Agrees, UsesCategory
  <2> QED
    BY <1>6, <1>12, <2>1, <2>2
<1>13. CASE ReserveRead(p) /\ ~Return(p)
  <2>1. quotaTotal[handler[p].cat] \in Nat
    BY <1>13 DEF ReserveRead, Configured, SerialInv, TypeInv, LoadedStates, QuotasTypeOK, At,
       UsesCategory
  <2> QED
    BY <1>12, <1>13, <2>1 DEF ReserveRead, At, requestVars
<1>14. CASE ReserveTake(p) /\ ~Return(p)
  BY <1>12, <1>14 DEF ReserveTake, At, requestVars
<1>15. CASE DecideWrite(p) /\ ~Return(p)
  <2>1. status'[r] = "VALIDATED"
    BY <1>3, <1>15 DEF DecideWrite, WriteDecision
  <2>2. Agrees([handler[p] EXCEPT !.pc = "createBadge"], status'[r], category'[r])
    BY <1>8, <2>1 DEF Agrees, UsesCategory, Places
  <2> QED
    BY <1>7, <1>15, <2>2 DEF DecideWrite, Places
<1>16. CASE CreateBadge(p) /\ ~Return(p)
  <2>1. Agrees([handler[p] EXCEPT !.pc = "storeBadge"], status'[r], category'[r])
    BY <1>3, <1>8, <1>16 DEF CreateBadge, At, Agrees, UsesCategory, Places, requestVars
  <2> QED
    BY <1>7, <1>16, <2>1 DEF CreateBadge, Places
<1>17. CASE StoreBadge(p)
  <2>1. Agrees([handler[p] EXCEPT !.pc = "finish"], status'[r], category'[r])
    BY <1>3, <1>8, <1>17 DEF StoreBadge, At, Agrees, UsesCategory, Places, requestVars
  <2> QED
    BY <1>7, <1>17, <2>1 DEF StoreBadge, Places
<1>18. CASE CancelWrite(p) /\ ~Return(p)
  <2>1. status'[r] = "CANCELLED" /\ category' = category
    BY <1>3, <1>18 DEF CancelWrite, WriteDecision
  <2>2. Agrees([handler[p] EXCEPT !.pc = "releaseRead"], status'[r], category'[r])
    BY <1>3, <1>8, <1>18, <2>1 DEF CancelWrite, At, Agrees, UsesCategory, Places
  <2> QED
    BY <1>7, <1>18, <2>2 DEF CancelWrite, Places
<1>19. CASE ReleaseRead(p) /\ ~Return(p)
  <2>1. Agrees([handler[p] EXCEPT !.pc = "releaseWrite"], status'[r], category'[r])
    BY <1>3, <1>8, <1>19 DEF ReleaseRead, At, Agrees, UsesCategory, Places, requestVars
  <2> QED
    BY <1>7, <1>19, <2>1 DEF ReleaseRead, Places
<1> QED
  BY <1>5, <1>9, <1>10, <1>11, <1>13, <1>14, <1>15, <1>16, <1>17, <1>18, <1>19
     DEF Continues, DraftUpdate, DraftCreate, SubmitWrite, PatchWrite, ComplementWrite,
         ResolveWrite, DecideFinish, ReleaseWrite

\* Configuring a quota, a failure and the window of the match touch no request.
LEMMA SerialEnvironment ==
  ASSUME SerialInv,
         \/ \E c \in Categories, total \in 0..MaxTotal : ConfigureQuota(c, total)
         \/ WindowChanges
         \/ \E p \in Handlers : Abort(p)
         \/ UNCHANGED vars
  PROVE  SerialInv'
<1>1. TypeInv'
  BY TypeEnvironment DEF SerialInv
<1>2. status' = status /\ category' = category
  BY DEF ConfigureQuota, WindowChanges, Abort, vars, requestVars
<1>3. CASE handler' = handler
  BY <1>1, <1>2, <1>3 DEF SerialInv, Separate, Agrees, At
<1>4. ASSUME NEW p \in Handlers, Abort(p)
      PROVE  SerialInv'
  BY <1>1, <1>2, <1>4, SerialStep DEF Abort, Return
<1> QED
  BY <1>3, <1>4 DEF ConfigureQuota, WindowChanges, vars

\* Snapshots stay current in every reachable state of the serialised system.
LEMMA SerialAlways ==
  ASSUME Serialised
  PROVE  Spec => []SerialInv
<1>1. Init => SerialInv
  BY SerialInit
<1>2. SerialInv /\ [Next]_vars => SerialInv'
  BY SerialStarts, SerialContinues, SerialEnvironment DEF Next
<1> QED
  BY <1>1, <1>2, PTL DEF Spec
=============================================================================
