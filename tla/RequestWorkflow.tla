-------------------------- MODULE RequestWorkflow --------------------------
(***************************************************************************)
(* The commands of the requests module (src/modules/requests/application/   *)
(* commands) composed with the quota rows of the match (module Quotas) and  *)
(* the badge issued by generateAccreditation.                               *)
(*                                                                         *)
(* A command is an async handler: what it does between two awaits is one    *)
(* action here, so the handlers of concurrent HTTP calls interleave at      *)
(* their awaits.  handler[p] is what handler p carries from one await to    *)
(* the next: the place where it waits (pc), its request, and the values it  *)
(* read and will still use although the rows may have changed since.  A     *)
(* Prisma $transaction is one action.                                       *)
(*                                                                         *)
(* The first action of a command is its read of the request together with   *)
(* the guards that follow; a call that a guard refuses has no effect and is *)
(* not an action.  Abort is an await that throws, or the process that dies: *)
(* nothing is retried and nothing is undone.                                *)
(*                                                                         *)
(* All requests are for one match: no statement of these commands relates   *)
(* two matches.                                                             *)
(***************************************************************************)
EXTENDS Quotas, FiniteSets, RequestStatus

CONSTANTS
  Handlers,       \* the handlers that may be in flight at the same time
  Requests,       \* identifiers of AccreditationRequest rows
  Requesters,     \* requester profiles
  OwnerOf,        \* the requester each request belongs to
  Complements,    \* identifiers of the complements of one request
  None,           \* "no value"
  Commands,       \* the commands clients send in this instance
  PatchTargets,   \* the statuses staff ask PATCH /admin/requests/:id/status for
  AllowOverride,  \* whether administrators use overrideQuota
  Serialised,     \* whether clients never overlap two commands on one request
  Failures        \* whether awaits may throw

ASSUME RequestsAssumption == IsFiniteSet(Requests)
ASSUME OwnerAssumption == OwnerOf \in [Requests -> Requesters]
ASSUME NoneAssumption ==
  None \notin Requests \cup Categories \cup Complements \cup RequestStatusValues
ASSUME FlagsAssumption ==
  AllowOverride \in BOOLEAN /\ Serialised \in BOOLEAN /\ Failures \in BOOLEAN
ASSUME PatchAssumption == PatchTargets \subseteq RequestStatusValues

VARIABLES
  accepting,     \* assertAcceptingRequests(match) returns
  status,        \* AccreditationRequest.status, None before the row exists
  category,      \* AccreditationRequest.categoryRequestedId
  duplicateOf,   \* AccreditationRequest.duplicateOfId
  lastDecision,  \* toStatus of the last RequestDecision row
  complement,    \* RequestComplement rows: "absent", "open" or "resolved"
  badges,        \* requests that have an Accreditation row (requestId is UNIQUE)
  stored,        \* requests whose badge.pdf and qr.png are in the object store
  handler        \* the handlers in flight

requestVars == <<status, category, duplicateOf, lastDecision>>
badgeVars == <<badges, stored>>
vars == <<accepting, requestVars, complement, badgeVars, handler, quotaVars>>

-----------------------------------------------------------------------------
(* Handlers.                                                               *)

Places ==
  { "idle", "draftUpdate", "draftCreate", "submitCheck", "submitWrite",
    "patchWrite", "complementWrite", "resolveMark", "resolveCount",
    "resolveWrite", "reserveRead", "reserveTake", "decideWrite",
    "createBadge", "storeBadge", "finish", "cancelWrite", "releaseRead",
    "releaseWrite" }

IdleHandler ==
  [ pc |-> "idle", req |-> None, seen |-> None, cat |-> None, to |-> None,
    dup |-> None, cpl |-> None, limit |-> 0 ]

HandlerStates ==
  [ pc : Places, req : Requests \cup {None},
    seen : RequestStatusValues \cup {None}, cat : Categories \cup {None},
    to : RequestStatusValues \cup {None}, dup : Requests \cup {None},
    cpl : Complements \cup {None}, limit : Nat ]

At(p, place) == handler[p].pc = place

Become(p, state) == handler' = [handler EXCEPT ![p] = state]
Goto(p, place) == Become(p, [handler[p] EXCEPT !.pc = place])
Return(p) == Become(p, IdleHandler)

InFlight(r) == \E q \in Handlers : handler[q].req = r

\* Handler p starts a command on request r.
Arrives(p, command, r) ==
  /\ command \in Commands
  /\ At(p, "idle")
  /\ Serialised => ~InFlight(r)

\* What a command has in hand after it read request r, with the status it is
\* to write or the complement it is about.
Loaded(place, r, to, k) ==
  [ pc |-> place, req |-> r, seen |-> status[r], cat |-> category[r],
    to |-> to, dup |-> None, cpl |-> k, limit |-> 0 ]

\* The draft handler has not read the row: it has the category of the request body.
Drafting(place, r, c) ==
  [ pc |-> place, req |-> r, seen |-> None, cat |-> c,
    to |-> None, dup |-> None, cpl |-> None, limit |-> 0 ]

\* Plausible bug: a command forgets assertTransitionAllowed.
Checked_NoAssertion(p, r, place, to) ==
  /\ status[r] # None
  /\ Become(p, Loaded(place, r, to, None))

\* assertTransitionAllowed on the status just read, with the snapshot kept.
Checked(p, r, place, to) ==
  /\ status[r] # None
  /\ TransitionAllowed(status[r], to)
  /\ Become(p, Loaded(place, r, to, None))

\* The update of the status and its RequestDecision row, in one transaction.
\* Nothing re-reads the status: the write is unconditional.
WriteDecision(r, to) ==
  /\ status' = [status EXCEPT ![r] = to]
  /\ lastDecision' = [lastDecision EXCEPT ![r] = to]

-----------------------------------------------------------------------------
(* SaveDraftRequestUseCase                                                 *)

\* findFirst DRAFT of the requester (no order: any of them).
SaveDraftFind(p, o, c) ==
  \E r \in Requests :
    /\ OwnerOf[r] = o
    /\ Arrives(p, "saveDraft", r)
    /\ \/ /\ status[r] = "DRAFT"
          /\ Become(p, Drafting("draftUpdate", r, c))
       \/ /\ \A x \in Requests : OwnerOf[x] = o => status[x] # "DRAFT"
          /\ status[r] = None /\ ~InFlight(r)
          /\ Become(p, Drafting("draftCreate", r, c))
    /\ UNCHANGED <<accepting, requestVars, complement, badgeVars, quotaVars>>

\* update by id: the row need not be a draft any more.
DraftUpdate(p) ==
  /\ At(p, "draftUpdate")
  /\ category' = [category EXCEPT ![handler[p].req] = handler[p].cat]
  /\ Return(p)
  /\ UNCHANGED <<accepting, status, duplicateOf, lastDecision, complement,
                 badgeVars, quotaVars>>

DraftCreate(p) ==
  /\ At(p, "draftCreate")
  /\ status' = [status EXCEPT ![handler[p].req] = "DRAFT"]
  /\ category' = [category EXCEPT ![handler[p].req] = handler[p].cat]
  /\ Return(p)
  /\ UNCHANGED <<accepting, duplicateOf, lastDecision, complement, badgeVars,
                 quotaVars>>

-----------------------------------------------------------------------------
(* SubmitRequestUseCase                                                    *)

SubmitRead(p, r) ==
  /\ Arrives(p, "submit", r)
  /\ Checked(p, r, "submitCheck", "SUBMITTED")
  /\ UNCHANGED <<accepting, requestVars, complement, badgeVars, quotaVars>>

\* Plausible bug: only submitted requests are looked at for duplicates.
OtherActive_SubmittedOnly(r) ==
  { x \in Requests \ {r} : OwnerOf[x] = OwnerOf[r] /\ status[x] = "SUBMITTED" }

\* The other requests of the same requester and match that are still active;
\* drafts count.
OtherActive(r) ==
  { x \in Requests \ {r} :
      /\ OwnerOf[x] = OwnerOf[r]
      /\ status[x] \notin {None, "REJECTED", "CANCELLED"} }

\* assertAcceptingRequests, then findFirst duplicate (no order: any of them).
SubmitCheck(p) ==
  /\ At(p, "submitCheck")
  /\ IF ~accepting THEN Return(p)
     ELSE \E d \in Requests \cup {None} :
            /\ IF OtherActive(handler[p].req) = {} THEN d = None
               ELSE d \in OtherActive(handler[p].req)
            /\ Become(p, [handler[p] EXCEPT !.pc = "submitWrite", !.dup = d])
  /\ UNCHANGED <<accepting, requestVars, complement, badgeVars, quotaVars>>

\* duplicateOfId: undefined leaves the column as it is.
SubmitWrite(p) ==
  /\ At(p, "submitWrite")
  /\ WriteDecision(handler[p].req, "SUBMITTED")
  /\ duplicateOf' = [duplicateOf EXCEPT ![handler[p].req] =
                       IF handler[p].dup = None THEN @ ELSE handler[p].dup]
  /\ Return(p)
  /\ UNCHANGED <<accepting, category, complement, badgeVars, quotaVars>>

-----------------------------------------------------------------------------
(* TransitionRequestStatusUseCase: PATCH /admin/requests/:id/status         *)

PatchRead(p, r, to) ==
  /\ to \in PatchTargets
  /\ Arrives(p, "patch", r)
  /\ Checked(p, r, "patchWrite", to)
  /\ UNCHANGED <<accepting, requestVars, complement, badgeVars, quotaVars>>

PatchWrite(p) ==
  /\ At(p, "patchWrite")
  /\ WriteDecision(handler[p].req, handler[p].to)
  /\ Return(p)
  /\ UNCHANGED <<accepting, category, duplicateOf, complement, badgeVars, quotaVars>>

-----------------------------------------------------------------------------
(* RequestComplementUseCase and ResolveComplementUseCase                   *)

\* The identifier the create will use is picked with the read: one that no row
\* and no other handler has.
ComplementRead(p, r) ==
  /\ Arrives(p, "complement", r)
  /\ status[r] # None
  /\ TransitionAllowed(status[r], "INFO_REQUESTED")
  /\ \E k \in Complements :
       /\ complement[r][k] = "absent"
       /\ \A q \in Handlers : <<handler[q].req, handler[q].cpl>> # <<r, k>>
       /\ Become(p, Loaded("complementWrite", r, None, k))
  /\ UNCHANGED <<accepting, requestVars, complement, badgeVars, quotaVars>>

ComplementWrite(p) ==
  /\ At(p, "complementWrite")
  /\ complement' = [complement EXCEPT ![handler[p].req][handler[p].cpl] = "open"]
  /\ WriteDecision(handler[p].req, "INFO_REQUESTED")
  /\ Return(p)
  /\ UNCHANGED <<accepting, category, duplicateOf, badgeVars, quotaVars>>

\* The request may be in any status, and the complement already resolved.
ResolveRead(p, r, k) ==
  /\ Arrives(p, "resolve", r)
  /\ status[r] # None
  /\ complement[r][k] # "absent"
  /\ Become(p, Loaded("resolveMark", r, None, k))
  /\ UNCHANGED <<accepting, requestVars, complement, badgeVars, quotaVars>>

ResolveMark(p) ==
  /\ At(p, "resolveMark")
  /\ complement' = [complement EXCEPT ![handler[p].req][handler[p].cpl] = "resolved"]
  /\ Goto(p, "resolveCount")
  /\ UNCHANGED <<accepting, requestVars, badgeVars, quotaVars>>

NoneOpen(r) == \A k \in Complements : complement[r][k] # "open"

\* Plausible bug: the return to the queue is forgotten.
ResolveCount_NoReturn(p) ==
  /\ At(p, "resolveCount")
  /\ Return(p)
  /\ UNCHANGED <<accepting, requestVars, complement, badgeVars, quotaVars>>

\* remainingOpen is counted now; the status compared is the one read first.
ResolveCount(p) ==
  /\ At(p, "resolveCount")
  /\ IF NoneOpen(handler[p].req) /\ handler[p].seen = "INFO_REQUESTED"
     THEN Goto(p, "resolveWrite")
     ELSE Return(p)
  /\ UNCHANGED <<accepting, requestVars, complement, badgeVars, quotaVars>>

\* A bare update: no transition check and no RequestDecision row.
ResolveWrite(p) ==
  /\ At(p, "resolveWrite")
  /\ status' = [status EXCEPT ![handler[p].req] = "UNDER_REVIEW"]
  /\ Return(p)
  /\ UNCHANGED <<accepting, category, duplicateOf, lastDecision, complement,
                 badgeVars, quotaVars>>

-----------------------------------------------------------------------------
(* DecideRequestUseCase, with reserveSlot and generateAccreditation inlined *)

\* Plausible bug: a validation does not reserve a slot.
DecideRead_NoReservation(p, r, to) ==
  /\ Arrives(p, "decide", r)
  /\ Checked(p, r, "decideWrite", to)
  /\ UNCHANGED <<accepting, requestVars, complement, badgeVars, quotaVars>>

\* overrideQuota by an administrator skips the reservation altogether.
DecideRead(p, r, to) ==
  /\ Arrives(p, "decide", r)
  /\ \/ to = "VALIDATED" /\ Checked(p, r, "reserveRead", to)
     \/ to = "VALIDATED" /\ AllowOverride /\ Checked(p, r, "decideWrite", to)
     \/ to = "REJECTED" /\ Checked(p, r, "decideWrite", to)
  /\ UNCHANGED <<accepting, requestVars, complement, badgeVars, quotaVars>>

\* Plausible bug: a missing quota row is not an error.
ReserveRead_NoRowCheck(p) ==
  /\ At(p, "reserveRead")
  /\ Become(p, [handler[p] EXCEPT !.pc = "reserveTake",
                                  !.limit = quotaTotal[handler[p].cat]])
  /\ UNCHANGED <<accepting, requestVars, complement, badgeVars, quotaVars>>

\* The first read of reserveSlot; without a row it throws.
ReserveRead(p) ==
  /\ At(p, "reserveRead")
  /\ IF Configured(handler[p].cat)
     THEN Become(p, [handler[p] EXCEPT !.pc = "reserveTake",
                                       !.limit = quotaTotal[handler[p].cat]])
     ELSE Return(p)
  /\ UNCHANGED <<accepting, requestVars, complement, badgeVars, quotaVars>>

\* The guarded increment; when it matches no row, QUOTA_EXCEEDED.
ReserveTake(p) ==
  /\ At(p, "reserveTake")
  /\ \/ /\ ConsumeSlotBelow(handler[p].cat, handler[p].limit)
        /\ Become(p, [handler[p] EXCEPT !.pc = "decideWrite", !.limit = 0])
     \/ /\ consumed[handler[p].cat] >= handler[p].limit
        /\ Return(p)
        /\ UNCHANGED quotaVars
  /\ UNCHANGED <<accepting, requestVars, complement, badgeVars>>

\* Plausible bug: the badge is not generated after the decision.
DecideWrite_NoBadge(p) ==
  /\ At(p, "decideWrite")
  /\ WriteDecision(handler[p].req, handler[p].to)
  /\ Return(p)
  /\ UNCHANGED <<accepting, category, duplicateOf, complement, badgeVars, quotaVars>>

DecideWrite(p) ==
  /\ At(p, "decideWrite")
  /\ WriteDecision(handler[p].req, handler[p].to)
  /\ IF handler[p].to = "VALIDATED" THEN Goto(p, "createBadge") ELSE Return(p)
  /\ UNCHANGED <<accepting, category, duplicateOf, complement, badgeVars, quotaVars>>

\* Plausible bug: requestId is not UNIQUE, a second badge is created.
CreateBadge_NotUnique(p) ==
  /\ At(p, "createBadge")
  /\ badges' = badges \cup {handler[p].req}
  /\ Goto(p, "storeBadge")
  /\ UNCHANGED <<accepting, requestVars, complement, stored, quotaVars>>

\* The transaction of generateAccreditation: a second row for the request
\* breaks the unique constraint and the handler fails there.
CreateBadge(p) ==
  /\ At(p, "createBadge")
  /\ IF handler[p].req \in badges
     THEN Return(p) /\ UNCHANGED badges
     ELSE badges' = badges \cup {handler[p].req} /\ Goto(p, "storeBadge")
  /\ UNCHANGED <<accepting, requestVars, complement, stored, quotaVars>>

\* Plausible bug: the upload is started and not awaited.
StoreBadge_NotAwaited(p) ==
  /\ At(p, "storeBadge")
  /\ Goto(p, "finish")
  /\ UNCHANGED <<accepting, requestVars, complement, badgeVars, quotaVars>>

StoreBadge(p) ==
  /\ At(p, "storeBadge")
  /\ stored' = stored \cup {handler[p].req}
  /\ Goto(p, "finish")
  /\ UNCHANGED <<accepting, requestVars, complement, badges, quotaVars>>

DecideFinish(p) ==
  /\ At(p, "finish")
  /\ WriteDecision(handler[p].req, "BADGE_GENERATED")
  /\ Return(p)
  /\ UNCHANGED <<accepting, category, duplicateOf, complement, badgeVars, quotaVars>>

-----------------------------------------------------------------------------
(* CancelRequestUseCase, with releaseSlot inlined                          *)

CancelRead(p, r) ==
  /\ Arrives(p, "cancel", r)
  /\ Checked(p, r, "cancelWrite", "CANCELLED")
  /\ UNCHANGED <<accepting, requestVars, complement, badgeVars, quotaVars>>

\* Plausible bug: the slot is released whatever the request was.
CancelWrite_AlwaysReleases(p) ==
  /\ At(p, "cancelWrite")
  /\ WriteDecision(handler[p].req, "CANCELLED")
  /\ Goto(p, "releaseRead")
  /\ UNCHANGED <<accepting, category, duplicateOf, complement, badgeVars, quotaVars>>

CancelWrite(p) ==
  /\ At(p, "cancelWrite")
  /\ WriteDecision(handler[p].req, "CANCELLED")
  /\ IF handler[p].seen \in StatusesWithReservedQuota
     THEN Goto(p, "releaseRead")
     ELSE Return(p)
  /\ UNCHANGED <<accepting, category, duplicateOf, complement, badgeVars, quotaVars>>

\* Without a row getQuotaRow throws; at zero there is nothing to release.
ReleaseRead(p) ==
  /\ At(p, "releaseRead")
  /\ IF Configured(handler[p].cat) /\ consumed[handler[p].cat] > 0
     THEN Goto(p, "releaseWrite")
     ELSE Return(p)
  /\ UNCHANGED <<accepting, requestVars, complement, badgeVars, quotaVars>>

ReleaseWrite(p) ==
  /\ At(p, "releaseWrite")
  /\ GiveBackSlot(handler[p].cat)
  /\ Return(p)
  /\ UNCHANGED <<accepting, requestVars, complement, badgeVars>>

-----------------------------------------------------------------------------
(* The environment, and failures                                           *)

\* The organiser configures the quota of a category.
ConfigureQuota(c, total) ==
  /\ "setQuota" \in Commands
  /\ SetQuota(c, total)
  /\ UNCHANGED <<accepting, requestVars, complement, badgeVars, handler>>

\* The submission window of the match closes: its time is over, the cron
\* closes it or staff cancels the match; staff may reopen it.
WindowChanges ==
  /\ "window" \in Commands
  /\ accepting' = ~accepting
  /\ UNCHANGED <<requestVars, complement, badgeVars, handler, quotaVars>>

\* An await of handler p throws (database, storage, no free reference or
\* badge number left after five draws) or the process dies.
Abort(p) ==
  /\ Failures
  /\ ~At(p, "idle")
  /\ Return(p)
  /\ UNCHANGED <<accepting, requestVars, complement, badgeVars, quotaVars>>

-----------------------------------------------------------------------------
Init ==
  /\ accepting = TRUE
  /\ status = [r \in Requests |-> None]
  /\ category = [r \in Requests |-> None]
  /\ duplicateOf = [r \in Requests |-> None]
  /\ lastDecision = [r \in Requests |-> None]
  /\ complement = [r \in Requests |-> [k \in Complements |-> "absent"]]
  /\ badges = {}
  /\ stored = {}
  /\ handler = [p \in Handlers |-> IdleHandler]
  /\ QuotasInit

\* What a requester may call (the portal) and what staff may (the back office).
RequesterStarts(p) ==
  \/ \E o \in Requesters, c \in Categories : SaveDraftFind(p, o, c)
  \/ \E r \in Requests : SubmitRead(p, r)
  \/ \E r \in Requests, k \in Complements : ResolveRead(p, r, k)

StaffStarts(p) ==
  \E r \in Requests :
    \/ ComplementRead(p, r)
    \/ \E to \in RequestStatusValues : PatchRead(p, r, to)
    \/ \E to \in {"VALIDATED", "REJECTED"} : DecideRead(p, r, to)

\* Both may cancel.
Starts(p) ==
  \/ RequesterStarts(p)
  \/ StaffStarts(p)
  \/ \E r \in Requests : CancelRead(p, r)

\* The next step of a handler that has read its request.
Continues(p) ==
  \/ DraftUpdate(p) \/ DraftCreate(p)
  \/ SubmitCheck(p) \/ SubmitWrite(p)
  \/ PatchWrite(p)
  \/ ComplementWrite(p)
  \/ ResolveMark(p) \/ ResolveCount(p) \/ ResolveWrite(p)
  \/ ReserveRead(p) \/ ReserveTake(p)
  \/ DecideWrite(p) \/ CreateBadge(p) \/ StoreBadge(p) \/ DecideFinish(p)
  \/ CancelWrite(p) \/ ReleaseRead(p) \/ ReleaseWrite(p)

Next ==
  \/ \E p \in Handlers : Starts(p) \/ Continues(p) \/ Abort(p)
  \/ \E c \in Categories, total \in 0..MaxTotal : ConfigureQuota(c, total)
  \/ WindowChanges

Spec == Init /\ [][Next]_vars

\* The event loop resumes a handler whose await has settled.
FairSpec == Spec /\ \A p \in Handlers : WF_vars(Continues(p))

-----------------------------------------------------------------------------
(* Properties.                                                             *)

\* Every variable has its type.  consumed is an integer and not a natural
\* number: releaseSlot decrements without a guard.
TypeOK ==
  /\ accepting \in BOOLEAN
  /\ status \in [Requests -> RequestStatusValues \cup {None}]
  /\ category \in [Requests -> Categories \cup {None}]
  /\ duplicateOf \in [Requests -> Requests \cup {None}]
  /\ lastDecision \in [Requests -> RequestStatusValues \cup {None}]
  /\ complement \in [Requests -> [Complements -> {"absent", "open", "resolved"}]]
  /\ badges \subseteq Requests
  /\ stored \subseteq Requests
  /\ handler \in [Handlers -> HandlerStates]
  /\ QuotasTypeOK

\* The requests of category c that hold a slot.
Holders(c) ==
  { r \in Requests : category[r] = c /\ status[r] \in StatusesWithReservedQuota }

\* Handler p has a slot in hand for its request: reserved and the decision not
\* written yet, or the cancellation written and the slot not given back yet.
HasSlotInHand(p) ==
  \/ At(p, "decideWrite") /\ handler[p].to = "VALIDATED"
  \/ At(p, "releaseRead")
  \/ At(p, "releaseWrite")

\* The requests that account for a consumed slot of category c.
Claims(c) ==
  Holders(c) \cup
  { r \in Requests : category[r] = c /\
      \E p \in Handlers : handler[p].req = r /\ HasSlotInHand(p) }

\* The requests that hold a slot of a category never outnumber the largest
\* total an organiser configured for it, whatever crashes, draft edits, quota
\* changes and decisions on other requests happen in between.
NoOversell == \A c \in Categories : Cardinality(Holders(c)) <= highTotal[c]

\* The counter of a quota row covers every request that holds a slot or has one
\* in hand: a failure may leak a slot but never hands one out twice.
SlotsAccounted ==
  \A c \in Categories : Cardinality(Claims(c)) <= consumed[c]

\* However handlers overlap, the conditional UPDATE of reserveSlot, which
\* compares with a total read one statement earlier, never takes the counter
\* above the largest total ever configured.
WithinHighTotal == \A c \in Categories : consumed[c] <= highTotal[c]

\* A request is BADGE_GENERATED (or beyond) only once its accreditation row and
\* both its files exist, even when generateAccreditation fails half way.
BadgeBacksStatus ==
  \A r \in Requests :
    status[r] \in {"BADGE_GENERATED", "ACCESS_USED"} => r \in badges /\ r \in stored

\* However many decisions race on a request, at most one handler gets past the
\* creation of its badge, so its files, its event and its BADGE_GENERATED row
\* are produced once.
SingleBadgeIssuer ==
  \A p, q \in Handlers :
    /\ handler[p].pc \in {"storeBadge", "finish"}
    /\ handler[q].pc \in {"storeBadge", "finish"}
    /\ handler[p].req = handler[q].req
    => p = q

\* A request past its draft and still alive.
Live(r) == status[r] \notin {None, "DRAFT", "REJECTED", "CANCELLED"}

\* Supervised deduplication: of two live requests of one requester for the
\* match at least one carries a duplicate mark, in whichever order their drafts
\* and submissions interleave.
DuplicatesFlagged ==
  \A r, s \in Requests :
    r # s /\ OwnerOf[r] = OwnerOf[s] /\ Live(r) /\ Live(s)
    => duplicateOf[r] # None \/ duplicateOf[s] # None

\* What the writer of the next status of its request takes that status to be:
\* what it wrote itself, or what its command read first.
Believed(p) ==
  IF handler[p].pc \in {"createBadge", "storeBadge", "finish"}
  THEN "VALIDATED" ELSE handler[p].seen

\* However commands overlap on a request, its status only moves along the
\* machine, but for a command that another one has overtaken since its read:
\* that one writes what the machine allows from the status it still believes.
\* So only a command that was already in flight leaves a terminal status.
StatusFollowsMachine ==
  [][\A r \in Requests :
       status'[r] # status[r] =>
         \/ status[r] = None /\ status'[r] = "DRAFT"
         \/ TransitionAllowed(status[r], status'[r])
         \/ \E p \in Handlers :
              /\ handler[p].req = r /\ handler'[p] # handler[p]
              /\ Believed(p) \notin {None, status[r]}
              /\ TransitionAllowed(Believed(p), status'[r])]_vars

\* The documentation's claim that every change of the status of a request leaves
\* its row in the history of transitions.
StatusChangesLogged ==
  [][\A r \in Requests :
       status[r] # None /\ status'[r] # status[r] => lastDecision'[r] = status'[r]]_vars

\* An administrator's override counts like any validation while there is room:
\* when a validation is written with the counter below the total and covering
\* the holders so far, it covers the new one too.
OverrideCountsWhenRoom ==
  [][\A p \in Handlers, c \in Categories :
       /\ At(p, "decideWrite") /\ ~At(p, "decideWrite")'
       /\ consumed[c] < quotaTotal[c]
       /\ Cardinality(Holders(c)) <= consumed[c]
       => Cardinality(Holders(c)') <= consumed'[c]]_vars

\* The handlers implement the abstract ledger of slots.
Ledger == INSTANCE SlotLedger WITH
            Slots <- Categories,
            holders <- [c \in Categories |-> Claims(c)],
            capacity <- highTotal

ImplementsLedger == Ledger!LedgerSpec

\* A request whose complements are all resolved goes back to the queue: it does
\* not stay INFO_REQUESTED.
ResolvedReturnsToReview ==
  \A r \in Requests :
    (status[r] = "INFO_REQUESTED" /\ NoneOpen(r)) ~> status[r] # "INFO_REQUESTED"

\* A validated request gets its badge unless it is cancelled.
ValidatedGetsBadge ==
  \A r \in Requests : status[r] = "VALIDATED" ~> status[r] # "VALIDATED"
=============================================================================
