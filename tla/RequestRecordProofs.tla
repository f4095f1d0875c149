------------------------ MODULE RequestRecordProofs ------------------------
(***************************************************************************)
(* Theorems about what is recorded of a request besides its slot: its badge, *)
(* its status and its duplicate mark,       for every value of the constants *)
(* of RequestWorkflow.                                                      *)
(***************************************************************************)
EXTENDS RequestQuotaProofs

-----------------------------------------------------------------------------
(* Badges, however the handlers overlap.                                    *)

\* The places behind the creation of the badge.
Issuing == {"storeBadge", "finish"}

\* A handler that got past the creation of a badge finds its row, and past the
\* upload its files: rows and files are never removed.
Issued(h, b, s) ==
  /\ h.pc \in Issuing => h.req \in b
  /\ h.pc = "finish" => h.req \in s

IssuerInv ==
  /\ TypeInv
  /\ \A p \in Handlers : Issued(handler[p], badges, stored)
  /\ SingleBadgeIssuer

\* What a handler holds after a step of a reservation that goes on.
LEMMA ReserveMoves ==
  ASSUME TypeInv, NEW p \in Handlers, ReserveRead(p) \/ ReserveTake(p), ~Return(p)
  PROVE  /\ handler'[p].pc \in {"reserveTake", "decideWrite"}
         /\ handler'[p].to = handler[p].to
         /\ handler'[p].seen = handler[p].seen /\ handler'[p].req = handler[p].req
         /\ handler'[p].pc # handler[p].pc
<1>1. handler \in [Handlers -> LoadedStates] /\ handler[p] \in HandlerStates
  BY DEF TypeInv, LoadedStates
<1>2. ASSUME NEW place, NEW n, Become(p, [handler[p] EXCEPT !.pc = place, !.limit = n])
      PROVE  /\ handler'[p].pc = place /\ handler'[p].to = handler[p].to
             /\ handler'[p].seen = handler[p].seen /\ handler'[p].req = handler[p].req
  <2> DEFINE s == [handler[p] EXCEPT !.pc = place, !.limit = n]
  <2>1. handler'[p] = s
    BY <1>1, <1>2, BecomeRow
  <2>2. s.pc = place /\ s.to = handler[p].to /\ s.seen = handler[p].seen /\ s.req = handler[p].req
    BY <1>1 DEF HandlerStates
  <2> QED
    BY <2>1, <2>2
<1>3. CASE ReserveRead(p)
  <2>1. PICK n : Become(p, [handler[p] EXCEPT !.pc = "reserveTake", !.limit = n])
    BY <1>3 DEF ReserveRead
  <2>2. handler[p].pc = "reserveRead"
    BY <1>3 DEF ReserveRead, At
  <2>3. /\ handler'[p].pc = "reserveTake" /\ handler'[p].to = handler[p].to
        /\ handler'[p].seen = handler[p].seen /\ handler'[p].req = handler[p].req
    BY <1>2, <2>1
  <2> QED
    BY <2>2, <2>3
<1>4. CASE ReserveTake(p)
  <2>1. Become(p, [handler[p] EXCEPT !.pc = "decideWrite", !.limit = 0])
    BY <1>4 DEF ReserveTake
  <2>2. handler[p].pc = "reserveTake"
    BY <1>4 DEF ReserveTake, At
  <2>3. /\ handler'[p].pc = "decideWrite" /\ handler'[p].to = handler[p].to
        /\ handler'[p].seen = handler[p].seen /\ handler'[p].req = handler[p].req
    BY <1>2, <2>1
  <2> QED
    BY <2>2, <2>3
<1> QED
  BY <1>3, <1>4

\* And after a duplicate check that goes on.
LEMMA CheckMoves ==
  ASSUME TypeInv, NEW p \in Handlers, SubmitCheck(p), ~Return(p)
  PROVE  /\ handler'[p].pc = "submitWrite"
         /\ handler'[p].req = handler[p].req /\ handler'[p].seen = handler[p].seen
         /\ handler'[p].dup = None => OtherActive(handler[p].req) = {}
<1>1. handler \in [Handlers -> LoadedStates] /\ handler[p] \in HandlerStates
  BY DEF TypeInv, LoadedStates
<1>2. PICK d \in Requests \cup {None} :
        /\ IF OtherActive(handler[p].req) = {} THEN d = None
           ELSE d \in OtherActive(handler[p].req)
        /\ Become(p, [handler[p] EXCEPT !.pc = "submitWrite", !.dup = d])
  BY DEF SubmitCheck
<1> DEFINE s == [handler[p] EXCEPT !.pc = "submitWrite", !.dup = d]
<1>3. handler'[p] = s
  BY <1>1, <1>2, BecomeRow
<1>4. s.pc = "submitWrite" /\ s.req = handler[p].req /\ s.dup = d /\ s.seen = handler[p].seen
  BY <1>1 DEF HandlerStates
<1>5. None \notin OtherActive(handler[p].req)
  BY NoneAssumption DEF OtherActive
<1> QED
  BY <1>2, <1>3, <1>4, <1>5

\* A command that has just started issues nothing and submits nothing yet.
LEMMA StartsNoWrite ==
  ASSUME TypeInv, NEW p \in Handlers, Starts(p)
  PROVE  handler'[p].pc \notin Issuing \cup {"submitWrite"}
<1>1. handler \in [Handlers -> LoadedStates]
  BY DEF TypeInv
<1>2. ASSUME NEW place \in Places \ (Issuing \cup {"submitWrite"}), NEW r, NEW to, NEW k,
             Become(p, Loaded(place, r, to, k)) \/ Become(p, Drafting(place, r, to))
      PROVE  handler'[p].pc \notin Issuing \cup {"submitWrite"}
  BY <1>1, <1>2, BecomeRow DEF Loaded, Drafting
<1> QED
  BY <1>2 DEF Starts, RequesterStarts, StaffStarts, SaveDraftFind, SubmitRead,
     ComplementRead, CancelRead, ResolveRead, PatchRead, DecideRead, Checked, Places, Issuing

\* Only the creation of the row, which the unique requestId lets succeed once,
\* leads to the issuing places, and only the upload to the last of them.
LEMMA ContinuesIssuing ==
  ASSUME TypeInv, NEW p \in Handlers, Continues(p) \/ Abort(p),
         NEW r, r = handler[p].req
  PROVE  /\ badges \subseteq badges' /\ stored \subseteq stored'
         /\ handler'[p].pc \in Issuing =>
              /\ handler'[p].req = r
              /\ \/ handler[p].pc \in Issuing
                 \/ r \notin badges /\ r \in badges'
         /\ handler'[p].pc = "finish" => handler[p].pc \in Issuing /\ r \in stored'
<1>0. handler \in [Handlers -> LoadedStates] /\ handler[p] \in LoadedStates
  BY DEF TypeInv
<1>1. ASSUME NEW place, Goto(p, place)
      PROVE  handler'[p].pc = place /\ handler'[p].req = r
  BY <1>0, <1>1 DEF Goto, Become, LoadedStates, HandlerStates
<1>2. Return(p) => handler'[p].pc = "idle"
  BY <1>0, BecomeRow DEF Return, IdleHandler
<1>3. CASE CreateBadge(p)
  BY <1>1, <1>2, <1>3 DEF CreateBadge, Issuing
<1>4. CASE StoreBadge(p)
  BY <1>1, <1>4 DEF StoreBadge, At, Issuing
<1>5. CASE ReserveRead(p) \/ ReserveTake(p) \/ SubmitCheck(p)
  <2>1. UNCHANGED badgeVars
    BY <1>5 DEF ReserveRead, ReserveTake, SubmitCheck
  <2>2. handler'[p].pc \notin Issuing
    BY <1>2, <1>5, ReserveMoves, CheckMoves DEF Issuing
  <2> QED
    BY <2>1, <2>2 DEF badgeVars, Issuing
<1>6. CASE ResolveMark(p) \/ ResolveCount(p) \/ ReleaseRead(p) \/ DecideWrite(p) \/ CancelWrite(p)
  BY <1>1, <1>2, <1>6 DEF ResolveMark, ResolveCount, ReleaseRead, DecideWrite, CancelWrite,
     badgeVars, Issuing
<1>7. CASE Return(p) /\ UNCHANGED badgeVars
  BY <1>2, <1>7 DEF badgeVars, Issuing
<1> QED
  BY <1>3, <1>4, <1>5, <1>6, <1>7 DEF Continues, Abort, DraftUpdate, DraftCreate,
     SubmitWrite, PatchWrite, ComplementWrite, ResolveWrite, DecideFinish, ReleaseWrite

\* No handler issues a badge initially.
LEMMA IssuerInit == Init => IssuerInv
<1> SUFFICES ASSUME Init PROVE IssuerInv
  OBVIOUS
<1>1. \A p \in Handlers : handler[p].pc = "idle"
  BY DEF Init, IdleHandler
<1> QED
  BY <1>1, TypeInit DEF IssuerInv, Issued, Issuing, SingleBadgeIssuer

\* Every step keeps it: the handler that creates the row finds no other past it.
LEMMA IssuerStep == IssuerInv /\ [Next]_vars => IssuerInv'
<1> SUFFICES ASSUME IssuerInv, [Next]_vars PROVE IssuerInv'
  OBVIOUS
<1>1. TypeInv'
  BY TypeStarts, TypeContinues, TypeEnvironment DEF IssuerInv, Next
<1>2. ASSUME NEW p \in Handlers, Continues(p) \/ Abort(p)
      PROVE  IssuerInv'
  <2> DEFINE r == handler[p].req
  <2>1. \A q \in Handlers \ {p} : handler'[q] = handler[q]
    BY <1>2, ContinuesAlone DEF IssuerInv
  <2>2. /\ badges \subseteq badges' /\ stored \subseteq stored'
        /\ handler'[p].pc \in Issuing =>
             /\ handler'[p].req = r
             /\ handler[p].pc \in Issuing \/ (r \notin badges /\ r \in badges')
        /\ handler'[p].pc = "finish" => handler[p].pc \in Issuing /\ r \in stored'
    BY <1>2, ContinuesIssuing DEF IssuerInv
  <2>3. \A q \in Handlers : Issued(handler'[q], badges', stored')
    BY <2>1, <2>2 DEF IssuerInv, Issued, Issuing
  <2>4. SingleBadgeIssuer'
    <3> SUFFICES ASSUME NEW q \in Handlers, q # p, handler[q].pc \in Issuing,
                        handler'[p].pc \in Issuing, handler[q].req = handler'[p].req
                 PROVE  FALSE
      BY <2>1 DEF IssuerInv, SingleBadgeIssuer, Issuing
    <3>1. handler[q].req = r /\ r \in badges
      BY <2>2 DEF IssuerInv, Issued
    <3>2. handler[p].pc \in Issuing
      BY <2>2, <3>1
    <3> QED
      BY <3>1, <3>2 DEF IssuerInv, SingleBadgeIssuer, Issuing
  <2> QED
    BY <1>1, <2>3, <2>4 DEF IssuerInv
<1>3. ASSUME NEW p \in Handlers, Starts(p)
      PROVE  IssuerInv'
  <2>1. /\ \A q \in Handlers \ {p} : handler'[q] = handler[q]
        /\ badges' = badges /\ stored' = stored
        /\ handler'[p].pc \notin Issuing
    BY <1>3, StartsElsewhere, StartsNoWrite DEF IssuerInv, badgeVars
  <2> QED
    BY <1>1, <2>1 DEF IssuerInv, Issued, Issuing, SingleBadgeIssuer
<1>4. CASE UNCHANGED <<badgeVars, handler>>
  BY <1>1, <1>4 DEF IssuerInv, Issued, SingleBadgeIssuer, badgeVars
<1> QED
  BY <1>2, <1>3, <1>4 DEF Next, ConfigureQuota, WindowChanges, vars

\* However many decisions race on one request and however they fail, one handler
\* at most is past the creation of its badge: the unique requestId decides the
\* race (createBadge in generateAccreditation).
THEOREM OneBadgeIssuer == Spec => []SingleBadgeIssuer
<1>1. IssuerInv => SingleBadgeIssuer
  BY DEF IssuerInv
<1> QED
  BY <1>1, IssuerInit, IssuerStep, PTL DEF Spec

\* A status that stands for a badge is written, and will be written by a handler
\* in flight, only for a request whose badge and files exist.
Target(h, b, s) ==
  /\ h.pc \in {"reserveRead", "reserveTake", "decideWrite"} =>
       h.to \in {"VALIDATED", "REJECTED"}
  /\ h.pc = "patchWrite" =>
       h.to # "BADGE_GENERATED" /\ (h.to = "ACCESS_USED" => h.req \in b \cap s)

BadgeInv ==
  /\ IssuerInv
  /\ \A p \in Handlers : Target(handler[p], badges, stored)
  /\ BadgeBacksStatus

\* A command that starts: a patch to ACCESS_USED read BADGE_GENERATED.
LEMMA StartsTarget ==
  ASSUME "BADGE_GENERATED" \notin PatchTargets, BadgeInv, NEW p \in Handlers, Starts(p)
  PROVE  Target(handler'[p], badges, stored)
<1>1. handler \in [Handlers -> LoadedStates]
  BY DEF BadgeInv, IssuerInv, TypeInv
<1>2. ASSUME NEW place, NEW r, NEW to, NEW k,
             place \notin {"reserveRead", "reserveTake", "decideWrite", "patchWrite"},
             Become(p, Loaded(place, r, to, k))
      PROVE  Target(handler'[p], badges, stored)
  BY <1>1, <1>2, BecomeRow DEF Loaded, Target
<1>3. ASSUME NEW r \in Requests, NEW to \in RequestStatusValues, PatchRead(p, r, to)
      PROVE  Target(handler'[p], badges, stored)
  <2>1. /\ handler'[p].pc = "patchWrite" /\ handler'[p].to = to /\ handler'[p].req = r
        /\ to # "BADGE_GENERATED" /\ TransitionAllowed(status[r], to)
    BY <1>1, <1>3, BecomeRow DEF PatchRead, Checked, Loaded
  <2>2. to = "ACCESS_USED" => status[r] = "BADGE_GENERATED"
    BY <2>1 DEF TransitionAllowed, REQUEST_TRANSITIONS
  <2> QED
    BY <2>1, <2>2 DEF Target, BadgeInv, BadgeBacksStatus
<1>4. ASSUME NEW r \in Requests, NEW to \in {"VALIDATED", "REJECTED"}, DecideRead(p, r, to)
      PROVE  Target(handler'[p], badges, stored)
  <2>1. handler'[p].to = to /\ handler'[p].pc # "patchWrite"
    BY <1>1, <1>4, BecomeRow DEF DecideRead, Checked, Loaded
  <2> QED
    BY <2>1 DEF Target
<1>5. ASSUME NEW r \in Requests, SubmitRead(p, r) \/ CancelRead(p, r) \/ ComplementRead(p, r)
      PROVE  Target(handler'[p], badges, stored)
  BY <1>2, <1>5 DEF SubmitRead, CancelRead, ComplementRead, Checked
<1>6. ASSUME NEW r \in Requests, NEW k \in Complements, ResolveRead(p, r, k)
      PROVE  Target(handler'[p], badges, stored)
  BY <1>2, <1>6 DEF ResolveRead
<1>7. ASSUME NEW o \in Requesters, NEW c \in Categories, SaveDraftFind(p, o, c)
      PROVE  Target(handler'[p], badges, stored)
  BY <1>1, <1>7, BecomeRow DEF SaveDraftFind, Drafting, Target
<1> QED
  BY <1>3, <1>4, <1>5, <1>6, <1>7 DEF Starts, RequesterStarts, StaffStarts

\* The next steps of a decision keep its target.
LEMMA ContinuesTarget ==
  ASSUME TypeInv, NEW p \in Handlers, Continues(p) \/ Abort(p),
         Target(handler[p], badges, stored)
  PROVE  Target(handler'[p], badges', stored')
<1>0. handler \in [Handlers -> LoadedStates] /\ handler[p] \in LoadedStates
  BY DEF TypeInv
<1>1. ASSUME NEW place, Goto(p, place),
             place \notin {"reserveRead", "reserveTake", "decideWrite", "patchWrite"}
      PROVE  Target(handler'[p], badges', stored')
  <2>1. handler'[p].pc = place
    BY <1>0, <1>1 DEF Goto, Become, LoadedStates, HandlerStates
  <2> QED
    BY <1>1, <2>1 DEF Target
<1>2. CASE Return(p)
  BY <1>0, <1>2, BecomeRow DEF Return, IdleHandler, Target
<1>3. CASE (ReserveRead(p) \/ ReserveTake(p)) /\ ~Return(p)
  <2>1. handler[p].pc \in {"reserveRead", "reserveTake"}
    BY <1>3 DEF ReserveRead, ReserveTake, At
  <2> QED
    BY <1>3, <2>1, ReserveMoves DEF Target
<1>4. CASE SubmitCheck(p) /\ ~Return(p)
  BY <1>4, CheckMoves DEF Target
<1> QED
  BY <1>1, <1>2, <1>3, <1>4 DEF Continues, Abort, DraftUpdate, DraftCreate,
     SubmitWrite, PatchWrite, ComplementWrite, ResolveMark, ResolveCount, ResolveWrite,
     DecideWrite, CreateBadge, StoreBadge, DecideFinish, CancelWrite, ReleaseRead, ReleaseWrite

\* A step of a handler in flight that leaves a request BADGE_GENERATED or
\* ACCESS_USED found it so or wrote it for a request whose badge is complete.
LEMMA ContinuesBacked ==
  ASSUME BadgeInv, NEW p \in Handlers, Continues(p), NEW x \in Requests,
         status'[x] \in {"BADGE_GENERATED", "ACCESS_USED"}
  PROVE  x \in badges' \cap stored'
<1>0. /\ handler[p] \in LoadedStates
      /\ status \in [Requests -> RequestStatusValues \cup {None}]
      /\ ~At(p, "idle") /\ handler[p].req \in Requests
  BY ContinuesAlone DEF BadgeInv, IssuerInv, TypeInv, RowsTyped
<1>1. CASE status'[x] = status[x]
  <2>1. badges \subseteq badges' /\ stored \subseteq stored'
    BY ContinuesIssuing DEF BadgeInv, IssuerInv
  <2> QED
    BY <1>1, <2>1 DEF BadgeInv, BadgeBacksStatus
<1>2. ASSUME NEW to, to \notin {"BADGE_GENERATED", "ACCESS_USED"},
             WriteDecision(handler[p].req, to)
      PROVE  status'[x] = status[x]
  BY <1>0, <1>2 DEF WriteDecision
<1>3. CASE DecideFinish(p)
  <2>1. handler[p].req \in badges \cap stored
    BY <1>3 DEF DecideFinish, At, BadgeInv, IssuerInv, Issued, Issuing
  <2>2. status'[x] = status[x] \/ x = handler[p].req
    BY <1>0, <1>3 DEF DecideFinish, WriteDecision
  <2> QED
    BY <1>1, <1>3, <2>1, <2>2 DEF DecideFinish, badgeVars
<1>4. CASE PatchWrite(p)
  <2>1. /\ handler[p].to # "BADGE_GENERATED"
        /\ handler[p].to = "ACCESS_USED" => handler[p].req \in badges \cap stored
    BY <1>4 DEF PatchWrite, At, BadgeInv, Target
  <2>2. status'[x] = status[x] \/ (x = handler[p].req /\ status'[x] = handler[p].to)
    BY <1>0, <1>4 DEF PatchWrite, WriteDecision
  <2> QED
    BY <1>1, <1>4, <2>1, <2>2 DEF PatchWrite, badgeVars
<1>5. CASE DecideWrite(p)
  <2>1. handler[p].to \in {"VALIDATED", "REJECTED"}
    BY <1>5 DEF DecideWrite, At, BadgeInv, Target
  <2> QED
    BY <1>1, <1>2, <1>5, <2>1 DEF DecideWrite
<1>6. CASE SubmitWrite(p) \/ ComplementWrite(p) \/ CancelWrite(p)
  BY <1>1, <1>2, <1>6 DEF SubmitWrite, ComplementWrite, CancelWrite
<1>7. CASE DraftCreate(p) \/ ResolveWrite(p)
  BY <1>0, <1>1, <1>7 DEF DraftCreate, ResolveWrite
<1>8. CASE UNCHANGED status
  BY <1>1, <1>8
<1> QED
  BY <1>3, <1>4, <1>5, <1>6, <1>7, <1>8 DEF Continues, DraftUpdate, SubmitCheck, ResolveMark,
     ResolveCount, ReserveRead, ReserveTake, CreateBadge, StoreBadge, ReleaseRead,
     ReleaseWrite, requestVars

\* However the commands overlap and fail, a request is BADGE_GENERATED, or
\* beyond, only with its accreditation row and both its files (decide-request and
\* generateAccreditation): provided staff does not write BADGE_GENERATED by hand
\* through PATCH /admin/requests/:id/status.
THEOREM BadgesBackStatuses ==
  ASSUME "BADGE_GENERATED" \notin PatchTargets
  PROVE  Spec => []BadgeBacksStatus
<1>1. Init => BadgeInv
  <2> SUFFICES ASSUME Init PROVE BadgeInv
    OBVIOUS
  <2>1. \A p \in Handlers : handler[p].pc = "idle"
    BY DEF Init, IdleHandler
  <2>2. BadgeBacksStatus
    BY NoneAssumption DEF Init, BadgeBacksStatus, RequestStatusValues
  <2> QED
    BY <2>1, <2>2, IssuerInit DEF BadgeInv, Target
<1>2. BadgeInv /\ [Next]_vars => BadgeInv'
  <2> SUFFICES ASSUME BadgeInv, [Next]_vars PROVE BadgeInv'
    OBVIOUS
  <2>1. IssuerInv'
    BY IssuerStep DEF BadgeInv
  <2>2. ASSUME NEW p \in Handlers, Continues(p) \/ Abort(p)
        PROVE  BadgeInv'
    <3>1. /\ \A q \in Handlers \ {p} : handler'[q] = handler[q]
          /\ badges \subseteq badges' /\ stored \subseteq stored'
          /\ Target(handler'[p], badges', stored')
      BY <2>2, ContinuesAlone, ContinuesIssuing, ContinuesTarget DEF BadgeInv, IssuerInv
    <3>2. \A q \in Handlers : Target(handler'[q], badges', stored')
      BY <3>1 DEF BadgeInv, Target
    <3>3. BadgeBacksStatus'
      BY <2>2, <3>1, ContinuesBacked DEF BadgeInv, BadgeBacksStatus, Abort, requestVars
    <3> QED
      BY <2>1, <3>2, <3>3 DEF BadgeInv
  <2>3. ASSUME NEW p \in Handlers, Starts(p)
        PROVE  BadgeInv'
    <3>1. /\ \A q \in Handlers \ {p} : handler'[q] = handler[q]
          /\ badges' = badges /\ stored' = stored /\ status' = status
          /\ Target(handler'[p], badges, stored)
      BY <2>3, StartsElsewhere, StartsTarget DEF BadgeInv, IssuerInv, badgeVars, requestVars
    <3> QED
      BY <2>1, <3>1 DEF BadgeInv, BadgeBacksStatus
  <2>4. CASE UNCHANGED <<status, badgeVars, handler>>
    BY <2>1, <2>4 DEF BadgeInv, Target, BadgeBacksStatus, badgeVars
  <2> QED
    BY <2>2, <2>3, <2>4 DEF Next, ConfigureQuota, WindowChanges, vars, requestVars
<1>3. BadgeInv => BadgeBacksStatus
  BY DEF BadgeInv
<1> QED
  BY <1>1, <1>2, <1>3, PTL DEF Spec

-----------------------------------------------------------------------------
(* The status machine, however the commands overlap.                        *)

\* A command about to write has read a status from which it may.
Lawful(h) ==
  /\ h.pc \in {"submitCheck", "submitWrite"} => TransitionAllowed(h.seen, "SUBMITTED")
  /\ h.pc \in UsesTarget => TransitionAllowed(h.seen, h.to)
  /\ h.pc = "complementWrite" => TransitionAllowed(h.seen, "INFO_REQUESTED")
  /\ h.pc = "resolveWrite" => h.seen = "INFO_REQUESTED"
  /\ h.pc = "cancelWrite" => TransitionAllowed(h.seen, "CANCELLED")

\* Nobody else can work on a request whose row is being created.
CreatesAlone ==
  \A p \in Handlers : At(p, "draftCreate") =>
    /\ status[handler[p].req] = None
    /\ \A q \in Handlers \ {p} : handler[q].req # handler[p].req

MachineInv ==
  /\ TypeInv
  /\ \A p \in Handlers : Lawful(handler[p])
  /\ CreatesAlone

\* A command starts on a row that exists, or on an identifier nobody uses.
LEMMA StartsLawful ==
  ASSUME TypeInv, NEW p \in Handlers, Starts(p)
  PROVE  /\ Lawful(handler'[p])
         /\ \/ status[handler'[p].req] # None /\ ~At(p, "draftCreate")'
            \/ status[handler'[p].req] = None /\ ~InFlight(handler'[p].req)
<1>0. handler \in [Handlers -> LoadedStates]
  BY DEF TypeInv
<1>1. ASSUME NEW place, NEW r, NEW to, NEW k, Become(p, Loaded(place, r, to, k))
      PROVE  /\ handler'[p].pc = place /\ handler'[p].req = r
             /\ handler'[p].seen = status[r] /\ handler'[p].to = to
  BY <1>0, <1>1, BecomeRow DEF Loaded
<1>2. ASSUME NEW r \in Requests, NEW place \in {"submitCheck", "cancelWrite", "patchWrite",
                                               "reserveRead", "decideWrite"}, NEW to,
             Checked(p, r, place, to),
             place = "submitCheck" => to = "SUBMITTED",
             place = "cancelWrite" => to = "CANCELLED"
      PROVE  /\ Lawful(handler'[p])
             /\ status[handler'[p].req] # None /\ ~At(p, "draftCreate")'
  BY <1>1, <1>2 DEF Checked, Lawful, At, UsesTarget
<1>3. ASSUME NEW r \in Requests, SubmitRead(p, r) \/ CancelRead(p, r)
      PROVE  Lawful(handler'[p]) /\ status[handler'[p].req] # None /\ ~At(p, "draftCreate")'
  BY <1>2, <1>3 DEF SubmitRead, CancelRead
<1>4. ASSUME NEW r \in Requests, NEW to \in RequestStatusValues, PatchRead(p, r, to)
      PROVE  Lawful(handler'[p]) /\ status[handler'[p].req] # None /\ ~At(p, "draftCreate")'
  BY <1>2, <1>4 DEF PatchRead
<1>5. ASSUME NEW r \in Requests, NEW to \in {"VALIDATED", "REJECTED"}, DecideRead(p, r, to)
      PROVE  Lawful(handler'[p]) /\ status[handler'[p].req] # None /\ ~At(p, "draftCreate")'
  BY <1>2, <1>5 DEF DecideRead
<1>6. ASSUME NEW r \in Requests, ComplementRead(p, r)
      PROVE  Lawful(handler'[p]) /\ status[handler'[p].req] # None /\ ~At(p, "draftCreate")'
  BY <1>1, <1>6 DEF ComplementRead, Lawful, At, UsesTarget
<1>7. ASSUME NEW r \in Requests, NEW k \in Complements, ResolveRead(p, r, k)
      PROVE  Lawful(handler'[p]) /\ status[handler'[p].req] # None /\ ~At(p, "draftCreate")'
  BY <1>1, <1>7 DEF ResolveRead, Lawful, At, UsesTarget
<1>8. ASSUME NEW o \in Requesters, NEW c \in Categories, SaveDraftFind(p, o, c)
      PROVE  /\ Lawful(handler'[p])
             /\ \/ status[handler'[p].req] # None /\ ~At(p, "draftCreate")'
                \/ status[handler'[p].req] = None /\ ~InFlight(handler'[p].req)
  <2>1. PICK r \in Requests :
          \/ status[r] = "DRAFT" /\ Become(p, Drafting("draftUpdate", r, c))
          \/ status[r] = None /\ ~InFlight(r) /\ Become(p, Drafting("draftCreate", r, c))
    BY <1>8 DEF SaveDraftFind
  <2>2. ASSUME NEW place, Become(p, Drafting(place, r, c))
        PROVE  handler'[p].pc = place /\ handler'[p].req = r
    BY <1>0, <2>2, BecomeRow DEF Drafting
  <2>3. "DRAFT" # None
    BY NoneAssumption DEF RequestStatusValues
  <2> QED
    BY <2>1, <2>2, <2>3 DEF Lawful, At, UsesTarget
<1> QED
  BY <1>3, <1>4, <1>5, <1>6, <1>7, <1>8 DEF Starts, RequesterStarts, StaffStarts

\* A handler goes on with the snapshot it has, on the request it has.
LEMMA ContinuesLawful ==
  ASSUME TypeInv, NEW p \in Handlers, Continues(p) \/ Abort(p), Lawful(handler[p])
  PROVE  /\ Lawful(handler'[p]) /\ handler'[p] # handler[p]
         /\ ~At(p, "draftCreate")'
         /\ handler'[p].req \in {handler[p].req, None}
<1>0. /\ handler \in [Handlers -> LoadedStates] /\ handler[p] \in HandlerStates
      /\ ~At(p, "idle")
  BY ContinuesAlone DEF TypeInv, LoadedStates
<1>1. ASSUME NEW place, Goto(p, place)
      PROVE  /\ handler'[p].pc = place /\ handler'[p].req = handler[p].req
             /\ handler'[p].seen = handler[p].seen
  BY <1>0, <1>1 DEF Goto, Become, HandlerStates
<1>2. CASE Return(p)
  BY <1>0, <1>2, BecomeRow DEF Return, IdleHandler, Lawful, At, UsesTarget
<1>3. CASE (ReserveRead(p) \/ ReserveTake(p)) /\ ~Return(p)
  <2>1. /\ handler[p].pc \in {"reserveRead", "reserveTake"}
        /\ ReserveRead(p) => handler[p].pc = "reserveRead"
        /\ ReserveTake(p) => handler[p].pc = "reserveTake"
    BY <1>3 DEF ReserveRead, ReserveTake, At
  <2>2. TransitionAllowed(handler[p].seen, handler[p].to)
    BY <2>1 DEF Lawful, UsesTarget
  <2>3. /\ handler'[p].pc \in {"reserveTake", "decideWrite"}
        /\ handler'[p].to = handler[p].to
        /\ handler'[p].seen = handler[p].seen /\ handler'[p].req = handler[p].req
    BY <1>3, ReserveMoves
  <2>4. handler'[p].pc # handler[p].pc
    BY <1>3, <2>1, ReserveMoves
  <2> QED
    BY <2>2, <2>3, <2>4 DEF Lawful, At, UsesTarget
<1>4. CASE SubmitCheck(p) /\ ~Return(p)
  <2>1. At(p, "submitCheck")
    BY <1>4 DEF SubmitCheck
  <2> QED
    BY <1>4, <2>1, CheckMoves DEF Lawful, At, UsesTarget
<1>5. CASE ResolveCount(p) /\ ~Return(p)
  BY <1>1, <1>5 DEF ResolveCount, Lawful, At, UsesTarget
<1>6. ASSUME NEW place \in {"resolveCount", "createBadge", "storeBadge", "finish",
                           "releaseRead", "releaseWrite"},
             Goto(p, place), handler[p].pc # place
      PROVE  /\ Lawful(handler'[p]) /\ handler'[p] # handler[p]
             /\ ~At(p, "draftCreate")' /\ handler'[p].req = handler[p].req
  BY <1>1, <1>6 DEF Lawful, At, UsesTarget
<1> QED
  BY <1>2, <1>3, <1>4, <1>5, <1>6 DEF Continues, Abort, DraftUpdate, DraftCreate,
     SubmitWrite, PatchWrite, ComplementWrite, ResolveMark, ResolveWrite, At,
     DecideWrite, CreateBadge, StoreBadge, DecideFinish, CancelWrite, ReleaseRead, ReleaseWrite

\* A step of a handler in flight changes the status of no other request.
LEMMA ContinuesHere ==
  ASSUME TypeInv, NEW p \in Handlers, Continues(p), NEW x \in Requests, x # handler[p].req
  PROVE  status'[x] = status[x]
<1>1. status \in [Requests -> RequestStatusValues \cup {None}]
  BY DEF TypeInv, RowsTyped
<1> QED
  BY <1>1 DEF Continues, DraftUpdate, DraftCreate, SubmitCheck, SubmitWrite, PatchWrite,
     ComplementWrite, ResolveMark, ResolveCount, ResolveWrite, ReserveRead, ReserveTake,
     DecideWrite, CreateBadge, StoreBadge, DecideFinish, CancelWrite, ReleaseRead,
     ReleaseWrite, WriteDecision, requestVars

\* Every step of the system keeps what the handlers believe lawful.
LEMMA MachineStep == MachineInv /\ [Next]_vars => MachineInv'
<1> SUFFICES ASSUME MachineInv, [Next]_vars PROVE MachineInv'
  OBVIOUS
<1>0. /\ TypeInv /\ handler \in [Handlers -> LoadedStates]
      /\ \A p \in Handlers : At(p, "draftCreate") => handler[p].req \in Requests
  BY DEF MachineInv, TypeInv, LoadedStates, At
<1>1. ASSUME NEW p \in Handlers, Starts(p)
      PROVE  MachineInv'
  <2>1. /\ TypeInv' /\ status' = status
        /\ \A q \in Handlers \ {p} : handler'[q] = handler[q]
    BY <1>0, <1>1, TypeStarts, StartsElsewhere DEF requestVars
  <2>2. /\ Lawful(handler'[p])
        /\ \/ status[handler'[p].req] # None /\ ~At(p, "draftCreate")'
           \/ status[handler'[p].req] = None /\ ~InFlight(handler'[p].req)
    BY <1>0, <1>1, StartsLawful
  <2>3. \A q \in Handlers : Lawful(handler'[q])
    BY <2>1, <2>2 DEF MachineInv
  <2>4. ASSUME NEW q \in Handlers, At(q, "draftCreate")'
        PROVE  /\ status'[handler'[q].req] = None
               /\ \A x \in Handlers \ {q} : handler'[x].req # handler'[q].req
    <3>1. CASE q = p
      BY <2>1, <2>2, <2>4, <3>1 DEF InFlight
    <3>2. CASE q # p
      <4>1. handler'[q] = handler[q] /\ At(q, "draftCreate")
        BY <2>1, <2>4, <3>2 DEF At
      <4>2. /\ status[handler[q].req] = None
            /\ \A x \in Handlers \ {q} : handler[x].req # handler[q].req
        BY <4>1 DEF MachineInv, CreatesAlone
      <4>3. handler'[p].req # handler[q].req
        BY <2>2, <4>2 DEF InFlight
      <4> QED
        BY <2>1, <4>1, <4>2, <4>3
    <3> QED
      BY <3>1, <3>2
  <2> QED
    BY <2>1, <2>3, <2>4 DEF MachineInv, CreatesAlone
<1>2. ASSUME NEW p \in Handlers, Continues(p) \/ Abort(p)
      PROVE  MachineInv'
  <2>1. /\ TypeInv' /\ Lawful(handler'[p]) /\ ~At(p, "draftCreate")'
        /\ handler'[p].req \in {handler[p].req, None}
        /\ \A q \in Handlers \ {p} : handler'[q] = handler[q]
    BY <1>0, <1>2, TypeContinues, TypeEnvironment, ContinuesLawful, ContinuesAlone
       DEF MachineInv
  <2>2. \A q \in Handlers : Lawful(handler'[q])
    BY <2>1 DEF MachineInv
  <2>3. ASSUME NEW q \in Handlers, At(q, "draftCreate")'
        PROVE  /\ status'[handler'[q].req] = None
               /\ \A x \in Handlers \ {q} : handler'[x].req # handler'[q].req
    <3>1. q # p /\ handler'[q] = handler[q] /\ At(q, "draftCreate")
      BY <2>1, <2>3 DEF At
    <3>2. /\ status[handler[q].req] = None /\ handler[q].req \in Requests
          /\ \A x \in Handlers \ {q} : handler[x].req # handler[q].req
      BY <1>0, <3>1 DEF MachineInv, CreatesAlone
    <3>3. status'[handler[q].req] = status[handler[q].req]
      BY <1>0, <1>2, <3>1, <3>2, ContinuesHere DEF Abort, requestVars
    <3>4. handler'[p].req # handler[q].req
      BY <2>1, <3>1, <3>2, NoneAssumption
    <3> QED
      BY <2>1, <3>1, <3>2, <3>3, <3>4
  <2> QED
    BY <2>1, <2>2, <2>3 DEF MachineInv, CreatesAlone
<1>3. CASE UNCHANGED <<status, handler>> /\ TypeInv'
  BY <1>3 DEF MachineInv, CreatesAlone, At
<1> QED
  BY <1>0, <1>1, <1>2, <1>3, TypeEnvironment
     DEF Next, ConfigureQuota, WindowChanges, vars, requestVars

\* The write of a handler in flight: a transition from what it believes.
LEMMA ContinuesMachine ==
  ASSUME MachineInv, NEW p \in Handlers, Continues(p),
         NEW r, r = handler[p].req, status'[r] # status[r]
  PROVE  \/ status[r] = None /\ status'[r] = "DRAFT"
         \/ Believed(p) # None /\ TransitionAllowed(Believed(p), status'[r])
<1>0. /\ r \in Requests /\ status \in [Requests -> RequestStatusValues \cup {None}]
      /\ Lawful(handler[p])
  BY ContinuesAlone DEF MachineInv, TypeInv, RowsTyped
<1>1. \A from, to : TransitionAllowed(from, to) => from # None
  BY NoneAssumption DEF TransitionAllowed, REQUEST_TRANSITIONS, RequestStatusValues
<1>2. CASE DraftCreate(p)
  BY <1>0, <1>2 DEF DraftCreate, MachineInv, CreatesAlone
<1>3. ASSUME NEW to, WriteDecision(r, to)
      PROVE  status'[r] = to
  BY <1>0, <1>3 DEF WriteDecision
<1>4. CASE SubmitWrite(p)
  BY <1>0, <1>1, <1>3, <1>4 DEF SubmitWrite, At, Lawful, Believed
<1>5. CASE PatchWrite(p) \/ DecideWrite(p)
  BY <1>0, <1>1, <1>3, <1>5 DEF PatchWrite, DecideWrite, At, Lawful, Believed, UsesTarget
<1>6. CASE ComplementWrite(p)
  BY <1>0, <1>1, <1>3, <1>6 DEF ComplementWrite, At, Lawful, Believed
<1>7. CASE CancelWrite(p)
  BY <1>0, <1>1, <1>3, <1>7 DEF CancelWrite, At, Lawful, Believed
<1>8. CASE ResolveWrite(p)
  <2>1. status'[r] = "UNDER_REVIEW" /\ Believed(p) = "INFO_REQUESTED"
    BY <1>0, <1>8 DEF ResolveWrite, At, Lawful, Believed
  <2>2. TransitionAllowed("INFO_REQUESTED", "UNDER_REVIEW")
    BY DEF TransitionAllowed, REQUEST_TRANSITIONS
  <2> QED
    BY <1>1, <2>1, <2>2
<1>9. CASE DecideFinish(p)
  <2>1. status'[r] = "BADGE_GENERATED" /\ Believed(p) = "VALIDATED"
    BY <1>0, <1>3, <1>9 DEF DecideFinish, At, Believed
  <2>2. TransitionAllowed("VALIDATED", "BADGE_GENERATED")
    BY DEF TransitionAllowed, REQUEST_TRANSITIONS
  <2> QED
    BY <1>1, <2>1, <2>2
<1>10. CASE UNCHANGED status
  BY <1>10
<1> QED
  BY <1>2, <1>4, <1>5, <1>6, <1>7, <1>8, <1>9, <1>10
     DEF Continues, DraftUpdate, SubmitCheck, ResolveMark, ResolveCount, ReserveRead,
         ReserveTake, CreateBadge, StoreBadge, ReleaseRead, ReleaseWrite, requestVars

\* However commands overlap and fail, a status moves along the machine, or is
\* written by a command that another one has overtaken since its read and that
\* takes an allowed transition from the status it believes
\* (assertTransitionAllowed before every update by id).
THEOREM FollowsMachine == Spec => StatusFollowsMachine
<1> DEFINE Kept ==
      \A r \in Requests :
        status'[r] # status[r] =>
          \/ status[r] = None /\ status'[r] = "DRAFT"
          \/ TransitionAllowed(status[r], status'[r])
          \/ \E p \in Handlers :
               /\ handler[p].req = r /\ handler'[p] # handler[p]
               /\ Believed(p) \notin {None, status[r]}
               /\ TransitionAllowed(Believed(p), status'[r])
<1>1. Init => MachineInv
  BY TypeInit DEF Init, MachineInv, CreatesAlone, Lawful, IdleHandler, At, UsesTarget
<1>2. MachineInv /\ [Next]_vars => [Kept]_vars
  <2> SUFFICES ASSUME MachineInv, Next PROVE Kept
    BY DEF vars, requestVars
  <2>1. ASSUME NEW p \in Handlers, Continues(p) PROVE Kept
    <3> SUFFICES ASSUME NEW r \in Requests, status'[r] # status[r]
                 PROVE  \/ status[r] = None /\ status'[r] = "DRAFT"
                        \/ TransitionAllowed(status[r], status'[r])
                        \/ \E q \in Handlers :
                             /\ handler[q].req = r /\ handler'[q] # handler[q]
                             /\ Believed(q) \notin {None, status[r]}
                             /\ TransitionAllowed(Believed(q), status'[r])
      OBVIOUS
    <3>1. handler[p].req = r
      BY <2>1, ContinuesHere DEF MachineInv
    <3>2. handler'[p] # handler[p]
      BY <2>1, ContinuesLawful DEF MachineInv
    <3>3. \/ status[r] = None /\ status'[r] = "DRAFT"
          \/ Believed(p) # None /\ TransitionAllowed(Believed(p), status'[r])
      BY <2>1, <3>1, ContinuesMachine
    <3> QED
      BY <3>1, <3>2, <3>3
  <2>2. ASSUME NEW p \in Handlers, Starts(p) PROVE Kept
    BY <2>2, StartsElsewhere DEF MachineInv, requestVars
  <2>3. CASE UNCHANGED requestVars
    BY <2>3 DEF requestVars
  <2> QED
    BY <2>1, <2>2, <2>3 DEF Next, Abort, ConfigureQuota, WindowChanges
<1>3. StatusFollowsMachine <=> [][Kept]_vars
  BY PTL DEF StatusFollowsMachine
<1> QED
  BY <1>1, <1>2, <1>3, MachineStep, PTL DEF Spec

-----------------------------------------------------------------------------
(* Supervised deduplication, when commands on one request do not overlap.   *)

\* Handler p looked for another active request and found none.
Cleared(p) == At(p, "submitWrite") /\ handler[p].dup = None

\* While p waits to submit unmarked, every live request of the same requester
\* got its mark, and no other handler is about to submit unmarked for them.
ClearedAlone ==
  \A p \in Handlers : Cleared(p) =>
    /\ \A x \in Requests :
         x # handler[p].req /\ OwnerOf[x] = OwnerOf[handler[p].req] /\ Live(x)
         => duplicateOf[x] # None
    /\ \A q \in Handlers :
         q # p /\ Cleared(q) => OwnerOf[handler[q].req] # OwnerOf[handler[p].req]

DupInv == SerialInv /\ DuplicatesFlagged /\ ClearedAlone

\* Only the write of a submission makes a request live.
LEMMA OnlySubmitEnlivens ==
  ASSUME "SUBMITTED" \notin PatchTargets, SerialInv, NEW p \in Handlers, Continues(p),
         NEW x \in Requests, ~Live(x), Live(x)'
  PROVE  SubmitWrite(p) /\ x = handler[p].req
<1> DEFINE r == handler[p].req
<1>0. /\ r \in Requests /\ Agrees(handler[p], status[r], category[r])
      /\ status \in [Requests -> RequestStatusValues \cup {None}]
  BY ContinuesAlone DEF SerialInv, TypeInv, RowsTyped
<1>1. x = r /\ status'[r] # status[r]
  BY ContinuesStatus DEF Live
<1>2. TransitionAllowed(status[r], status'[r])
  BY <1>1, ContinuesStatus DEF Live
<1>3. status'[r] = "SUBMITTED"
  <2>1. status[r] # None
    BY <1>2, NoneAssumption DEF TransitionAllowed, REQUEST_TRANSITIONS, RequestStatusValues
  <2> QED
    BY <1>1, <1>2, <2>1 DEF Live, TransitionAllowed, REQUEST_TRANSITIONS
<1>4. ASSUME NEW to, to # "SUBMITTED", WriteDecision(r, to)
      PROVE  FALSE
  BY <1>0, <1>3, <1>4 DEF WriteDecision
<1>5. ~PatchWrite(p)
  BY <1>0, <1>4 DEF PatchWrite, At, Agrees
<1>6. ~DecideWrite(p)
  BY <1>0, <1>4 DEF DecideWrite, At, Agrees
<1>7. ~ComplementWrite(p) /\ ~DecideFinish(p) /\ ~CancelWrite(p)
  BY <1>4 DEF ComplementWrite, DecideFinish, CancelWrite
<1>8. ~DraftCreate(p) /\ ~ResolveWrite(p)
  BY <1>0, <1>3 DEF DraftCreate, ResolveWrite
<1> QED
  BY <1>1, <1>5, <1>6, <1>7, <1>8 DEF Continues, DraftUpdate, SubmitCheck, ResolveMark,
     ResolveCount, ReserveRead, ReserveTake, CreateBadge, StoreBadge, ReleaseRead,
     ReleaseWrite, requestVars

\* A mark stays, and a submission with a duplicate in hand sets one.
LEMMA MarksStay ==
  ASSUME SerialInv, NEW p \in Handlers, Continues(p)
  PROVE  /\ \A x \in Requests : duplicateOf[x] # None => duplicateOf'[x] # None
         /\ SubmitWrite(p) /\ ~Cleared(p) => duplicateOf'[handler[p].req] # None
<1>1. duplicateOf \in [Requests -> Requests \cup {None}] /\ handler[p].req \in Requests
  BY ContinuesAlone DEF SerialInv, TypeInv, RowsTyped
<1>2. CASE SubmitWrite(p)
  BY <1>1, <1>2 DEF SubmitWrite, Cleared, At
<1>3. CASE UNCHANGED duplicateOf
  BY <1>3, <1>1 DEF SubmitWrite, Cleared, At
<1> QED
  BY <1>2, <1>3 DEF Continues, DraftUpdate, DraftCreate, SubmitCheck, PatchWrite,
     ComplementWrite, ResolveMark, ResolveCount, ResolveWrite, ReserveRead, ReserveTake,
     DecideWrite, CreateBadge, StoreBadge, DecideFinish, CancelWrite, ReleaseRead,
     ReleaseWrite, requestVars

\* A handler is cleared by the check of the submission, which found no other
\* active request, or was cleared before.
LEMMA ClearedBy ==
  ASSUME SerialInv, NEW p \in Handlers, Continues(p),
         NEW q \in Handlers, Cleared(q)'
  PROVE  /\ handler'[q].req = handler[q].req
         /\ \/ q # p /\ Cleared(q)
            \/ q = p /\ UNCHANGED requestVars /\ OtherActive(handler[p].req) = {}
<1>0. handler \in [Handlers -> LoadedStates] /\ handler[p] \in LoadedStates
  BY DEF SerialInv, TypeInv
<1>1. CASE q # p
  <2>1. handler'[q] = handler[q]
    BY <1>1, ContinuesAlone DEF SerialInv
  <2> QED
    BY <1>1, <2>1 DEF Cleared, At
<1>2. CASE q = p
  <2>1. handler'[p].pc = "submitWrite" /\ handler'[p].dup = None
    BY <1>2 DEF Cleared, At
  <2>2. ~Return(p)
    BY <1>0, <2>1, BecomeRow DEF Return, IdleHandler
  <2>3. ASSUME NEW place, place # "submitWrite", Goto(p, place)
        PROVE  FALSE
    BY <1>0, <2>1, <2>3 DEF Goto, Become, LoadedStates, HandlerStates
  <2>4. ~ReserveRead(p) /\ ~ReserveTake(p)
    BY <2>1, <2>2, ReserveMoves DEF SerialInv
  <2>5. SubmitCheck(p)
    BY <2>2, <2>3, <2>4 DEF Continues, DraftUpdate, DraftCreate, SubmitWrite,
       PatchWrite, ComplementWrite, ResolveMark, ResolveCount, ResolveWrite, DecideWrite,
       CreateBadge, StoreBadge, DecideFinish, CancelWrite, ReleaseRead, ReleaseWrite
  <2>6. /\ handler'[p].req = handler[p].req
        /\ OtherActive(handler[p].req) = {}
    BY <2>1, <2>2, <2>5, CheckMoves DEF SerialInv
  <2> QED
    BY <1>2, <2>5, <2>6 DEF SubmitCheck
<1> QED
  BY <1>1, <1>2

\* A command that starts or fails clears no handler.
LEMMA ClearedElsewhere ==
  ASSUME SerialInv, NEW p \in Handlers, Starts(p) \/ Abort(p), NEW q \in Handlers, Cleared(q)'
  PROVE  handler'[q].req = handler[q].req /\ Cleared(q)
<1>1. CASE q # p
  <2>1. handler'[q] = handler[q]
    BY <1>1, StartsElsewhere, ContinuesAlone DEF SerialInv
  <2> QED
    BY <2>1 DEF Cleared, At
<1>2. CASE q = p
  <2>1. handler'[p].pc # "submitWrite"
    BY StartsNoWrite, BecomeRow DEF SerialInv, TypeInv, Abort, Return, IdleHandler
  <2> QED
    BY <1>2, <2>1 DEF Cleared, At
<1> QED
  BY <1>1, <1>2

\* A step of a handler in flight keeps the marks of live requests complete.
LEMMA ContinuesFlagged ==
  ASSUME "SUBMITTED" \notin PatchTargets, DupInv, NEW p \in Handlers, Continues(p)
  PROVE  DuplicatesFlagged' /\ ClearedAlone'
<1> DEFINE r == handler[p].req
<1>1. \A x \in Requests : duplicateOf[x] # None => duplicateOf'[x] # None
  BY MarksStay DEF DupInv
<1>2. ASSUME NEW x \in Requests, ~Live(x), Live(x)'
      PROVE  /\ SubmitWrite(p) /\ x = r
             /\ Cleared(p) \/ duplicateOf'[x] # None
  BY <1>2, OnlySubmitEnlivens, MarksStay DEF DupInv
<1>3. SubmitWrite(p) => At(p, "submitWrite")
  BY DEF SubmitWrite
<1>4. ASSUME NEW x \in Requests, NEW y \in Requests, x # y, OwnerOf[x] = OwnerOf[y],
             Live(x)', Live(y)', ~Live(x)
      PROVE  duplicateOf'[x] # None \/ duplicateOf'[y] # None
  <2>1. x = r /\ Live(y) /\ (Cleared(p) \/ duplicateOf'[x] # None)
    BY <1>2, <1>4
  <2>2. Cleared(p) => duplicateOf[y] # None
    BY <1>4, <2>1 DEF DupInv, ClearedAlone
  <2> QED
    BY <1>1, <2>1, <2>2
<1>5. DuplicatesFlagged'
  <2> SUFFICES ASSUME NEW x \in Requests, NEW y \in Requests, x # y,
                      OwnerOf[x] = OwnerOf[y], Live(x)', Live(y)'
               PROVE  duplicateOf'[x] # None \/ duplicateOf'[y] # None
    BY DEF DuplicatesFlagged
  <2>1. CASE Live(x) /\ Live(y)
    BY <1>1, <2>1 DEF DupInv, DuplicatesFlagged
  <2> QED
    BY <1>4, <2>1
<1>6. ASSUME NEW q \in Handlers, Cleared(q)',
             NEW x \in Requests, x # handler'[q].req,
             OwnerOf[x] = OwnerOf[handler'[q].req], Live(x)'
      PROVE  duplicateOf'[x] # None
  <2>1. handler'[q].req = handler[q].req
    BY <1>6, ClearedBy DEF DupInv
  <2>2. CASE q = p
    <3>1. OtherActive(r) = {} /\ Live(x)
      BY <1>6, <2>2, ClearedBy DEF DupInv, Live, requestVars
    <3> QED
      BY <1>6, <2>1, <2>2, <3>1 DEF OtherActive, Live
  <2>3. CASE q # p
    <3>1. Cleared(q)
      BY <1>6, <2>3, ClearedBy DEF DupInv
    <3>2. CASE Live(x)
      BY <1>1, <1>6, <2>1, <3>1, <3>2 DEF DupInv, ClearedAlone
    <3>3. CASE ~Live(x)
      <4>1. ~Cleared(p)
        BY <1>2, <1>6, <2>1, <2>3, <3>1, <3>3 DEF DupInv, ClearedAlone
      <4> QED
        BY <1>2, <1>6, <3>3, <4>1
    <3> QED
      BY <3>2, <3>3
  <2> QED
    BY <2>2, <2>3
<1>7. ASSUME NEW q \in Handlers, Cleared(q), q # p, Cleared(p)'
      PROVE  OwnerOf[handler[q].req] # OwnerOf[r]
  <2>1. OtherActive(r) = {}
    BY <1>7, ClearedBy DEF DupInv
  <2>2. status[handler[q].req] = "DRAFT" /\ handler[q].req \in Requests /\ handler[q].req # r
    <3>1. ~At(q, "idle") /\ ~At(p, "idle")
      BY <1>7, ContinuesAlone DEF Cleared, At, DupInv, SerialInv
    <3> QED
      BY <1>7, <3>1, InHand DEF Cleared, At, Agrees, DupInv
  <2> QED
    BY <2>1, <2>2, NoneAssumption DEF OtherActive, RequestStatusValues
<1>8. ASSUME NEW q \in Handlers, NEW s \in Handlers, q # s, Cleared(q)', Cleared(s)'
      PROVE  OwnerOf[handler'[q].req] # OwnerOf[handler'[s].req]
  <2>1. handler'[q].req = handler[q].req /\ handler'[s].req = handler[s].req
    BY <1>8, ClearedBy DEF DupInv
  <2>2. /\ q # p => Cleared(q)
        /\ s # p => Cleared(s)
    BY <1>8, ClearedBy DEF DupInv
  <2> QED
    BY <1>7, <1>8, <2>1, <2>2 DEF DupInv, ClearedAlone
<1> QED
  BY <1>5, <1>6, <1>8 DEF ClearedAlone

\* Of two live requests of one requester for a match one carries a duplicate
\* mark, in whichever order their drafts and submissions interleave and fail
\* (submit-request), as long as clients do not overlap two commands on one
\* request and staff does not submit a draft through PATCH, which looks for no
\* duplicate.
THEOREM DuplicatesMarked ==
  ASSUME Serialised, "SUBMITTED" \notin PatchTargets
  PROVE  Spec => []DuplicatesFlagged
<1>1. Init => DupInv
  <2> SUFFICES ASSUME Init PROVE DupInv
    OBVIOUS
  <2> QED
    BY SerialInit DEF Init, DupInv, DuplicatesFlagged, ClearedAlone, Cleared, At, Live,
       IdleHandler
<1>2. DupInv /\ [Next]_vars => DupInv'
  <2> SUFFICES ASSUME DupInv, [Next]_vars PROVE DupInv'
    OBVIOUS
  <2>1. SerialInv'
    BY SerialStarts, SerialContinues, SerialEnvironment DEF DupInv, Next
  <2>2. ASSUME NEW p \in Handlers, Starts(p) \/ Abort(p)
        PROVE  DupInv'
    <3>1. UNCHANGED requestVars
      BY <2>2, StartsElsewhere DEF DupInv, SerialInv, Abort
    <3>2. \A q \in Handlers : Cleared(q)' =>
            handler'[q].req = handler[q].req /\ Cleared(q)
      BY <2>2, ClearedElsewhere DEF DupInv
    <3> QED
      BY <2>1, <3>1, <3>2 DEF DupInv, DuplicatesFlagged, ClearedAlone, Live, requestVars
  <2>3. CASE UNCHANGED <<requestVars, handler>>
    BY <2>1, <2>3 DEF DupInv, DuplicatesFlagged, ClearedAlone, Cleared, At, Live, requestVars
  <2> QED
    BY <2>1, <2>2, <2>3, ContinuesFlagged DEF Next, ConfigureQuota, WindowChanges, vars, DupInv
<1>3. DupInv => DuplicatesFlagged
  BY DEF DupInv
<1> QED
  BY <1>1, <1>2, <1>3, PTL DEF Spec
=============================================================================
