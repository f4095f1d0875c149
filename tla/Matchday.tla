------------------------------ MODULE Matchday ------------------------------
(***************************************************************************)
(* One match and the requests for it: MatchesService (src/modules/          *)
(* competitions), the submission of a request within the window of the      *)
(* match (SubmitRequestUseCase) and, through Notifications, what the events *)
(* of both set off.                                                         *)
(*                                                                         *)
(* Time is a clock that stops at MaxTime; an opening time that is not set   *)
(* is 0, a closing time MaxTime.  DRAFT, PLAYED and ARCHIVED are like       *)
(* CANCELLED to this code; the place of a match (stadium, city, kickoff)    *)
(* is one field.  The workflow of a request is in RequestWorkflow; here it  *)
(* is a draft, submitted, and rejected or cancelled (CLOSED).               *)
(***************************************************************************)
EXTENDS Notifications

CONSTANTS
  Organisers, \* handlers of updates that may be in flight at the same time
  Callers,    \* handlers of submissions that may be
  Places,     \* values of the place of a match
  MaxTime,    \* bound: the clock
  MaxUpdates  \* bound: updates of the match

ASSUME ClockAssumption == MaxTime \in Nat /\ MaxUpdates \in Nat

Handlers == Organisers \cup Callers

VARIABLES
  now,
  match,    \* the Match row
  handler,
  cron,     \* closeExpiredMatches: "idle", "close" or "publish"
  updates,  \* updates so far
  untold    \* history: impactful fields changed by an update and not announced
            \* since, where the update wrote over the very value it had read

matchVars == <<request, match, untold>>
vars == <<matchVars, now, handler, cron, updates, busVars, faults>>

Times == 0..MaxTime
Statuses == {"OPEN", "CLOSED", "CANCELLED"}
Domain ==
  [status |-> Statuses, place |-> Places, requestsOpenAt |-> Times, requestsCloseAt |-> Times]
MatchRows ==
  [status : Statuses, place : Places, requestsOpenAt : Times, requestsCloseAt : Times]
Fields == DOMAIN Domain

\* Plausible bug: a change of place is forgotten.
IMPACTFUL_FIELDS_NoPlace == {"status", "requestsCloseAt"}

IMPACTFUL_FIELDS == {"status", "place", "requestsCloseAt"}

IdleHandler == [pc |-> "idle", request |-> None, existing |-> None, field |-> None, late |-> FALSE]

HandlerStates ==
  [ pc : {"idle", "updateWrite", "publish", "matchRead", "submitWrite", "submitted"},
    request : Requests \cup {None}, existing : MatchRows \cup {None},
    field : Fields \cup {None}, late : BOOLEAN ]

At(p, place) == handler[p].pc = place
Become(p, state) == handler' = [handler EXCEPT ![p] = state]
Goto(p, place) == Become(p, [handler[p] EXCEPT !.pc = place])
Return(p) == Become(p, IdleHandler)

\* Plausible bug: only the status counts.
Accepting_StatusOnly(row, time) == row.status = "OPEN"

\* assertAcceptingRequests
Accepting(row, time) ==
  row.status = "OPEN" /\ row.requestsOpenAt <= time /\ time <= row.requestsCloseAt

Closes(after, time) == Accepting(match, now) /\ ~Accepting(after, time)

\* late is history: requests were closed while the submission was in flight.
Overtaken ==
  [p \in Handlers |-> IF handler[p].pc = "submitWrite" THEN [handler[p] EXCEPT !.late = TRUE]
                      ELSE handler[p]]

-----------------------------------------------------------------------------
(* update                                                                  *)

UpdateRead(p, field) ==
  /\ At(p, "idle") /\ updates < MaxUpdates
  /\ Become(p, [IdleHandler EXCEPT !.pc = "updateWrite", !.existing = match, !.field = field])
  /\ updates' = updates + 1
  /\ UNCHANGED <<matchVars, now, cron, busVars, faults>>

\* Plausible bug: every field that changed is announced.
Impactful_AnyField(field, before, after) ==
  IF before[field] # after[field] THEN {field} ELSE {}

\* changedFields
Impactful(field, before, after) ==
  IF field \in IMPACTFUL_FIELDS /\ before[field] # after[field] THEN {field} ELSE {}

\* A request gives the fields it changes; one at a time is enough, since each
\* is compared by itself.  The row returned is compared with the row read.
UpdateWrite(p) ==
  /\ At(p, "updateWrite")
  /\ LET field == handler[p].field IN
     \E value \in Domain[field] :
       /\ match' = [match EXCEPT ![field] = value]
       /\ untold' = IF /\ field # "requestsOpenAt"
                       /\ value \notin {match[field], handler[p].existing[field]}
                    THEN untold \cup {field} ELSE untold
       /\ LET others == IF Closes(match', now) THEN Overtaken ELSE handler IN
          handler' = [others EXCEPT ![p] =
            IF Impactful(field, handler[p].existing, match') = {} THEN IdleHandler
            ELSE [handler[p] EXCEPT !.pc = "publish"]]
  /\ UNCHANGED <<updates, request, now, cron, busVars, faults>>

UpdatePublish(p) ==
  /\ At(p, "publish")
  /\ Publish("match.updated", None)
  /\ untold' = untold \ {handler[p].field}
  /\ Return(p)
  /\ UNCHANGED <<updates, request, match, now, cron, log, mailed, faults>>

-----------------------------------------------------------------------------
(* closeExpiredMatches                                                     *)

Expired == match.status = "OPEN" /\ match.requestsCloseAt < now

\* Plausible bug: "gt" for "lt".
CronFind_Swapped ==
  /\ cron = "idle" /\ match.status = "OPEN" /\ match.requestsCloseAt > now
  /\ cron' = "close"
  /\ UNCHANGED <<updates, matchVars, now, handler, busVars, faults>>

\* A tick that finds nothing does nothing.
CronFind ==
  /\ cron = "idle" /\ Expired
  /\ cron' = "close"
  /\ UNCHANGED <<updates, matchVars, now, handler, busVars, faults>>

\* By id, whatever the status is by now.
CronClose ==
  /\ cron = "close"
  /\ match' = [match EXCEPT !.status = "CLOSED"]
  /\ handler' = IF Closes(match', now) THEN Overtaken ELSE handler
  /\ cron' = "publish"
  /\ UNCHANGED <<updates, request, untold, now, busVars, faults>>

CronPublish ==
  /\ cron = "publish"
  /\ Publish("match.requests_closed", None)
  /\ cron' = "idle"
  /\ UNCHANGED <<updates, matchVars, now, handler, log, mailed, faults>>

-----------------------------------------------------------------------------
(* Requests                                                                *)

SubmitRead(p, q) ==
  /\ At(p, "idle")
  /\ request[q] = "DRAFT" /\ \A s \in Handlers : handler[s].request # q
  /\ Become(p, [IdleHandler EXCEPT !.pc = "matchRead", !.request = q])
  /\ UNCHANGED <<updates, matchVars, now, cron, busVars, faults>>

\* getMatch and assertAcceptingRequests.
SubmitCheck(p) ==
  /\ At(p, "matchRead")
  /\ IF Accepting(match, now) THEN Goto(p, "submitWrite") ELSE Return(p)
  /\ UNCHANGED <<updates, matchVars, now, cron, busVars, faults>>

\* The window is not looked at again.
SubmitWrite(p) ==
  /\ At(p, "submitWrite")
  /\ request' = [request EXCEPT ![handler[p].request] = "SUBMITTED"]
  /\ Goto(p, "submitted")
  /\ UNCHANGED <<updates, match, untold, now, cron, busVars, faults>>

SubmitPublish(p) ==
  /\ At(p, "submitted")
  /\ Publish("request.submitted", OwnerOf[handler[p].request])
  /\ Return(p)
  /\ UNCHANGED <<updates, matchVars, now, cron, log, mailed, faults>>

\* A request is rejected, which is told, or cancelled, which only the audit
\* hears of; both in RequestWorkflow.
CloseRequest(q, name) ==
  /\ request[q] = "SUBMITTED" \/ (request[q] = "DRAFT" /\ name = "request.cancelled")
  /\ \A s \in Handlers : handler[s].request # q
  /\ request' = [request EXCEPT ![q] = "CLOSED"]
  /\ Publish(name, OwnerOf[q])
  /\ UNCHANGED <<updates, match, untold, now, handler, cron, log, mailed, faults>>

-----------------------------------------------------------------------------
(* Time and faults                                                         *)

Tick ==
  /\ now < MaxTime
  /\ now' = now + 1
  /\ handler' = IF Closes(match, now') THEN Overtaken ELSE handler
  /\ UNCHANGED <<updates, request, match, untold, cron, busVars, faults>>

\* The database fails a handler or the cron, which end.
Abort(p) ==
  /\ handler[p].pc \in {"updateWrite", "matchRead", "submitWrite"} /\ faults < MaxFaults
  /\ faults' = faults + 1
  /\ Return(p)
  /\ UNCHANGED <<updates, matchVars, now, cron, busVars>>

CronAborts ==
  /\ cron = "close" /\ faults < MaxFaults
  /\ faults' = faults + 1
  /\ cron' = "idle"
  /\ UNCHANGED <<updates, matchVars, now, handler, busVars>>

Crash ==
  /\ faults < MaxFaults
  /\ faults' = faults + 1
  /\ handler' = [p \in Handlers |-> IdleHandler]
  /\ cron' = "idle"
  /\ ListenersDie
  /\ UNCHANGED <<updates, matchVars, now>>

-----------------------------------------------------------------------------
\* A match that is published, and drafts of requests for it.
Init ==
  /\ now = 0
  /\ match \in {row \in MatchRows :
       /\ row.status = "OPEN" /\ row.place = CHOOSE x \in Places : TRUE
       /\ row.requestsOpenAt <= row.requestsCloseAt}
  /\ request = [q \in Requests |-> "DRAFT"]
  /\ handler = [p \in Handlers |-> IdleHandler]
  /\ cron = "idle"
  /\ untold = {}
  /\ updates = 0
  /\ faults = 0
  /\ BusInit

Continues(p) ==
  UpdateWrite(p) \/ UpdatePublish(p) \/ SubmitCheck(p) \/ SubmitWrite(p) \/ SubmitPublish(p)

Cron == CronFind \/ CronClose \/ CronPublish

Next ==
  \/ \E p \in Organisers, field \in Fields : UpdateRead(p, field)
  \/ \E p \in Callers, q \in Requests : SubmitRead(p, q)
  \/ \E p \in Handlers : Continues(p) \/ Abort(p)
  \/ \E q \in Requests : CloseRequest(q, "request.decided") \/ CloseRequest(q, "request.cancelled")
  \/ Cron \/ CronAborts \/ Tick \/ Crash
  \/ \E e \in Events :
       (ListenerSteps(e) \/ ListenerFaults(e)) /\ UNCHANGED <<updates, matchVars, now, handler, cron>>

Spec == Init /\ [][Next]_vars

\* A handler or listener that was called goes on, and the cron runs every
\* minute.  Nobody has to call anything.
Fairness ==
  /\ \A p \in Handlers : WF_vars(Continues(p))
  /\ \A e \in Events : WF_vars(ListenerSteps(e) /\ UNCHANGED <<updates, matchVars, now, handler, cron>>)
  /\ WF_vars(Cron)

FairSpec == Spec /\ Fairness

-----------------------------------------------------------------------------
(* Properties.                                                             *)

\* Every variable has its type, and only impactful fields are announced.
TypeOK ==
  /\ now \in Times /\ match \in MatchRows
  /\ request \in [Requests -> RequestStatuses]
  /\ handler \in [Handlers -> HandlerStates]
  /\ \A p \in Handlers : At(p, "publish") => handler[p].field \in IMPACTFUL_FIELDS
  /\ cron \in {"idle", "close", "publish"}
  /\ untold \subseteq Fields
  /\ faults \in Nat /\ updates \in Nat
  /\ BusTypeOK

\* A request is submitted while the match accepts requests, or was already on
\* its way past the check when the match closed.
SubmissionsInWindow ==
  [][\A q \in Requests : request[q] # "SUBMITTED" /\ request'[q] = "SUBMITTED" =>
       \/ match.status = "OPEN" /\ match.requestsOpenAt <= now /\ now <= match.requestsCloseAt
       \/ \E p \in Handlers : handler[p].request = q /\ handler[p].late]_vars

\* Every change an update made to the place, the status or the closing time is
\* announced by an update that is about to publish, however updates overlap each
\* other and the cron, unless something failed.  Only an update that puts back
\* the value it read, over a newer one, goes unannounced: its row returned is
\* compared with the row it read, so to itself it changed nothing.
ChangesAnnounced ==
  \A field \in untold :
    \/ \E p \in Handlers : At(p, "publish") /\ handler[p].field = field
    \/ faults > 0

\* A match whose closing time has passed does not stay open.
ExpiredGetsClosed == Expired ~> ~Expired

=============================================================================
