---------------------------- MODULE Notifications ----------------------------
(***************************************************************************)
(* What a domain event sets off: DomainEventBusService, NotificationListener *)
(* and NotificationsService.send, AuditListener and AuditService.           *)
(*                                                                         *)
(* publish() calls the listeners at once and waits for none of them.  Each  *)
(* runs on until its first await and then on its own; nothing of it is      *)
(* stored but the rows it writes, so a crash ends every listener for good.  *)
(* No code reads those rows: they are forgotten some time after the         *)
(* listeners of their event have ended, and the event's number serves again.*)
(* An action is what a listener does between two awaits; reads of what no   *)
(* other step writes (profile, template) are part of the step after them.   *)
(***************************************************************************)
EXTENDS Naturals, FiniteSets

CONSTANTS
  Events,      \* numbers of the events whose listeners are under way (bound)
  Requests,    \* requests for accreditation, all for one match
  OwnerOf,     \* their requesters
  None,
  MaxFaults    \* bound: failures of the database and crashes of the process

ASSUME EventsAssumption == Events \subseteq Nat /\ IsFiniteSet(Events)
ASSUME FaultsAssumption == MaxFaults \in Nat

Requesters == {OwnerOf[q] : q \in Requests}

ASSUME NobodyAssumption == None \notin Requests \cup Requesters
ASSUME NoRowAssumption == None \notin {"PENDING", "SENT", "FAILED"}

VARIABLES
  request,  \* AccreditationRequest.status; CLOSED is REJECTED or CANCELLED
  listener, \* the notification of an event: where it is and who is left to tell
  audit,    \* the audit row of an event
  log,      \* NotificationLog rows, by event and requester
  mailed,   \* history: how often the mail of that row was delivered
  faults    \* history: failures of the database and crashes

busVars == <<listener, audit, log, mailed>>

RequestStatuses == {"DRAFT", "SUBMITTED", "CLOSED"}
IdleListener == [pc |-> "idle", to |-> None, left |-> {}]

EndedListener == [IdleListener EXCEPT !.pc = "ended"]

ListenerStates ==
  [ pc : {"idle", "list", "create", "mail", "sent", "failed", "ended"}, to : Requesters \cup {None},
    left : SUBSET Requesters ]

NoRows == [r \in Requesters |-> None]
NoMails == [r \in Requesters |-> 0]

Unused == {e \in Events : listener[e].pc = "idle" /\ audit[e] = "none"}
On(e, place) == listener[e].pc = place
Listen(e, state) == listener' = [listener EXCEPT ![e] = state]
ListenOn(e, place) == Listen(e, [listener[e] EXCEPT !.pc = place])

\* The loop over the recipients: one after the other, in any order.
Told(e, left) ==
  IF left = {} THEN Listen(e, EndedListener)
  ELSE \E r \in left : Listen(e, [pc |-> "create", to |-> r, left |-> left \ {r}])

\* The handlers of the listener, apart from the one of match.updated: each
\* mails the requester its event is about.
Heard ==
  {"user.account_created", "request.submitted", "request.complement_requested",
   "request.decided", "accreditation.generated", "accreditation.revoked"}

Notify(e, name, to) ==
  \/ name = "match.updated" /\ Listen(e, [IdleListener EXCEPT !.pc = "list"])
  \/ name \in Heard /\ Told(e, {to})
  \/ name \notin Heard \cup {"match.updated"} /\ Listen(e, EndedListener)

\* emit: the wildcard listener of the audit hears every event, the listener of
\* the notifications those it has a handler for.
Publish(name, to) ==
  \E e \in Unused :
    /\ \A f \in Unused : e <= f
    /\ audit' = [audit EXCEPT ![e] = "writing"]
    /\ Notify(e, name, to)

-----------------------------------------------------------------------------
(* Notifications                                                           *)

\* onMatchUpdated: everyone with a request that still stands, drafts included.
ListRequesters(e) ==
  /\ On(e, "list")
  /\ Told(e, {OwnerOf[q] : q \in {x \in Requests : request[x] # "CLOSED"}})
  /\ UNCHANGED <<audit, log, mailed, faults>>

\* Plausible bug: the creation of the row is not awaited and may come to nothing.
CreateLog_NotAwaited(e) ==
  /\ On(e, "create")
  /\ log' \in {log, [log EXCEPT ![e][listener[e].to] = "PENDING"]}
  /\ ListenOn(e, "mail")
  /\ UNCHANGED <<audit, mailed, faults>>

CreateLog(e) ==
  /\ On(e, "create")
  /\ log' = [log EXCEPT ![e][listener[e].to] = "PENDING"]
  /\ ListenOn(e, "mail")
  /\ UNCHANGED <<audit, mailed, faults>>

\* The mail server may refuse, or take the mail and fail to say so.
SendMail(e) ==
  /\ On(e, "mail")
  /\ \/ mailed' = [mailed EXCEPT ![e][listener[e].to] = @ + 1] /\ ListenOn(e, "sent")
     \/ mailed' = [mailed EXCEPT ![e][listener[e].to] = @ + 1] /\ ListenOn(e, "failed")
     \/ UNCHANGED mailed /\ ListenOn(e, "failed")
  /\ UNCHANGED <<audit, log, faults>>

MarkSent(e) ==
  /\ On(e, "sent")
  /\ log' = [log EXCEPT ![e][listener[e].to] = "SENT"]
  /\ Told(e, listener[e].left)
  /\ UNCHANGED <<audit, mailed, faults>>

\* The catch is around the update to SENT as well: a mail that was delivered
\* is then logged as FAILED.
MarkSentFails(e) ==
  /\ On(e, "sent") /\ faults < MaxFaults
  /\ faults' = faults + 1
  /\ ListenOn(e, "failed")
  /\ UNCHANGED <<audit, log, mailed>>

\* Plausible bug: the error is thrown again and ends the loop.
MarkFailed_Rethrown(e) ==
  /\ On(e, "failed")
  /\ log' = [log EXCEPT ![e][listener[e].to] = "FAILED"]
  /\ Listen(e, EndedListener)
  /\ UNCHANGED <<audit, mailed, faults>>

MarkFailed(e) ==
  /\ On(e, "failed")
  /\ log' = [log EXCEPT ![e][listener[e].to] = "FAILED"]
  /\ Told(e, listener[e].left)
  /\ UNCHANGED <<audit, mailed, faults>>

\* The database fails outside the try: the listener ends, and with it the mails
\* of everyone left in the loop.
ListenerFails(e) ==
  /\ listener[e].pc \in {"list", "create", "failed"} /\ faults < MaxFaults
  /\ faults' = faults + 1
  /\ Listen(e, EndedListener)
  /\ UNCHANGED <<audit, log, mailed>>

-----------------------------------------------------------------------------
(* Audit                                                                   *)

AuditWrite(e) ==
  /\ audit[e] = "writing"
  /\ audit' = [audit EXCEPT ![e] = "written"]
  /\ UNCHANGED <<listener, log, mailed, faults>>

AuditFails(e) ==
  /\ audit[e] = "writing" /\ faults < MaxFaults
  /\ faults' = faults + 1
  /\ audit' = [audit EXCEPT ![e] = "lost"]
  /\ UNCHANGED <<listener, log, mailed>>

\* The process dies: the listeners with it.
ListenersDie ==
  /\ listener' = [e \in Events |-> IF On(e, "idle") THEN IdleListener ELSE EndedListener]
  /\ audit' = [e \in Events |-> IF audit[e] = "writing" THEN "lost" ELSE audit[e]]
  /\ UNCHANGED <<log, mailed>>

\* What became of an event need not be remembered for ever.
Forget(e) ==
  /\ On(e, "ended") /\ audit[e] # "writing"
  /\ Listen(e, IdleListener)
  /\ audit' = [audit EXCEPT ![e] = "none"]
  /\ log' = [log EXCEPT ![e] = NoRows]
  /\ mailed' = [mailed EXCEPT ![e] = NoMails]
  /\ UNCHANGED faults

-----------------------------------------------------------------------------
BusInit ==
  /\ listener = [e \in Events |-> IdleListener]
  /\ audit = [e \in Events |-> "none"]
  /\ log = [e \in Events |-> NoRows]
  /\ mailed = [e \in Events |-> NoMails]

ListenerSteps(e) ==
  ListRequesters(e) \/ CreateLog(e) \/ SendMail(e) \/ MarkSent(e) \/ MarkFailed(e) \/ AuditWrite(e) \/ Forget(e)

ListenerFaults(e) == MarkSentFails(e) \/ ListenerFails(e) \/ AuditFails(e)

BusTypeOK ==
  /\ listener \in [Events -> ListenerStates]
  /\ audit \in [Events -> {"none", "writing", "written", "lost"}]
  /\ log \in [Events -> [Requesters -> {"PENDING", "SENT", "FAILED", None}]]
  /\ mailed \in [Events -> [Requesters -> Nat]]

\* Whatever fails, a mail leaves a row and is delivered once, and a row says
\* SENT of no mail that was not delivered.
MailsLogged ==
  \A e \in Events, r \in Requesters :
    /\ mailed[e][r] <= 1
    /\ mailed[e][r] = 1 => log[e][r] # None
    /\ log[e][r] = "SENT" => mailed[e][r] = 1

\* Unless the database fails or the process dies, an event ends in the audit
\* trail, and every requester it concerns is mailed or the failure of the mail
\* is logged, whatever becomes of the mails before it in the loop.
EventsServed ==
  \A e \in Events :
    /\ audit[e] = "writing" ~> (audit[e] = "written" \/ faults > 0)
    /\ \A r \in Requesters :
         (r \in listener[e].left \/ listener[e].to = r)
           ~> (log[e][r] \in {"SENT", "FAILED"} \/ faults > 0)

=============================================================================
