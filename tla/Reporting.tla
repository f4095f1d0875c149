----------------------------- MODULE Reporting -----------------------------
(***************************************************************************)
(* The dashboard, the search and the exports of src/modules/reporting.      *)
(* They only read, but each answer is put together from several queries,    *)
(* most of them sent at once (Promise.all) and none in a transaction, while *)
(* requests, badges and scans go on changing.  A query is one action; its   *)
(* answer is kept as the set of rows it saw, of which the dashboard gives   *)
(* the number.                                                              *)
(*                                                                         *)
(* What changes the rows is modelled in RequestWorkflow and AccessControl;  *)
(* here a request takes any transition of its machine.  Of the filters,     *)
(* match is the one that is also a column of the scans; category,           *)
(* competition and media select requests, and stand here as the set of      *)
(* requests they keep.  So does the term of a search.  Numbers of media and *)
(* requesters, which nothing here changes, are left out.                    *)
(***************************************************************************)
EXTENDS RequestStatus, FiniteSets, Integers, Sequences

CONSTANTS
  Readers,    \* handlers of reports that may be in flight at the same time
  Requests,
  Matches,
  MatchOf,    \* the match of each request
  Devices,    \* devices the agents scan with
  Filters,    \* filters staff ask for: [match : Matches \cup {None}, kept : SUBSET Requests or None]
  Reports,    \* reports staff ask for
  Starting,   \* bound: the statuses requests have at first
  None,
  MaxChanges  \* bound: changes to the rows

ASSUME MatchAssumption == MatchOf \in [Requests -> Matches]
ASSUME StartingAssumption == Starting \subseteq RequestStatusValues \cup {None}
ASSUME ChangesAssumption == MaxChanges \in Nat
ASSUME RequestsAssumption == IsFiniteSet(Requests)
ASSUME NoneAssumption == None \notin RequestStatusValues \cup {"ACTIVE", "REVOKED"}

VARIABLES
  status,   \* AccreditationRequest.status, None before the row exists
  badges,   \* Accreditation.status of the badge of each request, None without one
  scans,    \* ScanLog, in the order of insertion
  handler,
  changes   \* changes so far

rows == <<status, badges, scans>>
vars == <<rows, handler, changes>>

-----------------------------------------------------------------------------
(* The queries.                                                            *)

\* Plausible bug: requests about to be validated count as validated.
VALIDATED_STATUSES_Early == {"PENDING_VALIDATION", "VALIDATED", "BADGE_GENERATED", "ACCESS_USED"}

PENDING_STATUSES == {"SUBMITTED", "UNDER_REVIEW", "COMPLETE", "PENDING_VALIDATION"}
VALIDATED_STATUSES == {"VALIDATED", "BADGE_GENERATED", "ACCESS_USED"}

\* requestFilterWhere
Filtered(f) ==
  { r \in Requests : /\ status[r] # None
                     /\ f.match \in {None, MatchOf[r]}
                     /\ f.kept = None \/ r \in f.kept }
InStatus(f, set) == {r \in Filtered(f) : status[r] \in set}
Badged(f) == {r \in Filtered(f) : badges[r] # None}

\* A scan of a badge nobody knows has no request, and is left out as soon as
\* a filter is about requests.
Scanned(f) ==
  { i \in DOMAIN scans : /\ f.match \in {None, scans[i].match}
                         /\ f.kept = None \/ scans[i].badge \in f.kept }
Valid(ids) == {i \in ids : scans[i].result = "VALID"}

\* getGlobalStats
GlobalStats(f) ==
  [ total |-> Filtered(f),
    pending |-> InStatus(f, PENDING_STATUSES),
    validated |-> InStatus(f, VALIDATED_STATUSES),
    rejected |-> InStatus(f, {"REJECTED"}),
    incomplete |-> InStatus(f, {"INFO_REQUESTED"}),
    generated |-> Badged(f),
    used |-> {r \in Badged(f) : \E i \in Valid(DOMAIN scans) : scans[i].badge = r} ]

OnMatch(m) == [match |-> m, kept |-> None]

\* Plausible bug: the breakdown by zone counts refusals too.
MatchDayStats_AllByZone(m) ==
  LET day == Scanned(OnMatch(m)) IN
  [ accredited |-> {r \in Filtered(OnMatch(m)) : badges[r] = "ACTIVE"},
    results |-> day, zones |-> day, lastScans |-> day, devices |-> {scans[i].device : i \in day} ]

\* getMatchDayStats: results and zones are grouped later; lastScans is the
\* whole log as long as it has no more than twenty rows.
MatchDayStats(m) ==
  LET day == Scanned(OnMatch(m)) IN
  [ accredited |-> {r \in Filtered(OnMatch(m)) : badges[r] = "ACTIVE"},
    results |-> day,
    zones |-> Valid(day),
    lastScans |-> day,
    devices |-> {scans[i].device : i \in day} ]

LoadRequests(f) == [requests |-> Filtered(f)]
LoadAccredited(f) == [accredited |-> Badged(f)]
LoadRejected(f) == [rejected |-> InStatus(f, {"REJECTED"})]
LoadPending(f) == [pending |-> InStatus(f, PENDING_STATUSES)]
LoadEntries(f) == [entries |-> Valid(Scanned(f))]
LoadAnomalies(f) == [anomalies |-> Scanned(f) \ Valid(Scanned(f))]

\* search: the badges whose number contains the term and the one whose token it is.
Search(f) == [requests |-> Filtered(f), byNumber |-> Badged(f), byToken |-> Badged(f)]

ExportKeys == {"requests", "accredited", "rejected", "pending", "entries", "anomalies"}

\* The answers a report would get if it ran all its queries now.
Answers(report, f) ==
  CASE report = "dashboard" -> GlobalStats(f)
    [] report \in {"day", "dayPdf"} -> MatchDayStats(f.match)
    [] report = "requests" -> LoadRequests(f)
    [] report = "accredited" -> LoadAccredited(f)
    [] report = "rejected" -> LoadRejected(f)
    [] report = "pending" -> LoadPending(f)
    [] report = "entries" -> LoadEntries(f)
    [] report = "anomalies" -> LoadAnomalies(f)
    [] report = "search" -> Search(f)

-----------------------------------------------------------------------------
(* The handlers.  found has the answers that are in; during is history: the *)
(* changes made since the first query was sent.                             *)

IdleHandler ==
  [pc |-> "idle", report |-> None, filter |-> None, found |-> <<>>, during |-> 0]

At(p, place) == handler[p].pc = place
Become(p, state) == handler' = [handler EXCEPT ![p] = state]
Goto(p, place) == Become(p, [handler[p] EXCEPT !.pc = place])
Return(p) == Become(p, IdleHandler)

\* The exports and the report of the day first read what their heading names
\* (describeScope, the match); the others query at once.
Ask(p, report, f) ==
  /\ At(p, "idle")
  /\ report \in {"day", "dayPdf"} => f.match # None /\ f.kept = None
  /\ Become(p, [IdleHandler EXCEPT !.report = report, !.filter = f,
       !.pc = IF report \in ExportKeys \cup {"dayPdf"} THEN "heading" ELSE "query"])
  /\ UNCHANGED <<rows, changes>>

DescribeScope(p) ==
  /\ At(p, "heading")
  /\ Goto(p, "query")
  /\ UNCHANGED <<rows, changes>>

\* One query of the Promise.all, in whatever order the pool runs them.
Query(p) ==
  /\ At(p, "query")
  /\ LET h == handler[p]
         answers == Answers(h.report, h.filter) IN
     \E q \in DOMAIN answers \ DOMAIN h.found :
       Become(p, [h EXCEPT !.found =
         [x \in DOMAIN h.found \cup {q} |-> IF x = q THEN answers[q] ELSE h.found[x]]])
  /\ UNCHANGED <<rows, changes>>

\* The last answer is in.
Collect(p) ==
  /\ At(p, "query")
  /\ LET h == handler[p] IN
     /\ DOMAIN h.found = DOMAIN Answers(h.report, h.filter)
     /\ Goto(p, IF h.report \in {"rejected", "dayPdf"} THEN "labels"
                ELSE IF h.report \in ExportKeys THEN "render" ELSE "sent")
  /\ UNCHANGED <<rows, changes>>

\* The names of who decided, or of the zones, by ids that were read before.
ResolveLabels(p) ==
  /\ At(p, "labels")
  /\ Goto(p, "render")
  /\ UNCHANGED <<rows, changes>>

\* toCsv, toExcel and toPdf print what was read, and read nothing more.
Render(p) ==
  /\ At(p, "render")
  /\ Goto(p, "sent")
  /\ UNCHANGED <<rows, changes>>

\* Only now is a format looked at, and refused if nobody knows it.
RefuseFormat(p) ==
  /\ At(p, "render") /\ handler[p].report \in ExportKeys
  /\ Return(p)
  /\ UNCHANGED <<rows, changes>>

\* The answer has been sent, or a query failed and with it the report.
Finish(p) ==
  /\ handler[p].pc \in {"heading", "query", "labels", "sent"}
  /\ Return(p)
  /\ UNCHANGED <<rows, changes>>

-----------------------------------------------------------------------------
(* What the rest of the system does meanwhile.                              *)

Noticed ==
  [p \in Readers |-> IF At(p, "query") THEN [handler[p] EXCEPT !.during = @ + 1] ELSE handler[p]]

Change ==
  /\ changes < MaxChanges
  /\ changes' = changes + 1
  /\ handler' = Noticed

CreateRequest(r) ==
  /\ status[r] = None
  /\ Change
  /\ status' = [status EXCEPT ![r] = "DRAFT"]
  /\ UNCHANGED <<badges, scans>>

\* With BADGE_GENERATED comes the badge.
ChangeStatus(r, to) ==
  /\ status[r] # None /\ TransitionAllowed(status[r], to)
  /\ Change
  /\ status' = [status EXCEPT ![r] = to]
  /\ badges' = IF to = "BADGE_GENERATED" THEN [badges EXCEPT ![r] = "ACTIVE"] ELSE badges
  /\ UNCHANGED scans

Revoke(r) ==
  /\ badges[r] = "ACTIVE"
  /\ Change
  /\ badges' = [badges EXCEPT ![r] = "REVOKED"]
  /\ UNCHANGED <<status, scans>>

\* A scan is valid only of an active badge of this match; a refused one may
\* be of no badge at all.
Scan(match, badge, device) ==
  /\ badge # None => badges[badge] # None
  /\ Change
  /\ \E result \in {"VALID", "REFUSED"} :
       /\ result = "VALID" => badge # None /\ badges[badge] = "ACTIVE" /\ MatchOf[badge] = match
       /\ scans' = Append(scans, [match |-> match, badge |-> badge, device |-> device, result |-> result])
  /\ UNCHANGED <<status, badges>>

-----------------------------------------------------------------------------
Init ==
  /\ status \in [Requests -> Starting]
  /\ badges = [r \in Requests |->
       IF status[r] \in {"BADGE_GENERATED", "ACCESS_USED"} THEN "ACTIVE" ELSE None]
  /\ scans = <<>>
  /\ handler = [p \in Readers |-> IdleHandler]
  /\ changes = 0

ReaderSteps(p) ==
  DescribeScope(p) \/ Query(p) \/ Collect(p) \/ ResolveLabels(p)
    \/ Render(p) \/ RefuseFormat(p) \/ Finish(p)

Next ==
  \/ \E p \in Readers, report \in Reports, f \in Filters : Ask(p, report, f)
  \/ \E p \in Readers : ReaderSteps(p)
  \/ \E r \in Requests : CreateRequest(r) \/ Revoke(r)
  \/ \E r \in Requests, to \in RequestStatusValues : ChangeStatus(r, to)
  \/ \E m \in Matches, r \in Requests \cup {None}, d \in Devices : Scan(m, r, d)

Spec == Init /\ [][Next]_vars

-----------------------------------------------------------------------------
(* Properties.                                                             *)

Sent(p, report) == At(p, "sent") /\ handler[p].report = report
Figure(p, q) == Cardinality(handler[p].found[q])

\* The figures of the dashboard disagree by no more than the number of
\* changes that fell between its queries: the states of a request are counted
\* in one figure each, and a badge that was used was generated.
GlobalFiguresAgree ==
  \A p \in Readers : Sent(p, "dashboard") =>
    /\ Figure(p, "pending") + Figure(p, "validated") + Figure(p, "rejected")
         + Figure(p, "incomplete") <= Figure(p, "total") + handler[p].during
    /\ Figure(p, "used") <= Figure(p, "generated") + handler[p].during

\* The figures of a match day disagree by no more than that either: the
\* breakdown by zone adds up to the entries, and every device has a scan.
DayFiguresAgree ==
  \A p \in Readers : Sent(p, "day") =>
    LET entries == Cardinality(Valid(handler[p].found.results))
        zones == Figure(p, "zones")
    IN /\ zones <= entries + handler[p].during
       /\ entries <= zones + handler[p].during
       /\ Figure(p, "devices") <= Figure(p, "results") + handler[p].during

=============================================================================
