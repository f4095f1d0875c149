--------------------------- MODULE ReportingProofs ---------------------------
(***************************************************************************)
(* Theorems about Reporting, for every value of its constants.              *)
(*                                                                         *)
(* A report that is under way has some of its answers; the others it would  *)
(* get now.  Of the two together, which no query changes and a change to    *)
(* the rows changes by one row at most, the figures are proved to agree.    *)
(***************************************************************************)
EXTENDS Reporting, FiniteSetTheorems, TLAPS

-----------------------------------------------------------------------------
(* The rows.                                                               *)

ScanRows ==
  [match : Matches, badge : Requests \cup {None}, device : Devices, result : {"VALID", "REFUSED"}]

RowsTyped ==
  /\ status \in [Requests -> RequestStatusValues \cup {None}]
  /\ badges \in [Requests -> {"ACTIVE", "REVOKED", None}]
  /\ scans \in Seq(ScanRows)

\* The changes to the rows.
Changes ==
  \/ \E r \in Requests : CreateRequest(r) \/ Revoke(r)
  \/ \E r \in Requests, to \in RequestStatusValues : ChangeStatus(r, to)
  \/ \E m \in Matches, r \in Requests \cup {None}, d \in Devices : Scan(m, r, d)

LEMMA FiniteLog == RowsTyped => IsFiniteSet(DOMAIN scans)
<1> SUFFICES ASSUME RowsTyped PROVE IsFiniteSet(DOMAIN scans)
  OBVIOUS
<1>1. DOMAIN scans = 1..Len(scans) /\ Len(scans) \in Int /\ 1 \in Int
  BY DEF RowsTyped
<1>2. IsFiniteSet(1..Len(scans))
  BY <1>1, FS_Interval
<1> QED
  BY <1>1, <1>2

\* A scan appends a row and leaves the others where they are.
LEMMA ScanAppends ==
  ASSUME RowsTyped, NEW m \in Matches, NEW r \in Requests \cup {None}, NEW d \in Devices,
         Scan(m, r, d)
  PROVE  /\ scans' \in Seq(ScanRows)
         /\ DOMAIN scans' = DOMAIN scans \cup {Len(scans) + 1}
         /\ Len(scans) + 1 \notin DOMAIN scans
         /\ \A i \in DOMAIN scans : scans'[i] = scans[i]
         /\ scans'[Len(scans) + 1].badge = r /\ scans'[Len(scans) + 1].device = d
         /\ scans'[Len(scans) + 1].result = "VALID" => r # None
<1>1. PICK result \in {"VALID", "REFUSED"} :
        /\ result = "VALID" => r # None
        /\ scans' = Append(scans, [match |-> m, badge |-> r, device |-> d, result |-> result])
  BY DEF Scan
<1> DEFINE row == [match |-> m, badge |-> r, device |-> d, result |-> result]
<1>2. row \in ScanRows /\ row.badge = r /\ row.device = d /\ row.result = result
  BY DEF ScanRows
<1> HIDE DEF row
<1>3. scans' = Append(scans, row) /\ scans \in Seq(ScanRows)
  BY <1>1 DEF row, RowsTyped
<1>4. /\ scans' \in Seq(ScanRows) /\ DOMAIN scans = 1..Len(scans) /\ Len(scans) \in Nat
      /\ DOMAIN scans' = 1..(Len(scans) + 1)
      /\ scans'[Len(scans) + 1] = row
      /\ \A i \in DOMAIN scans : scans'[i] = scans[i]
  BY <1>2, <1>3
<1> QED
  BY <1>1, <1>2, <1>4

\* Every change keeps the types of the rows.
LEMMA RowsStep == RowsTyped /\ [Next]_vars => RowsTyped'
<1> SUFFICES ASSUME RowsTyped, [Next]_vars PROVE RowsTyped'
  OBVIOUS
<1>1. ASSUME NEW r \in Requests, CreateRequest(r)
      PROVE  RowsTyped'
  BY <1>1 DEF CreateRequest, RowsTyped, RequestStatusValues
<1>2. ASSUME NEW r \in Requests, Revoke(r)
      PROVE  RowsTyped'
  BY <1>2 DEF Revoke, RowsTyped
<1>3. ASSUME NEW r \in Requests, NEW to \in RequestStatusValues, ChangeStatus(r, to)
      PROVE  RowsTyped'
  BY <1>3 DEF ChangeStatus, RowsTyped
<1>4. ASSUME NEW m \in Matches, NEW r \in Requests \cup {None}, NEW d \in Devices, Scan(m, r, d)
      PROVE  RowsTyped'
  BY <1>4, ScanAppends DEF Scan, RowsTyped
<1>5. CASE UNCHANGED rows
  BY <1>5 DEF rows, RowsTyped
<1>6. ASSUME NEW p \in Readers, \/ ReaderSteps(p)
                               \/ \E report \in Reports, f \in Filters : Ask(p, report, f)
      PROVE  UNCHANGED rows
  BY <1>6 DEF ReaderSteps, Ask, DescribeScope, Query, Collect, ResolveLabels, Render,
     RefuseFormat, Finish
<1> QED
  BY <1>1, <1>2, <1>3, <1>4, <1>5, <1>6 DEF Next, vars

-----------------------------------------------------------------------------
(* What a change changes in the figures.                                   *)

\* The figures of the dashboard that count the states of requests.
Counted == {"pending", "validated", "rejected", "incomplete"}
StatusesOf ==
  [ pending |-> PENDING_STATUSES, validated |-> VALIDATED_STATUSES,
    rejected |-> {"REJECTED"}, incomplete |-> {"INFO_REQUESTED"} ]

LEMMA Figures ==
  ASSUME NEW f
  PROVE  /\ \A x \in Counted : GlobalStats(f)[x] = InStatus(f, StatusesOf[x])
         /\ GlobalStats(f)["total"] = Filtered(f)
         /\ GlobalStats(f)["generated"] = Badged(f)
         /\ GlobalStats(f)["used"] =
              {r \in Badged(f) : \E i \in Valid(DOMAIN scans) : scans[i].badge = r}
         /\ DOMAIN GlobalStats(f) = Counted \cup {"total", "generated", "used"}
  BY DEF GlobalStats, Counted, StatusesOf

\* A state is counted in one figure.
LEMMA CountedOnce ==
  ASSUME NEW x \in Counted, NEW y \in Counted, x # y
  PROVE  StatusesOf[x] \cap StatusesOf[y] = {}
  BY DEF Counted, StatusesOf, PENDING_STATUSES, VALIDATED_STATUSES

\* A request enters at most one of the figures that count its state, and one
\* badge at most begins to be used; no request and no badge disappears.
LEMMA GlobalGrows ==
  ASSUME RowsTyped, Changes, NEW f
  PROVE  /\ Filtered(f) \subseteq Filtered(f)' /\ Badged(f) \subseteq Badged(f)'
         /\ \E r : GlobalStats(f)'["used"] \subseteq GlobalStats(f)["used"] \cup {r}
         /\ \E r, k : \A x \in Counted :
              GlobalStats(f)'[x] \subseteq GlobalStats(f)[x] \cup (IF x = k THEN {r} ELSE {})
<1> DEFINE Used == {r \in Badged(f) : \E i \in Valid(DOMAIN scans) : scans[i].badge = r}
<1>0. /\ GlobalStats(f)'["used"] = Used' /\ GlobalStats(f)["used"] = Used
      /\ \A x \in Counted : GlobalStats(f)[x] = InStatus(f, StatusesOf[x])
      /\ \A x \in Counted : GlobalStats(f)'[x] = InStatus(f, StatusesOf[x])'
  BY DEF GlobalStats, Counted, StatusesOf
<1>1. ASSUME NEW r \in Requests, \A q \in Requests \ {r} : status'[q] = status[q]
      PROVE  \E k : \A x \in Counted :
               InStatus(f, StatusesOf[x])' \subseteq
                 InStatus(f, StatusesOf[x]) \cup (IF x = k THEN {r} ELSE {})
  <2>1. \A x \in Counted : InStatus(f, StatusesOf[x])' \subseteq InStatus(f, StatusesOf[x]) \cup {r}
    BY <1>1 DEF InStatus, Filtered
  <2>2. CASE \E k \in Counted : status'[r] \in StatusesOf[k]
    <3>1. PICK k \in Counted : status'[r] \in StatusesOf[k]
      BY <2>2
    <3>2. \A x \in Counted \ {k} : status'[r] \notin StatusesOf[x]
      BY <3>1, CountedOnce
    <3>3. \A x \in Counted \ {k} : r \notin InStatus(f, StatusesOf[x])'
      BY <3>2 DEF InStatus
    <3> QED
      BY <2>1, <3>3
  <2>3. CASE \A k \in Counted : status'[r] \notin StatusesOf[k]
    <3>1. \A x \in Counted : r \notin InStatus(f, StatusesOf[x])'
      BY <2>3 DEF InStatus
    <3> QED
      BY <2>1, <3>1
  <2> QED
    BY <2>2, <2>3
<1>2. ASSUME NEW r \in Requests, CreateRequest(r) \/ Revoke(r)
                                  \/ \E to \in RequestStatusValues : ChangeStatus(r, to)
      PROVE  /\ \A q \in Requests \ {r} : status'[q] = status[q] /\ badges'[q] = badges[q]
             /\ \A q \in Requests : status[q] # None => status'[q] # None
             /\ \A q \in Requests : badges[q] # None => badges'[q] # None
             /\ scans' = scans
  BY <1>2, NoneAssumption DEF CreateRequest, Revoke, ChangeStatus, RowsTyped, RequestStatusValues
<1>3. ASSUME NEW r \in Requests, CreateRequest(r) \/ Revoke(r)
                                  \/ \E to \in RequestStatusValues : ChangeStatus(r, to)
      PROVE  /\ Filtered(f) \subseteq Filtered(f)' /\ Badged(f) \subseteq Badged(f)'
             /\ Used' \subseteq Used \cup {r}
  <2>1. Filtered(f) \subseteq Filtered(f)' /\ Filtered(f)' \subseteq Filtered(f) \cup {r}
    BY <1>2, <1>3 DEF Filtered
  <2>2. Badged(f) \subseteq Badged(f)' /\ Badged(f)' \subseteq Badged(f) \cup {r}
    BY <1>2, <1>3, <2>1 DEF Badged, Filtered
  <2>3. Used' \subseteq Used \cup {r}
    BY <1>2, <1>3, <2>2 DEF Valid
  <2> QED
    BY <2>1, <2>2, <2>3
<1>4. ASSUME NEW m \in Matches, NEW r \in Requests \cup {None}, NEW d \in Devices, Scan(m, r, d)
      PROVE  /\ Filtered(f)' = Filtered(f) /\ Badged(f)' = Badged(f)
             /\ Used' \subseteq Used \cup {r}
             /\ \A x \in Counted : InStatus(f, StatusesOf[x])' = InStatus(f, StatusesOf[x])
  <2>1. status' = status /\ badges' = badges
    BY <1>4 DEF Scan
  <2>2. Filtered(f)' = Filtered(f) /\ Badged(f)' = Badged(f)
    BY <2>1 DEF Filtered, Badged
  <2>3. \A x \in Counted : InStatus(f, StatusesOf[x])' = InStatus(f, StatusesOf[x])
    BY <2>1, <2>2 DEF InStatus
  <2>4. Used' \subseteq Used \cup {r}
    BY <1>4, <2>2, ScanAppends DEF Valid
  <2> QED
    BY <2>2, <2>3, <2>4
<1> HIDE DEF Used
<1>5. CASE \E m \in Matches, r \in Requests \cup {None}, d \in Devices : Scan(m, r, d)
  BY <1>0, <1>4, <1>5
<1>6. CASE \E r \in Requests : \/ CreateRequest(r) \/ Revoke(r)
                               \/ \E to \in RequestStatusValues : ChangeStatus(r, to)
  <2>1. PICK r \in Requests : \/ CreateRequest(r) \/ Revoke(r)
                              \/ \E to \in RequestStatusValues : ChangeStatus(r, to)
    BY <1>6
  <2> QED
    BY <1>0, <1>1, <1>2, <1>3, <2>1
<1> QED
  BY <1>5, <1>6 DEF Changes

\* A scan adds one row to the log of its match, and one device at most; what
\* else changes adds none.
LEMMA DayGrows ==
  ASSUME RowsTyped, Changes, NEW m
  PROVE  /\ \A i \in DOMAIN scans : i \in DOMAIN scans' /\ scans'[i] = scans[i]
         /\ \E n : /\ MatchDayStats(m)'["results"] \subseteq MatchDayStats(m)["results"] \cup {n}
                   /\ MatchDayStats(m)'["zones"] \subseteq MatchDayStats(m)["zones"] \cup {n}
                   /\ DOMAIN scans' \subseteq DOMAIN scans \cup {n}
         /\ MatchDayStats(m)["results"] \subseteq MatchDayStats(m)'["results"]
         /\ MatchDayStats(m)["zones"] \subseteq MatchDayStats(m)'["zones"]
         /\ \E d : MatchDayStats(m)'["devices"] \subseteq MatchDayStats(m)["devices"] \cup {d}
<1> DEFINE Day == Scanned(OnMatch(m))
           Devs == {scans[i].device : i \in Day}
<1>0. /\ MatchDayStats(m)["results"] = Day /\ MatchDayStats(m)["zones"] = Valid(Day)
      /\ MatchDayStats(m)["devices"] = Devs
      /\ MatchDayStats(m)'["results"] = Day' /\ MatchDayStats(m)'["zones"] = Valid(Day)'
      /\ MatchDayStats(m)'["devices"] = Devs'
  BY DEF MatchDayStats
<1>1. CASE scans' = scans
  <2>1. Day' = Day /\ Valid(Day)' = Valid(Day)
    BY <1>1 DEF Scanned, OnMatch, Valid
  <2>2. Devs' = Devs
    BY <1>1, <2>1
  <2> QED
    BY <1>0, <1>1, <2>1, <2>2
<1>2. ASSUME NEW k \in Matches, NEW r \in Requests \cup {None}, NEW d \in Devices, Scan(k, r, d)
      PROVE  /\ \A i \in DOMAIN scans : i \in DOMAIN scans' /\ scans'[i] = scans[i]
             /\ DOMAIN scans' \subseteq DOMAIN scans \cup {Len(scans) + 1}
             /\ Day \subseteq Day' /\ Day' \subseteq Day \cup {Len(scans) + 1}
             /\ Valid(Day) \subseteq Valid(Day)' /\ Valid(Day)' \subseteq Valid(Day) \cup {Len(scans) + 1}
             /\ Devs' \subseteq Devs \cup {d}
  <2>1. /\ DOMAIN scans' = DOMAIN scans \cup {Len(scans) + 1}
        /\ Len(scans) + 1 \notin DOMAIN scans
        /\ \A i \in DOMAIN scans : scans'[i] = scans[i]
        /\ scans'[Len(scans) + 1].device = d
    BY <1>2, ScanAppends
  <2>2. Day \subseteq Day' /\ Day' \subseteq Day \cup {Len(scans) + 1} /\ Day \subseteq DOMAIN scans
    BY <2>1 DEF Scanned
  <2>3. Valid(Day) \subseteq Valid(Day)' /\ Valid(Day)' \subseteq Valid(Day) \cup {Len(scans) + 1}
    BY <2>1, <2>2 DEF Valid
  <2>4. Devs' \subseteq Devs \cup {d}
    BY <2>1, <2>2
  <2> QED
    BY <2>1, <2>2, <2>3, <2>4
<1>3. CASE \E k \in Matches, r \in Requests \cup {None}, d \in Devices : Scan(k, r, d)
  <2>1. PICK k \in Matches, r \in Requests \cup {None}, d \in Devices : Scan(k, r, d)
    BY <1>3
  <2>2. /\ \A i \in DOMAIN scans : i \in DOMAIN scans' /\ scans'[i] = scans[i]
        /\ DOMAIN scans' \subseteq DOMAIN scans \cup {Len(scans) + 1}
        /\ Day \subseteq Day' /\ Day' \subseteq Day \cup {Len(scans) + 1}
        /\ Valid(Day) \subseteq Valid(Day)' /\ Valid(Day)' \subseteq Valid(Day) \cup {Len(scans) + 1}
        /\ Devs' \subseteq Devs \cup {d}
    BY <1>2, <2>1
  <2>3. /\ MatchDayStats(m)'["results"] \subseteq MatchDayStats(m)["results"] \cup {Len(scans) + 1}
        /\ MatchDayStats(m)'["zones"] \subseteq MatchDayStats(m)["zones"] \cup {Len(scans) + 1}
        /\ MatchDayStats(m)["results"] \subseteq MatchDayStats(m)'["results"]
        /\ MatchDayStats(m)["zones"] \subseteq MatchDayStats(m)'["zones"]
        /\ MatchDayStats(m)'["devices"] \subseteq MatchDayStats(m)["devices"] \cup {d}
    BY <1>0, <2>2
  <2> QED
    BY <2>2, <2>3
<1>4. \/ scans' = scans
      \/ \E k \in Matches, r \in Requests \cup {None}, d \in Devices : Scan(k, r, d)
  BY DEF Changes, CreateRequest, Revoke, ChangeStatus
<1> QED
  BY <1>1, <1>3, <1>4

-----------------------------------------------------------------------------
(* Numbers of elements.                                                    *)

LEMMA GrowsByOne ==
  ASSUME NEW S, IsFiniteSet(S), NEW T, NEW r, T \subseteq S \cup {r}
  PROVE  /\ IsFiniteSet(T) /\ Cardinality(T) \in Nat /\ Cardinality(S) \in Nat
         /\ Cardinality(T) <= Cardinality(S) + 1
<1>1. /\ IsFiniteSet(S \cup {r}) /\ Cardinality(S) \in Nat
      /\ Cardinality(S \cup {r}) <= Cardinality(S) + 1
  BY FS_AddElement, FS_CardinalityType
<1>2. IsFiniteSet(T) /\ Cardinality(T) <= Cardinality(S \cup {r})
  BY <1>1, FS_Subset
<1>3. Cardinality(T) \in Nat /\ Cardinality(S \cup {r}) \in Nat
  BY <1>1, <1>2, FS_CardinalityType
<1> QED
  BY <1>1, <1>2, <1>3

LEMMA Grows ==
  ASSUME NEW S, IsFiniteSet(S), NEW T, T \subseteq S
  PROVE  /\ IsFiniteSet(T) /\ Cardinality(T) \in Nat /\ Cardinality(S) \in Nat
         /\ Cardinality(T) <= Cardinality(S)
  BY FS_Subset, FS_CardinalityType

LEMMA TwoParts ==
  ASSUME NEW A, NEW B, IsFiniteSet(A), IsFiniteSet(B), A \cap B = {}
  PROVE  /\ IsFiniteSet(A \cup B)
         /\ Cardinality(A \cup B) = Cardinality(A) + Cardinality(B)
         /\ Cardinality(A) \in Nat /\ Cardinality(B) \in Nat
<1>1. /\ IsFiniteSet(A \cup B)
      /\ Cardinality(A \cup B) = Cardinality(A) + Cardinality(B) - Cardinality(A \cap B)
  BY FS_Union
<1>2. Cardinality(A) \in Nat /\ Cardinality(B) \in Nat
  BY FS_CardinalityType
<1>3. Cardinality(A \cap B) = 0
  BY FS_EmptySet
<1> QED
  BY <1>1, <1>2, <1>3

LEMMA FourParts ==
  ASSUME NEW T, IsFiniteSet(T), NEW A \in SUBSET T, NEW B \in SUBSET T, NEW C \in SUBSET T,
         NEW D \in SUBSET T, A \cap B = {}, A \cap C = {}, A \cap D = {}, B \cap C = {},
         B \cap D = {}, C \cap D = {}
  PROVE  Cardinality(A) + Cardinality(B) + Cardinality(C) + Cardinality(D) <= Cardinality(T)
<1>1. IsFiniteSet(A) /\ IsFiniteSet(B) /\ IsFiniteSet(C) /\ IsFiniteSet(D)
  BY FS_Subset
<1>2. /\ IsFiniteSet(A \cup B) /\ Cardinality(A \cup B) = Cardinality(A) + Cardinality(B)
      /\ Cardinality(A) \in Nat /\ Cardinality(B) \in Nat
  BY <1>1, TwoParts
<1>3. /\ IsFiniteSet(C \cup D) /\ Cardinality(C \cup D) = Cardinality(C) + Cardinality(D)
      /\ Cardinality(C) \in Nat /\ Cardinality(D) \in Nat
  BY <1>1, TwoParts
<1>4. Cardinality((A \cup B) \cup (C \cup D)) = Cardinality(A \cup B) + Cardinality(C \cup D)
  <2>1. (A \cup B) \cap (C \cup D) = {}
    OBVIOUS
  <2> QED
    BY <1>2, <1>3, <2>1, TwoParts
<1>5. Cardinality((A \cup B) \cup (C \cup D)) <= Cardinality(T)
  <2>1. (A \cup B) \cup (C \cup D) \in SUBSET T
    OBVIOUS
  <2> QED
    BY <2>1, FS_Subset
<1> QED
  BY <1>2, <1>3, <1>4, <1>5

\* Of four sets one grows, by one element.
LEMMA FourGrow ==
  ASSUME NEW S \in [Counted -> SUBSET Requests], NEW T \in [Counted -> SUBSET Requests],
         NEW r, NEW k, \A x \in Counted : T[x] \subseteq S[x] \cup (IF x = k THEN {r} ELSE {})
  PROVE  Cardinality(T["pending"]) + Cardinality(T["validated"]) + Cardinality(T["rejected"])
           + Cardinality(T["incomplete"])
         <= Cardinality(S["pending"]) + Cardinality(S["validated"]) + Cardinality(S["rejected"])
           + Cardinality(S["incomplete"]) + 1
<1>1. ASSUME NEW x \in Counted
      PROVE  /\ Cardinality(T[x]) \in Nat /\ Cardinality(S[x]) \in Nat
             /\ Cardinality(T[x]) <= Cardinality(S[x]) + (IF x = k THEN 1 ELSE 0)
  <2>1. IsFiniteSet(S[x])
    BY RequestsAssumption, FS_Subset
  <2>2. CASE x = k
    BY <2>1, <2>2, GrowsByOne
  <2>3. CASE x # k
    BY <2>1, <2>3, Grows
  <2> QED
    BY <2>2, <2>3
<1> QED
  BY <1>1 DEF Counted

-----------------------------------------------------------------------------
(* Reports under way.                                                      *)

\* A handler is a record, whatever answers it has.
Shaped(h) ==
  /\ h = [pc |-> h.pc, report |-> h.report, filter |-> h.filter, found |-> h.found,
          during |-> h.during]
  /\ h.during \in Nat

\* The answers a report has, and those it would get now.
Seen(h, x) == IF x \in DOMAIN h.found THEN h.found[x] ELSE Answers(h.report, h.filter)[x]

GlobalKeys == Counted \cup {"total", "generated", "used"}
DayKeys == {"results", "zones", "devices"}

GlobalSound(h) ==
  /\ h.pc = "sent" => GlobalKeys \subseteq DOMAIN h.found
  /\ \A x \in GlobalKeys : Seen(h, x) \subseteq Requests
  /\ Cardinality(Seen(h, "pending")) + Cardinality(Seen(h, "validated"))
       + Cardinality(Seen(h, "rejected")) + Cardinality(Seen(h, "incomplete"))
     <= Cardinality(Seen(h, "total")) + h.during
  /\ Cardinality(Seen(h, "used")) <= Cardinality(Seen(h, "generated")) + h.during

DaySound(h) ==
  /\ h.pc = "sent" => DayKeys \subseteq DOMAIN h.found
  /\ Seen(h, "results") \subseteq DOMAIN scans /\ Seen(h, "zones") \subseteq DOMAIN scans
  /\ IsFiniteSet(Seen(h, "devices"))
  /\ Cardinality(Seen(h, "zones")) <= Cardinality(Valid(Seen(h, "results"))) + h.during
  /\ Cardinality(Valid(Seen(h, "results"))) <= Cardinality(Seen(h, "zones")) + h.during
  /\ Cardinality(Seen(h, "devices")) <= Cardinality(Seen(h, "results")) + h.during

\* What a handler keeps true.
Sound(h) ==
  /\ Shaped(h)
  /\ h.pc \in {"heading", "labels", "render"} => h.report \notin {"dashboard", "day"}
  /\ h.pc \in {"query", "sent"} /\ h.report = "dashboard" => GlobalSound(h)
  /\ h.pc \in {"query", "sent"} /\ h.report = "day" => DaySound(h)

\* The inductive invariant of both properties.
ReportInv ==
  /\ RowsTyped
  /\ handler = [p \in Readers |-> handler[p]]
  /\ \A p \in Readers : Sound(handler[p])

\* A record of a handler that changes in one field.
LEMMA RecordChanges ==
  ASSUME NEW h, Shaped(h), NEW v
  PROVE  /\ [h EXCEPT !.pc = v] = [pc |-> v, report |-> h.report, filter |-> h.filter,
                                   found |-> h.found, during |-> h.during]
         /\ [h EXCEPT !.found = v] = [pc |-> h.pc, report |-> h.report, filter |-> h.filter,
                                      found |-> v, during |-> h.during]
         /\ [h EXCEPT !.during = v] = [pc |-> h.pc, report |-> h.report, filter |-> h.filter,
                                       found |-> h.found, during |-> v]
  BY DEF Shaped

\* The queries of the two reports.
LEMMA Asked ==
  ASSUME NEW h
  PROVE  /\ h.report = "dashboard" => Answers(h.report, h.filter) = GlobalStats(h.filter)
         /\ h.report = "day" => Answers(h.report, h.filter) = MatchDayStats(h.filter.match)
  BY DEF Answers

\* Without a change the answers are the same.
LEMMA SameAnswers ==
  ASSUME UNCHANGED rows, NEW h, h.report \in {"dashboard", "day"}
  PROVE  Answers(h.report, h.filter)' = Answers(h.report, h.filter)
<1>1. UNCHANGED <<status, badges, scans>>
  BY DEF rows
<1>2. ASSUME NEW f
      PROVE  GlobalStats(f)' = GlobalStats(f)
  BY <1>1 DEF GlobalStats, Filtered, InStatus, Badged, Valid
<1>3. ASSUME NEW m
      PROVE  MatchDayStats(m)' = MatchDayStats(m)
  BY <1>1 DEF MatchDayStats, Scanned, Filtered, Valid
<1> QED
  BY <1>2, <1>3 DEF Answers

LEMMA SameSound ==
  ASSUME UNCHANGED rows, NEW h, Sound(h)
  PROVE  Sound(h)'
<1>1. ASSUME h.report \in {"dashboard", "day"}, NEW x
      PROVE  Seen(h, x)' = Seen(h, x)
  BY <1>1, SameAnswers DEF Seen
<1>2. ASSUME h.report = "dashboard", GlobalSound(h)
      PROVE  GlobalSound(h)'
  BY <1>1, <1>2 DEF GlobalSound
<1>3. ASSUME h.report = "day", DaySound(h)
      PROVE  DaySound(h)'
  BY <1>1, <1>3 DEF DaySound, Valid, rows
<1> QED
  BY <1>2, <1>3 DEF Sound

\* What a handler becomes when a row changes.
Noticing(h) == IF h.pc = "query" THEN [h EXCEPT !.during = @ + 1] ELSE h

LEMMA Noticings ==
  ASSUME NEW h, Shaped(h)
  PROVE  /\ Shaped(Noticing(h)) /\ Noticing(h).pc = h.pc /\ Noticing(h).report = h.report
         /\ Noticing(h).filter = h.filter /\ Noticing(h).found = h.found
         /\ Noticing(h).during = IF h.pc = "query" THEN h.during + 1 ELSE h.during
<1>1. CASE h.pc = "query"
  <2>1. Noticing(h) = [pc |-> h.pc, report |-> h.report, filter |-> h.filter, found |-> h.found,
                       during |-> h.during + 1]
    BY <1>1, RecordChanges DEF Noticing
  <2> QED
    BY <1>1, <2>1 DEF Shaped
<1>2. CASE h.pc # "query"
  BY <1>2 DEF Noticing
<1> QED
  BY <1>1, <1>2

\* A change shifts the figures of a dashboard under way by one at most, and
\* those of one that was sent not at all.
LEMMA GlobalChange ==
  ASSUME RowsTyped, Changes, NEW h, Shaped(h), h.report = "dashboard", GlobalSound(h),
         h.pc \in {"query", "sent"}
  PROVE  GlobalSound(Noticing(h))'
<1> DEFINE g == Noticing(h)
<1>1. /\ g.pc = h.pc /\ g.report = h.report /\ g.filter = h.filter /\ g.found = h.found
      /\ g.during = (IF h.pc = "query" THEN h.during + 1 ELSE h.during) /\ h.during \in Nat
  BY Noticings DEF Shaped
<1>2. /\ \A x : x \in DOMAIN h.found => Seen(g, x)' = Seen(h, x)
      /\ \A x : x \notin DOMAIN h.found =>
           Seen(g, x)' = GlobalStats(h.filter)'[x] /\ Seen(h, x) = GlobalStats(h.filter)[x]
  <2>1. /\ Answers(g.report, g.filter)' = GlobalStats(h.filter)'
        /\ Answers(h.report, h.filter) = GlobalStats(h.filter)
    BY <1>1 DEF Answers
  <2> QED
    BY <1>1, <2>1 DEF Seen
<1>3. \A x \in GlobalKeys : Seen(g, x)' \subseteq Requests /\ Seen(h, x) \subseteq Requests
  <2>1. \A x \in GlobalKeys : GlobalStats(h.filter)'[x] \subseteq Requests
    BY DEF GlobalKeys, Counted, GlobalStats, Filtered, InStatus, Badged
  <2> QED
    BY <1>2, <2>1 DEF GlobalSound
<1> HIDE DEF g
<1>4. CASE h.pc = "sent"
  <2>1. \A x \in GlobalKeys : Seen(g, x)' = Seen(h, x)
    BY <1>2, <1>4 DEF GlobalSound
  <2> QED
    BY <1>1, <1>3, <1>4, <2>1 DEF GlobalSound, GlobalKeys, Counted, g
<1>5. CASE h.pc = "query"
  <2> DEFINE S == [x \in Counted |-> Seen(h, x)]
             T == [x \in Counted |-> Seen(g, x)']
  <2>1. S \in [Counted -> SUBSET Requests] /\ T \in [Counted -> SUBSET Requests]
    BY <1>3 DEF GlobalKeys
  <2>2. /\ Filtered(h.filter) \subseteq Filtered(h.filter)'
        /\ Badged(h.filter) \subseteq Badged(h.filter)'
        /\ \E r : GlobalStats(h.filter)'["used"] \subseteq GlobalStats(h.filter)["used"] \cup {r}
        /\ \E r, k : \A x \in Counted : GlobalStats(h.filter)'[x] \subseteq
                       GlobalStats(h.filter)[x] \cup (IF x = k THEN {r} ELSE {})
    BY GlobalGrows
  <2>3. PICK r, k : \A x \in Counted : T[x] \subseteq S[x] \cup (IF x = k THEN {r} ELSE {})
    BY <1>2, <2>2
  <2>4. Cardinality(T["pending"]) + Cardinality(T["validated"]) + Cardinality(T["rejected"])
          + Cardinality(T["incomplete"])
        <= Cardinality(S["pending"]) + Cardinality(S["validated"]) + Cardinality(S["rejected"])
          + Cardinality(S["incomplete"]) + 1
    BY <2>1, <2>3, FourGrow
  <2>5. /\ Seen(h, "total") \subseteq Seen(g, "total")'
        /\ Seen(h, "generated") \subseteq Seen(g, "generated")'
    <3>1. /\ GlobalStats(h.filter)["total"] = Filtered(h.filter)
          /\ GlobalStats(h.filter)'["total"] = Filtered(h.filter)'
          /\ GlobalStats(h.filter)["generated"] = Badged(h.filter)
          /\ GlobalStats(h.filter)'["generated"] = Badged(h.filter)'
      BY DEF GlobalStats
    <3>2. ASSUME NEW x, GlobalStats(h.filter)[x] \subseteq GlobalStats(h.filter)'[x]
          PROVE  Seen(h, x) \subseteq Seen(g, x)'
      BY <1>2, <3>2
    <3> QED
      BY <2>2, <3>1, <3>2
  <2>6. PICK q : Seen(g, "used")' \subseteq Seen(h, "used") \cup {q}
    BY <1>2, <2>2
  <2>7. ASSUME NEW x \in GlobalKeys
        PROVE  /\ IsFiniteSet(Seen(g, x)') /\ Cardinality(Seen(g, x)') \in Nat
               /\ IsFiniteSet(Seen(h, x)) /\ Cardinality(Seen(h, x)) \in Nat
    BY <1>3, RequestsAssumption, Grows
  <2>8. /\ Cardinality(Seen(h, "total")) <= Cardinality(Seen(g, "total")')
        /\ Cardinality(Seen(h, "generated")) <= Cardinality(Seen(g, "generated")')
        /\ Cardinality(Seen(g, "used")') <= Cardinality(Seen(h, "used")) + 1
    BY <2>5, <2>6, <2>7, Grows, GrowsByOne DEF GlobalKeys
  <2>9. /\ S["pending"] = Seen(h, "pending") /\ T["pending"] = Seen(g, "pending")'
        /\ S["validated"] = Seen(h, "validated") /\ T["validated"] = Seen(g, "validated")'
        /\ S["rejected"] = Seen(h, "rejected") /\ T["rejected"] = Seen(g, "rejected")'
        /\ S["incomplete"] = Seen(h, "incomplete") /\ T["incomplete"] = Seen(g, "incomplete")'
    BY DEF Counted
  <2> HIDE DEF S, T
  <2>10. Cardinality(Seen(g, "pending")') + Cardinality(Seen(g, "validated")')
           + Cardinality(Seen(g, "rejected")') + Cardinality(Seen(g, "incomplete")')
         <= Cardinality(Seen(g, "total")') + g.during
    BY <1>1, <1>5, <2>4, <2>7, <2>8, <2>9 DEF GlobalSound, GlobalKeys, Counted
  <2>11. Cardinality(Seen(g, "used")') <= Cardinality(Seen(g, "generated")') + g.during
    BY <1>1, <1>5, <2>7, <2>8 DEF GlobalSound, GlobalKeys
  <2> QED
    BY <1>1, <1>3, <1>5, <2>10, <2>11 DEF GlobalSound, g
<1> QED
  BY <1>4, <1>5
\* A change shifts the figures of a match day under way by one at most, and
\* those of one that was sent not at all.
LEMMA DayChange ==
  ASSUME RowsTyped, Changes, NEW h, Shaped(h), h.report = "day", DaySound(h),
         h.pc \in {"query", "sent"}
  PROVE  DaySound(Noticing(h))'
<1> DEFINE g == Noticing(h)
           m == h.filter.match
<1>1. /\ g.pc = h.pc /\ g.report = h.report /\ g.filter = h.filter /\ g.found = h.found
      /\ g.during = (IF h.pc = "query" THEN h.during + 1 ELSE h.during) /\ h.during \in Nat
  BY Noticings DEF Shaped
<1>2. /\ \A x : x \in DOMAIN h.found => Seen(g, x)' = Seen(h, x)
      /\ \A x : x \notin DOMAIN h.found =>
           Seen(g, x)' = MatchDayStats(m)'[x] /\ Seen(h, x) = MatchDayStats(m)[x]
  <2>1. /\ Answers(g.report, g.filter)' = MatchDayStats(m)'
        /\ Answers(h.report, h.filter) = MatchDayStats(m)
    BY <1>1 DEF Answers
  <2> QED
    BY <1>1, <2>1 DEF Seen
<1> HIDE DEF g
<1>3. PICK n, d :
        /\ \A i \in DOMAIN scans : i \in DOMAIN scans' /\ scans'[i] = scans[i]
        /\ MatchDayStats(m)'["results"] \subseteq MatchDayStats(m)["results"] \cup {n}
        /\ MatchDayStats(m)'["zones"] \subseteq MatchDayStats(m)["zones"] \cup {n}
        /\ DOMAIN scans' \subseteq DOMAIN scans \cup {n}
        /\ MatchDayStats(m)["results"] \subseteq MatchDayStats(m)'["results"]
        /\ MatchDayStats(m)["zones"] \subseteq MatchDayStats(m)'["zones"]
        /\ MatchDayStats(m)'["devices"] \subseteq MatchDayStats(m)["devices"] \cup {d}
  BY DayGrows
<1> DEFINE R == Seen(h, "results")
           S == Seen(g, "results")'
<1>4. /\ R \subseteq S /\ S \subseteq R \cup {n}
      /\ Seen(h, "zones") \subseteq Seen(g, "zones")'
      /\ Seen(g, "zones")' \subseteq Seen(h, "zones") \cup {n}
      /\ Seen(g, "devices")' \subseteq Seen(h, "devices") \cup {d}
  BY <1>2, <1>3
<1>5. S \subseteq DOMAIN scans' /\ Seen(g, "zones")' \subseteq DOMAIN scans'
  <2>1. ASSUME NEW x \in {"results", "zones"}
        PROVE  MatchDayStats(m)'[x] \subseteq DOMAIN scans'
    BY DEF MatchDayStats, Scanned, Valid
  <2> QED
    BY <1>2, <1>3, <2>1 DEF DaySound
<1> DEFINE V == Valid(R)
           W == {i \in S : scans'[i].result = "VALID"}
<1>6. W = Valid(Seen(g, "results"))'
  BY DEF Valid
<1>7. V \subseteq W /\ W \subseteq V \cup {n}
  BY <1>3, <1>4 DEF DaySound, Valid
<1>8. /\ IsFiniteSet(R) /\ IsFiniteSet(V) /\ IsFiniteSet(Seen(h, "zones"))
      /\ IsFiniteSet(Seen(h, "devices"))
  BY FiniteLog, FS_Subset DEF DaySound, Valid
<1> HIDE DEF V, W, R, S
<1>9. /\ Cardinality(W) \in Nat /\ Cardinality(V) \in Nat
      /\ Cardinality(V) <= Cardinality(W) /\ Cardinality(W) <= Cardinality(V) + 1
  BY <1>7, <1>8, GrowsByOne, Grows
<1>10. /\ Cardinality(S) \in Nat /\ Cardinality(R) \in Nat
       /\ Cardinality(R) <= Cardinality(S) /\ Cardinality(S) <= Cardinality(R) + 1
  BY <1>4, <1>8, GrowsByOne, Grows
<1>11. /\ Cardinality(Seen(g, "zones")') \in Nat /\ Cardinality(Seen(h, "zones")) \in Nat
       /\ Cardinality(Seen(h, "zones")) <= Cardinality(Seen(g, "zones")')
       /\ Cardinality(Seen(g, "zones")') <= Cardinality(Seen(h, "zones")) + 1
  BY <1>4, <1>8, GrowsByOne, Grows
<1>12. /\ IsFiniteSet(Seen(g, "devices")')
       /\ Cardinality(Seen(g, "devices")') \in Nat /\ Cardinality(Seen(h, "devices")) \in Nat
       /\ Cardinality(Seen(g, "devices")') <= Cardinality(Seen(h, "devices")) + 1
  BY <1>4, <1>8, GrowsByOne
<1>13. /\ Cardinality(Seen(h, "zones")) <= Cardinality(V) + h.during
       /\ Cardinality(V) <= Cardinality(Seen(h, "zones")) + h.during
       /\ Cardinality(Seen(h, "devices")) <= Cardinality(R) + h.during
  BY DEF DaySound, V, R
<1>14. CASE h.pc = "sent"
  <2>1. /\ Seen(g, "devices")' = Seen(h, "devices") /\ Seen(g, "zones")' = Seen(h, "zones")
        /\ S = R
    BY <1>2, <1>14 DEF DaySound, DayKeys, R, S
  <2>2. W = V
    BY <1>3, <2>1 DEF DaySound, Valid, V, W, R
  <2>3. g.during = h.during
    BY <1>1, <1>14
  <2>4. /\ Cardinality(Seen(g, "zones")') <= Cardinality(W) + g.during
        /\ Cardinality(W) <= Cardinality(Seen(g, "zones")') + g.during
        /\ Cardinality(Seen(g, "devices")') <= Cardinality(S) + g.during
    BY <1>13, <2>1, <2>2, <2>3
  <2>5. g.pc = "sent" => DayKeys \subseteq DOMAIN g.found
    BY <1>1, <1>14 DEF DaySound
  <2> QED
    BY <1>5, <1>6, <1>12, <2>4, <2>5 DEF DaySound, S, g
<1>15. CASE h.pc = "query"
  <2>1. g.during = h.during + 1 /\ g.pc # "sent" /\ h.during \in Nat
    BY <1>1, <1>15
  <2>2. /\ Cardinality(Seen(g, "zones")') <= Cardinality(W) + g.during
        /\ Cardinality(W) <= Cardinality(Seen(g, "zones")') + g.during
        /\ Cardinality(Seen(g, "devices")') <= Cardinality(S) + g.during
    BY <1>9, <1>10, <1>11, <1>12, <1>13, <2>1
  <2> QED
    BY <1>5, <1>6, <1>12, <2>1, <2>2 DEF DaySound, S, g
<1> QED
  BY <1>14, <1>15
\* A report that has no answer yet has figures that agree: they are of one
\* state of the rows.
LEMMA GlobalAsked ==
  ASSUME NEW h, Shaped(h), h.report = "dashboard", h.pc = "query", h.found = <<>>, h.during = 0
  PROVE  GlobalSound(h)
<1> DEFINE f == h.filter
<1>1. \A x : Seen(h, x) = GlobalStats(f)[x]
  <2>1. Answers(h.report, h.filter) = GlobalStats(f)
    BY DEF Answers
  <2>2. DOMAIN h.found = {}
    OBVIOUS
  <2> QED
    BY <2>1, <2>2 DEF Seen
<1>2. /\ \A x \in Counted : Seen(h, x) = InStatus(f, StatusesOf[x])
      /\ Seen(h, "total") = Filtered(f) /\ Seen(h, "generated") = Badged(f)
      /\ Seen(h, "used") \subseteq Badged(f)
  <2>1. /\ \A x \in Counted : GlobalStats(f)[x] = InStatus(f, StatusesOf[x])
        /\ GlobalStats(f)["total"] = Filtered(f) /\ GlobalStats(f)["generated"] = Badged(f)
        /\ GlobalStats(f)["used"] \subseteq Badged(f)
    BY Figures
  <2> QED
    BY <1>1, <2>1
<1>3. /\ IsFiniteSet(Filtered(f)) /\ Filtered(f) \subseteq Requests
      /\ IsFiniteSet(Badged(f)) /\ Badged(f) \subseteq Requests
  BY RequestsAssumption, FS_Subset DEF Filtered, Badged
<1>4. \A x \in Counted : Seen(h, x) \subseteq Filtered(f)
  BY <1>2 DEF InStatus
<1>5. \A x \in Counted, y \in Counted : x # y => Seen(h, x) \cap Seen(h, y) = {}
  BY <1>2, CountedOnce DEF InStatus
<1>6. Cardinality(Seen(h, "pending")) + Cardinality(Seen(h, "validated"))
        + Cardinality(Seen(h, "rejected")) + Cardinality(Seen(h, "incomplete"))
      <= Cardinality(Filtered(f))
  <2> DEFINE A == Seen(h, "pending")
             B == Seen(h, "validated")
             C == Seen(h, "rejected")
             D == Seen(h, "incomplete")
  <2>1. /\ A \in SUBSET Filtered(f) /\ B \in SUBSET Filtered(f) /\ C \in SUBSET Filtered(f)
        /\ D \in SUBSET Filtered(f)
    BY <1>4 DEF Counted
  <2>2. /\ A \cap B = {} /\ A \cap C = {} /\ A \cap D = {} /\ B \cap C = {} /\ B \cap D = {}
        /\ C \cap D = {}
    BY <1>5 DEF Counted
  <2> HIDE DEF A, B, C, D
  <2>3. Cardinality(A) + Cardinality(B) + Cardinality(C) + Cardinality(D)
        <= Cardinality(Filtered(f))
    BY <1>3, <2>1, <2>2, FourParts
  <2> QED
    BY <2>3 DEF A, B, C, D
<1>7. Cardinality(Seen(h, "used")) <= Cardinality(Badged(f))
  BY <1>2, <1>3, Grows
<1>8. \A x \in GlobalKeys : Seen(h, x) \subseteq Requests
  BY <1>2, <1>3, <1>4 DEF GlobalKeys
<1>9. /\ Cardinality(Filtered(f)) + 0 = Cardinality(Filtered(f))
      /\ Cardinality(Badged(f)) + 0 = Cardinality(Badged(f))
  BY <1>3, FS_CardinalityType
<1> QED
  BY <1>2, <1>6, <1>7, <1>8, <1>9 DEF GlobalSound

LEMMA DayAsked ==
  ASSUME RowsTyped, NEW h, Shaped(h), h.report = "day", h.pc = "query", h.found = <<>>,
         h.during = 0
  PROVE  DaySound(h)
<1> DEFINE day == Scanned(OnMatch(h.filter.match))
           devices == {scans[i].device : i \in day}
<1>1. \A x : Seen(h, x) = MatchDayStats(h.filter.match)[x]
  <2>1. Answers(h.report, h.filter) = MatchDayStats(h.filter.match)
    BY DEF Answers
  <2>2. DOMAIN h.found = {}
    OBVIOUS
  <2> QED
    BY <2>1, <2>2 DEF Seen
<1>2. Seen(h, "results") = day /\ Seen(h, "zones") = Valid(day) /\ Seen(h, "devices") = devices
  <2>1. /\ MatchDayStats(h.filter.match)["results"] = day
        /\ MatchDayStats(h.filter.match)["zones"] = Valid(day)
        /\ MatchDayStats(h.filter.match)["devices"] = devices
    BY DEF MatchDayStats
  <2> QED
    BY <1>1, <2>1
<1>3. day \subseteq DOMAIN scans /\ Valid(day) \subseteq DOMAIN scans
  BY DEF Scanned, Valid
<1>4. IsFiniteSet(day) /\ IsFiniteSet(Valid(day))
  BY <1>3, FiniteLog, FS_Subset
<1> HIDE DEF day
<1>5. IsFiniteSet(devices) /\ Cardinality(devices) <= Cardinality(day)
  <2> DEFINE by == [i \in day |-> scans[i].device]
  <2>1. by \in [day -> devices] /\ \A d \in devices : \E i \in day : by[i] = d
    OBVIOUS
  <2>2. by \in Surjection(day, devices)
    BY <2>1 DEF Surjection
  <2> HIDE DEF by, devices
  <2> QED
    BY <1>4, <2>2, FS_Surjection
<1>6. /\ Cardinality(Valid(day)) + 0 = Cardinality(Valid(day))
      /\ Cardinality(day) + 0 = Cardinality(day)
      /\ Cardinality(Valid(day)) <= Cardinality(Valid(day))
  BY <1>4, FS_CardinalityType
<1> HIDE DEF devices
<1> QED
  BY <1>2, <1>3, <1>5, <1>6 DEF DaySound
-----------------------------------------------------------------------------
(* The invariant of the reports.                                           *)

\* What a step of a handler does to its record.
Asking(h, report, f) ==
  h = [pc |-> IF report \in ExportKeys \cup {"dayPdf"} THEN "heading" ELSE "query",
       report |-> report, filter |-> f, found |-> <<>>, during |-> 0]

LEMMA AskSound ==
  ASSUME RowsTyped, NEW report, NEW f, NEW h, Asking(h, report, f)
  PROVE  Sound(h)
<1>1. Shaped(h) /\ h.found = <<>> /\ h.during = 0 /\ h.report = report /\ h.pc \in {"heading", "query"}
  BY DEF Asking, Shaped
<1>2. h.pc = "heading" => h.report \notin {"dashboard", "day"}
  BY DEF Asking, ExportKeys
<1> QED
  BY <1>1, <1>2, GlobalAsked, DayAsked DEF Sound

\* A query adds an answer the report would get now.
LEMMA QuerySound ==
  ASSUME NEW h, Sound(h), h.pc = "query", NEW q \in DOMAIN Answers(h.report, h.filter) \ DOMAIN h.found,
         NEW e, e = [h EXCEPT !.found =
           [x \in DOMAIN h.found \cup {q} |->
              IF x = q THEN Answers(h.report, h.filter)[q] ELSE h.found[x]]]
  PROVE  Sound(e)
<1> DEFINE more == [x \in DOMAIN h.found \cup {q} |->
                      IF x = q THEN Answers(h.report, h.filter)[q] ELSE h.found[x]]
<1>1. Shaped(h)
  BY DEF Sound
<1>2. e = [pc |-> h.pc, report |-> h.report, filter |-> h.filter, found |-> more,
           during |-> h.during]
  BY <1>1, RecordChanges
<1> HIDE DEF more
<1>3. /\ Shaped(e) /\ e.pc = h.pc /\ e.report = h.report /\ e.filter = h.filter
      /\ e.found = more /\ e.during = h.during
  BY <1>1, <1>2 DEF Shaped
<1>4. ASSUME NEW x
      PROVE  Seen(e, x) = Seen(h, x)
  BY <1>3 DEF Seen, more
<1>5. h.report = "dashboard" => GlobalSound(e)
  BY <1>3, <1>4 DEF Sound, GlobalSound
<1>6. h.report = "day" => DaySound(e)
  BY <1>3, <1>4 DEF Sound, DaySound
<1> QED
  BY <1>3, <1>5, <1>6 DEF Sound

\* A report that goes on to its next stage: it is sent with all its answers.
LEMMA GotoSound ==
  ASSUME NEW h, Sound(h), NEW place, NEW e, e = [h EXCEPT !.pc = place],
         place \in {"query", "labels", "render", "sent"},
         \/ h.report \notin {"dashboard", "day"}
         \/ /\ h.pc = "query" /\ place = "sent"
            /\ DOMAIN h.found = DOMAIN Answers(h.report, h.filter)
  PROVE  Sound(e)
<1>1. Shaped(h)
  BY DEF Sound
<1>2. e = [pc |-> place, report |-> h.report, filter |-> h.filter, found |-> h.found,
           during |-> h.during]
  BY <1>1, RecordChanges
<1>3. /\ Shaped(e) /\ e.pc = place /\ e.report = h.report /\ e.filter = h.filter
      /\ e.found = h.found /\ e.during = h.during
  BY <1>1, <1>2 DEF Shaped
<1>4. CASE h.report \notin {"dashboard", "day"}
  BY <1>3, <1>4 DEF Sound
<1>5. CASE h.report \in {"dashboard", "day"}
  <2>1. /\ h.pc = "query" /\ place = "sent"
        /\ DOMAIN h.found = DOMAIN Answers(h.report, h.filter)
    BY <1>5
  <2>2. \A x : Seen(e, x) = Seen(h, x)
    BY <1>3 DEF Seen
  <2>3. CASE h.report = "dashboard"
    <3>1. GlobalKeys \subseteq DOMAIN h.found
      BY <2>1, <2>3, Asked, Figures DEF GlobalKeys
    <3> QED
      BY <1>3, <2>1, <2>2, <2>3, <3>1 DEF Sound, GlobalSound
  <2>4. CASE h.report = "day"
    <3>1. DayKeys \subseteq DOMAIN h.found
      <4>1. DayKeys \subseteq DOMAIN MatchDayStats(h.filter.match)
        BY DEF MatchDayStats, DayKeys
      <4> QED
        BY <2>1, <2>4, <4>1, Asked
    <3> QED
      BY <1>3, <2>1, <2>2, <2>4, <3>1 DEF Sound, DaySound
  <2> QED
    BY <1>5, <2>3, <2>4
<1> QED
  BY <1>4, <1>5

LEMMA IdleSound == Sound(IdleHandler)
  BY DEF Sound, Shaped, IdleHandler
\* A step of a handler.
LEMMA HandlerStep ==
  ASSUME ReportInv, NEW p \in Readers,
         ReaderSteps(p) \/ \E report \in Reports, f \in Filters : Ask(p, report, f)
  PROVE  \E e : Become(p, e) /\ Sound(e)
<1>1. Sound(handler[p]) /\ RowsTyped
  BY DEF ReportInv
<1>2. Shaped(handler[p])
  BY <1>1 DEF Sound
<1>3. ASSUME NEW report \in Reports, NEW f \in Filters, Ask(p, report, f)
      PROVE  \E e : Become(p, e) /\ Sound(e)
  <2>1. PICK e : /\ Become(p, e)
                 /\ e = [IdleHandler EXCEPT !.report = report, !.filter = f,
                      !.pc = IF report \in ExportKeys \cup {"dayPdf"} THEN "heading" ELSE "query"]
    BY <1>3 DEF Ask
  <2>2. Asking(e, report, f)
    BY <2>1 DEF Asking, IdleHandler
  <2> QED
    BY <1>1, <2>1, <2>2, AskSound
<1>4. ASSUME Query(p)
      PROVE  \E e : Become(p, e) /\ Sound(e)
  <2>1. PICK q \in DOMAIN Answers(handler[p].report, handler[p].filter) \ DOMAIN handler[p].found :
          Become(p, [handler[p] EXCEPT !.found =
            [x \in DOMAIN handler[p].found \cup {q} |->
               IF x = q THEN Answers(handler[p].report, handler[p].filter)[q]
                        ELSE handler[p].found[x]]])
    BY <1>4 DEF Query
  <2>2. PICK h : h = handler[p]
    OBVIOUS
  <2>3. PICK e : e = [h EXCEPT !.found =
            [x \in DOMAIN h.found \cup {q} |->
               IF x = q THEN Answers(h.report, h.filter)[q] ELSE h.found[x]]]
    OBVIOUS
  <2>4. Become(p, e)
    BY <2>1, <2>2, <2>3 DEF Become
  <2>5. h.pc = "query" /\ Sound(h)
    BY <1>1, <1>4, <2>2 DEF Query, At
  <2>6. q \in DOMAIN Answers(h.report, h.filter) \ DOMAIN h.found
    BY <2>1, <2>2
  <2> QED
    BY <2>3, <2>4, <2>5, <2>6, QuerySound
<1>5. ASSUME NEW place \in {"query", "labels", "render", "sent"}, Goto(p, place),
             \/ handler[p].report \notin {"dashboard", "day"}
             \/ /\ handler[p].pc = "query" /\ place = "sent"
                /\ DOMAIN handler[p].found = DOMAIN Answers(handler[p].report, handler[p].filter)
      PROVE  \E e : Become(p, e) /\ Sound(e)
  <2>1. PICK h : h = handler[p]
    OBVIOUS
  <2>2. PICK e : e = [h EXCEPT !.pc = place]
    OBVIOUS
  <2>3. Become(p, e)
    BY <1>5, <2>1, <2>2 DEF Goto
  <2>4. Sound(h) /\ \/ h.report \notin {"dashboard", "day"}
                    \/ /\ h.pc = "query" /\ place = "sent"
                       /\ DOMAIN h.found = DOMAIN Answers(h.report, h.filter)
    BY <1>1, <1>5, <2>1
  <2>5. Sound(e)
    BY <2>2, <2>4, GotoSound
  <2> QED
    BY <2>3, <2>5
<1>6. ASSUME DescribeScope(p)
      PROVE  \E e : Become(p, e) /\ Sound(e)
  <2>1. Goto(p, "query") /\ handler[p].report \notin {"dashboard", "day"}
    BY <1>1, <1>6 DEF DescribeScope, At, Sound
  <2> QED
    BY <1>5, <2>1
<1>7. ASSUME Collect(p)
      PROVE  \E e : Become(p, e) /\ Sound(e)
  <2>1. /\ handler[p].pc = "query"
        /\ DOMAIN handler[p].found = DOMAIN Answers(handler[p].report, handler[p].filter)
        /\ Goto(p, IF handler[p].report \in {"rejected", "dayPdf"} THEN "labels"
                   ELSE IF handler[p].report \in ExportKeys THEN "render" ELSE "sent")
    BY <1>7 DEF Collect, At
  <2>2. CASE handler[p].report \in {"rejected", "dayPdf"}
    <3>1. Goto(p, "labels") /\ handler[p].report \notin {"dashboard", "day"}
      BY <2>1, <2>2
    <3> QED
      BY <1>5, <3>1
  <2>3. CASE handler[p].report \in ExportKeys \ {"rejected", "dayPdf"}
    <3>1. Goto(p, "render") /\ handler[p].report \notin {"dashboard", "day"}
      BY <2>1, <2>3 DEF ExportKeys
    <3> QED
      BY <1>5, <3>1
  <2>4. CASE handler[p].report \notin ExportKeys \cup {"rejected", "dayPdf"}
    <3>1. Goto(p, "sent")
      BY <2>1, <2>4
    <3> QED
      BY <1>5, <2>1, <3>1
  <2> QED
    BY <2>2, <2>3, <2>4
<1>8. ASSUME ResolveLabels(p) \/ Render(p)
      PROVE  \E e : Become(p, e) /\ Sound(e)
  <2>1. handler[p].report \notin {"dashboard", "day"} /\ (Goto(p, "render") \/ Goto(p, "sent"))
    BY <1>1, <1>8 DEF ResolveLabels, Render, At, Sound
  <2> QED
    BY <1>5, <2>1
<1>9. ASSUME RefuseFormat(p) \/ Finish(p)
      PROVE  \E e : Become(p, e) /\ Sound(e)
  BY <1>9, IdleSound DEF RefuseFormat, Finish, Return
<1> QED
  BY <1>3, <1>4, <1>6, <1>7, <1>8, <1>9 DEF ReaderSteps

\* A change to the rows.
LEMMA ChangeStep == ReportInv /\ Changes => ReportInv'
<1> SUFFICES ASSUME ReportInv, Changes PROVE ReportInv'
  OBVIOUS
<1>1. RowsTyped /\ RowsTyped'
  <2>1. [Next]_vars
    BY DEF Next, Changes
  <2> QED
    BY <2>1, RowsStep DEF ReportInv
<1>2. handler' = [p \in Readers |-> Noticing(handler[p])]
  BY DEF Changes, CreateRequest, Revoke, ChangeStatus, Scan, Change, Noticed, Noticing, At
<1>3. ASSUME NEW p \in Readers
      PROVE  Sound(handler[p])'
  <2>1. PICK h : h = handler[p]
    OBVIOUS
  <2>2. PICK g : g = Noticing(h)
    OBVIOUS
  <2>3. handler'[p] = g /\ Sound(h) /\ Shaped(h)
    BY <1>2, <2>1, <2>2 DEF ReportInv, Sound
  <2>4. /\ Shaped(g) /\ g.pc = h.pc /\ g.report = h.report
    BY <2>2, <2>3, Noticings
  <2>5. ASSUME g.report = "dashboard", g.pc \in {"query", "sent"}
        PROVE  GlobalSound(g)'
    <3>1. GlobalSound(Noticing(h))'
      BY <1>1, <2>3, <2>4, <2>5, GlobalChange DEF Sound
    <3> QED
      BY <2>2, <3>1
  <2>6. ASSUME g.report = "day", g.pc \in {"query", "sent"}
        PROVE  DaySound(g)'
    <3>1. DaySound(Noticing(h))'
      BY <1>1, <2>3, <2>4, <2>6, DayChange DEF Sound
    <3> QED
      BY <2>2, <3>1
  <2>7. g.pc \in {"heading", "labels", "render"} => g.report \notin {"dashboard", "day"}
    BY <2>3, <2>4 DEF Sound
  <2>8. Sound(g)'
    BY <2>4, <2>5, <2>6, <2>7 DEF Sound
  <2> QED
    BY <2>3, <2>8
<1> QED
  BY <1>1, <1>2, <1>3 DEF ReportInv

LEMMA ReportStep == ReportInv /\ [Next]_vars => ReportInv'
<1> SUFFICES ASSUME ReportInv, [Next]_vars PROVE ReportInv'
  OBVIOUS
<1>1. RowsTyped'
  BY RowsStep DEF ReportInv
<1>2. CASE Changes
  BY <1>2, ChangeStep
<1>3. ASSUME NEW p \in Readers,
             ReaderSteps(p) \/ \E report \in Reports, f \in Filters : Ask(p, report, f)
      PROVE  ReportInv'
  <2>1. UNCHANGED rows
    BY <1>3 DEF ReaderSteps, Ask, DescribeScope, Query, Collect, ResolveLabels, Render,
       RefuseFormat, Finish
  <2>2. PICK e : Become(p, e) /\ Sound(e)
    BY <1>3, HandlerStep
  <2>3. handler' = [q \in Readers |-> IF q = p THEN e ELSE handler[q]]
    BY <2>2 DEF Become, ReportInv
  <2>4. ASSUME NEW q \in Readers
        PROVE  Sound(handler[q])'
    <3>1. PICK h : h = IF q = p THEN e ELSE handler[q]
      OBVIOUS
    <3>2. Sound(h) /\ handler'[q] = h
      BY <2>2, <2>3, <3>1 DEF ReportInv
    <3>3. Sound(h)'
      BY <2>1, <3>2, SameSound
    <3> QED
      BY <3>2, <3>3
  <2>5. handler' = [q \in Readers |-> handler'[q]]
    BY <2>3
  <2> QED
    BY <1>1, <2>4, <2>5 DEF ReportInv
<1>4. CASE UNCHANGED vars
  <2>1. UNCHANGED rows /\ handler' = handler
    BY <1>4 DEF vars
  <2>2. ASSUME NEW p \in Readers
        PROVE  Sound(handler[p])'
    <3>1. PICK h : h = handler[p]
      OBVIOUS
    <3>2. Sound(h)'
      BY <2>1, <3>1, SameSound DEF ReportInv
    <3> QED
      BY <2>1, <3>1, <3>2
  <2> QED
    BY <1>1, <2>1, <2>2 DEF ReportInv
<1> QED
  BY <1>2, <1>3, <1>4 DEF Next, Changes

LEMMA ReportStart == Init => ReportInv
<1> SUFFICES ASSUME Init PROVE ReportInv
  OBVIOUS
<1>1. RowsTyped
  BY StartingAssumption DEF Init, RowsTyped
<1>2. handler = [p \in Readers |-> handler[p]] /\ \A p \in Readers : handler[p] = IdleHandler
  BY DEF Init
<1> QED
  BY <1>1, <1>2, IdleSound DEF ReportInv

LEMMA ReportAlways == Spec => []ReportInv
<1> QED
  BY ReportStart, ReportStep, PTL DEF Spec

\* The figures of a dashboard disagree by no more than the changes that fell
\* between the queries of its Promise.all: getGlobalStats counts each state
\* of a request once, and a used badge among the generated ones.
THEOREM GlobalFigures == Spec => []GlobalFiguresAgree
<1>1. ReportInv => GlobalFiguresAgree
  <2> SUFFICES ASSUME ReportInv, NEW p \in Readers, Sent(p, "dashboard")
               PROVE  /\ Figure(p, "pending") + Figure(p, "validated") + Figure(p, "rejected")
                           + Figure(p, "incomplete") <= Figure(p, "total") + handler[p].during
                      /\ Figure(p, "used") <= Figure(p, "generated") + handler[p].during
    BY DEF GlobalFiguresAgree
  <2>1. GlobalSound(handler[p]) /\ handler[p].pc = "sent"
    BY DEF ReportInv, Sound, Sent, At
  <2>2. \A x \in GlobalKeys : Seen(handler[p], x) = handler[p].found[x]
    BY <2>1 DEF GlobalSound, Seen
  <2> QED
    BY <2>1, <2>2 DEF GlobalSound, Figure, GlobalKeys, Counted
<1> QED
  BY <1>1, ReportAlways, PTL

\* The figures of a match day disagree by no more than the changes that fell
\* between the queries of getMatchDayStats: the breakdown by zone adds up to
\* the entries, and every device has a scan.
THEOREM DayFigures == Spec => []DayFiguresAgree
<1>1. ReportInv => DayFiguresAgree
  <2> SUFFICES ASSUME ReportInv, NEW p \in Readers, Sent(p, "day")
               PROVE  LET entries == Cardinality(Valid(handler[p].found.results))
                          zones == Figure(p, "zones")
                      IN /\ zones <= entries + handler[p].during
                         /\ entries <= zones + handler[p].during
                         /\ Figure(p, "devices") <= Figure(p, "results") + handler[p].during
    BY DEF DayFiguresAgree
  <2>1. DaySound(handler[p]) /\ handler[p].pc = "sent"
    BY DEF ReportInv, Sound, Sent, At
  <2>2. \A x \in DayKeys : Seen(handler[p], x) = handler[p].found[x]
    BY <2>1 DEF DaySound, Seen
  <2> QED
    BY <2>1, <2>2 DEF DaySound, Figure, DayKeys
<1> QED
  BY <1>1, ReportAlways, PTL
=============================================================================
