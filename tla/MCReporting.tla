---------------------------- MODULE MCReporting ----------------------------
(* Bounded instances of Reporting.                                          *)
EXTENDS Reporting, TLC

CONSTANTS r1, r2, m1, m2

\* Both requests are for m1; a badge may still be scanned at m2.
OneMatch == [r \in Requests |-> m1]

\* All requests of a match, and those a filter on their media keeps.
ThreeFilters ==
  {[match |-> m1, kept |-> None]} \cup {[match |-> None, kept |-> {r}] : r \in Requests}

\* Left out: COMPLETE, which every figure and the machine treat like
\* PENDING_VALIDATION, and the two terminal statuses no figure tells from
\* DRAFT or BADGE_GENERATED.
NineStatuses == (RequestStatusValues \cup {None}) \ {"COMPLETE", "CANCELLED", "ACCESS_USED"}

RequestSymmetry == Permutations(Requests)

AllReports == ExportKeys \cup {"dashboard", "day", "dayPdf", "search"}

=============================================================================
