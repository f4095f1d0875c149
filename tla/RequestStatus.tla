--------------------------- MODULE RequestStatus ---------------------------
(***************************************************************************)
(* The status machine of an accreditation request                          *)
(* (src/modules/requests/domain): eleven statuses and the transitions that  *)
(* assertTransitionAllowed lets a command write.  A pure module: it has no  *)
(* variables and no Nest or Prisma dependency, like the file it models.     *)
(***************************************************************************)

RequestStatusValues ==
  { "DRAFT", "SUBMITTED", "UNDER_REVIEW", "INFO_REQUESTED", "COMPLETE",
    "PENDING_VALIDATION", "VALIDATED", "REJECTED", "CANCELLED",
    "BADGE_GENERATED", "ACCESS_USED" }

REQUEST_TRANSITIONS ==
  { <<"DRAFT", "SUBMITTED">>,
    <<"SUBMITTED", "UNDER_REVIEW">>,
    <<"UNDER_REVIEW", "INFO_REQUESTED">>,
    <<"UNDER_REVIEW", "COMPLETE">>,
    <<"UNDER_REVIEW", "REJECTED">>,
    <<"INFO_REQUESTED", "UNDER_REVIEW">>,
    <<"COMPLETE", "PENDING_VALIDATION">>,
    <<"COMPLETE", "VALIDATED">>,
    <<"COMPLETE", "REJECTED">>,
    <<"PENDING_VALIDATION", "VALIDATED">>,
    <<"PENDING_VALIDATION", "REJECTED">>,
    <<"VALIDATED", "BADGE_GENERATED">>,
    <<"BADGE_GENERATED", "ACCESS_USED">> }
  \cup
  { <<from, "CANCELLED">> : from \in
      { "DRAFT", "SUBMITTED", "UNDER_REVIEW", "INFO_REQUESTED", "COMPLETE",
        "PENDING_VALIDATION", "VALIDATED", "BADGE_GENERATED" } }

\* assertTransitionAllowed(from, to) returns; otherwise it throws
\* REQUEST_INVALID_TRANSITION and the command stops there.
TransitionAllowed(from, to) == <<from, to>> \in REQUEST_TRANSITIONS

\* The statuses nothing leads out of.
Terminal == { "ACCESS_USED", "REJECTED", "CANCELLED" }

\* The statuses in which a request holds a quota slot, as
\* CancelRequestUseCase lists them.
StatusesWithReservedQuota == { "VALIDATED", "BADGE_GENERATED", "ACCESS_USED" }
=============================================================================
