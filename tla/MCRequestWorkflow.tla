------------------------- MODULE MCRequestWorkflow -------------------------
(***************************************************************************)
(* Instances of RequestWorkflow for TLC.                                    *)
(***************************************************************************)
EXTENDS RequestWorkflow, TLC

\* All requests of the instance belong to one requester, the case in which
\* drafts and duplicates interact.
OneOwner == [r \in Requests |-> CHOOSE o \in Requesters : TRUE]

\* Every command of the module.
AllCommands ==
  { "saveDraft", "submit", "patch", "complement", "resolve", "decide", "cancel",
    "setQuota", "window" }

\* Without complements and without the window of the match.
QuotaCommands == { "saveDraft", "submit", "patch", "decide", "cancel", "setQuota" }

\* The commands that lead a request to a complement and back.
ComplementCommands == { "saveDraft", "submit", "patch", "complement", "resolve", "setQuota" }

\* PATCH as the documentation describes it: the steps without a side effect.
ReviewSteps == { "UNDER_REVIEW", "COMPLETE", "PENDING_VALIDATION" }

\* PATCH to any status but those whose own command has a side effect that the
\* quota, the badge or the duplicate check depends on.
PatchWithoutGrant ==
  RequestStatusValues \ { "SUBMITTED", "VALIDATED", "BADGE_GENERATED" }

HandlerSymmetry == Permutations(Handlers)
RowSymmetry == Permutations(Handlers) \cup Permutations(Requests)
=============================================================================
