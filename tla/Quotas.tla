------------------------------ MODULE Quotas -------------------------------
(***************************************************************************)
(* The quota rows of one match (table MatchCategoryQuota), one per          *)
(* category, and the single SQL statements QuotasService issues on them.    *)
(* A row is created by the first setQuota of its category and is never      *)
(* deleted.  reserveSlot and releaseSlot are several statements each; the    *)
(* handlers that call them (module RequestWorkflow) run one statement per   *)
(* step.  The overflow policy and the zones of a row are left out: the      *)
(* policy only selects the message of QUOTA_EXCEEDED.                       *)
(***************************************************************************)
EXTENDS Integers

CONSTANTS
  Categories,   \* the accreditation categories
  MaxTotal      \* bound: the largest total an organiser configures

ASSUME MaxTotalAssumption == MaxTotal \in Nat

VARIABLES
  quotaTotal,   \* MatchCategoryQuota.quotaTotal, NoRow before the first setQuota
  consumed,     \* MatchCategoryQuota.consumed
  highTotal     \* history: the highest total the row ever had, 0 without a row

quotaVars == <<quotaTotal, consumed, highTotal>>

NoRow == -1

QuotasTypeOK ==
  /\ quotaTotal \in [Categories -> Nat \cup {NoRow}]
  /\ consumed \in [Categories -> Int]
  /\ highTotal \in [Categories -> Nat]

QuotasInit ==
  /\ quotaTotal = [c \in Categories |-> NoRow]
  /\ consumed = [c \in Categories |-> 0]
  /\ highTotal = [c \in Categories |-> 0]

\* getQuotaRow finds the row; otherwise QUOTA_NOT_CONFIGURED is thrown.
Configured(c) == quotaTotal[c] # NoRow

\* setQuota: an upsert.  It may lower the total below what is consumed.
SetQuota(c, total) ==
  /\ quotaTotal' = [quotaTotal EXCEPT ![c] = total]
  /\ highTotal' = [highTotal EXCEPT ![c] = IF total > @ THEN total ELSE @]
  /\ UNCHANGED consumed

\* Plausible bug: the guard of the reservation lets one more slot through.
ConsumeSlotBelow_OffByOne(c, limit) ==
  /\ consumed[c] <= limit
  /\ consumed' = [consumed EXCEPT ![c] = @ + 1]
  /\ UNCHANGED <<quotaTotal, highTotal>>

\* Plausible bug: the guarded update matches the row but increments nothing.
ConsumeSlotBelow_NoIncrement(c, limit) ==
  /\ consumed[c] < limit
  /\ UNCHANGED quotaVars

\* The statement of reserveSlot:
\*   UPDATE ... SET consumed = consumed + 1 WHERE id = .. AND consumed < limit
\* when it matches its row.  The limit is the total read one statement earlier.
ConsumeSlotBelow(c, limit) ==
  /\ consumed[c] < limit
  /\ consumed' = [consumed EXCEPT ![c] = @ + 1]
  /\ UNCHANGED <<quotaTotal, highTotal>>

\* The last statement of releaseSlot: an unconditional decrement.
GiveBackSlot(c) ==
  /\ consumed' = [consumed EXCEPT ![c] = @ - 1]
  /\ UNCHANGED <<quotaTotal, highTotal>>
=============================================================================
