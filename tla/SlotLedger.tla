---------------------------- MODULE SlotLedger -----------------------------
(***************************************************************************)
(* What the quota of a match promises, without counters, handlers or       *)
(* snapshots: for each category a set of requests that hold a slot and the  *)
(* largest number of slots an organiser ever granted.  A slot is taken      *)
(* only while there is room for it.  RequestWorkflow implements this        *)
(* specification when the handlers of one request do not overlap.           *)
(***************************************************************************)
EXTENDS Integers, FiniteSets

CONSTANTS Requests, Slots

VARIABLES holders, capacity

ledgerVars == <<holders, capacity>>

LedgerInit ==
  /\ holders = [s \in Slots |-> {}]
  /\ capacity = [s \in Slots |-> 0]

Raise(s) ==
  /\ capacity'[s] \in Nat
  /\ capacity'[s] > capacity[s]
  /\ capacity' = [capacity EXCEPT ![s] = capacity'[s]]
  /\ UNCHANGED holders

Take(s, r) ==
  /\ Cardinality(holders[s]) < capacity[s]
  /\ r \notin holders[s]
  /\ holders' = [holders EXCEPT ![s] = @ \cup {r}]
  /\ UNCHANGED capacity

\* A slot that is given back, or whose request is lost track of.
Drop(s, r) ==
  /\ r \in holders[s]
  /\ holders' = [holders EXCEPT ![s] = @ \ {r}]
  /\ UNCHANGED capacity

LedgerNext ==
  \E s \in Slots : Raise(s) \/ \E r \in Requests : Take(s, r) \/ Drop(s, r)

LedgerSpec == LedgerInit /\ [][LedgerNext]_ledgerVars
=============================================================================
