----------------------------- MODULE MCSessions -----------------------------
(***************************************************************************)
(* Instances of Sessions for TLC.                                           *)
(***************************************************************************)
EXTENDS Sessions, TLC

SessionSymmetry == Permutations(Handlers) \cup Permutations(Tokens)
=============================================================================
