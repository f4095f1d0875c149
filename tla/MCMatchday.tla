----------------------------- MODULE MCMatchday -----------------------------
(* Bounded instances of Matchday.                                           *)
EXTENDS Matchday, TLC

CONSTANTS r1, r2, alice, bob

OwnerOfTwo == (r1 :> alice) @@ (r2 :> bob)

=============================================================================
