-------------------------- MODULE MCAccessControl --------------------------
(***************************************************************************)
(* Instances of AccessControl for TLC.                                      *)
(***************************************************************************)
EXTENDS AccessControl, TLC

\* Every badge opens the same one of the zones.
OneZoneEach == [b \in Badges |-> { CHOOSE z \in Zones : TRUE }]

GateSymmetry == Permutations(Handlers) \cup Permutations(OfflineScans)
=============================================================================
