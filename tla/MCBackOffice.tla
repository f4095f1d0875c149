---------------------------- MODULE MCBackOffice ----------------------------
(* Bounded instances of BackOffice.                                         *)
EXTENDS BackOffice, TLC

\* Handlers, documents and media are interchangeable.
Symmetry == Permutations(Handlers) \cup Permutations(Documents) \cup Permutations(Media)

=============================================================================
