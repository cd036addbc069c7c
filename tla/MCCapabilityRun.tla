---------------------------- MODULE MCCapabilityRun ----------------------------
(* CapabilityRun with two processes, two providers and two kinds of query. *)
EXTENDS CapabilityRun, TLC

CONSTANTS p1, p2

MCProperties == <<"temporal", "scope">>
Symmetry == Permutations({p1, p2})
=============================================================================
