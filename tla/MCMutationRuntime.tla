---- MODULE MCMutationRuntime ----
(* Small instances of MutationRuntime for TLC. *)
EXTENDS MutationRefinement, TLC

CONSTANTS r1, r2, r3, i1, i2, global, tab

MCScopeOf == (i1 :> global) @@ (i2 :> tab)
OneScope == [i \in Input |-> global]
RequestSymmetry == Permutations(Request)
================================
