---- MODULE MCOwnershipLedger ----
(* Instances of OwnershipLedger for TLC. *)
EXTENDS OwnershipLedger, TLC

CONSTANTS t1, t2, k1, k2, o1, o2, o3

(* Tabs, tasks and operations are interchangeable. *)
Symmetry == Permutations(Tab) \cup Permutations(Task) \cup Permutations(Op)
================================
