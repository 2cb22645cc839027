---- MODULE MCExtensionScheduler ----
(* Instances of ExtensionScheduler for TLC. *)
EXTENDS ExtensionScheduler, TLC

CONSTANTS o1, o2, o3, o4, b1, b2, a1, a2

(* Operations, tabs and tasks are interchangeable. *)
Symmetry == Permutations(Op) \cup Permutations(Tab) \cup Permutations(Task)
================================
