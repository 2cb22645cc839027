---- MODULE MCStagedCommits ----
(* Instances of StagedCommits for TLC. *)
EXTENDS StagedCommits, TLC

CONSTANTS t1, k1, k2, r1, r2

(* Requests are interchangeable, and so are the keys of commits. *)
Symmetry == Permutations(Request) \cup Permutations(CommitKey)
================================
