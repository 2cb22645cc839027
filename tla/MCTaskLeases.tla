---------------------------- MODULE MCTaskLeases ----------------------------
(* Small instances of TaskLeases for TLC. *)
EXTENDS TaskLeases, TLC

ConnSymmetry == Permutations(Conn)
LeaseSymmetry == Permutations(Conn) \cup Permutations(Capability)
                   \cup Permutations(Task)
=============================================================================
