---- MODULE JournalRecords ----
(***************************************************************************)
(* The idempotency rows of the host journal (journal.rs, table             *)
(* idempotency_journal) and the pure decisions taken on one row inside a   *)
(* transaction.  A row is identified elsewhere by its primary key          *)
(* (task_id, idempotency_key); here only its contents matter.              *)
(***************************************************************************)
EXTENDS Integers

CONSTANTS
    Input,       \* canonical hashes of a method and its parameters
    None,        \* absence of a value (SQL NULL, Rust None)
    Retention,   \* IDEMPOTENCY_RETENTION_MS
    FutureSkew   \* IDEMPOTENCY_FUTURE_SKEW_MS

ASSUME RecordsAssumption ==
    /\ Retention \in Nat
    /\ FutureSkew \in Nat
    /\ None \notin Input

(* Outcomes an answer can carry.  "needs_user" and "commit_required" are   *)
(* treated as "completed" where only the journal is concerned.             *)
Outcome == {"completed", "not_started", "unknown"}

RecordState == {"absent", "started", "completed"}

(* at: created_at_ms of a started row, completed_at_ms of a completed one. *)
Record == [state : RecordState,
           input : Input \cup {None},
           answer : Outcome \cup {None},
           at : Nat]

NoRecord == [state |-> "absent", input |-> None, answer |-> None, at |-> 0]

(* Mutant: an old key is not rejected. *)
KeyAcceptedHoweverOld(stamp, now) == stamp <= now + FutureSkew

(* validate_key_timestamp: a key carries its creation time (UUIDv7).       *)
KeyAccepted(stamp, now) ==
    /\ stamp >= now - Retention
    /\ stamp <= now + FutureSkew

(* Mutant: a row is taken as an answer without looking at its state. *)
DecisionWithoutState(record, input) ==
    IF record.state = "absent" THEN "dispatch"
    ELSE IF record.input # input THEN "conflict"
    ELSE "cached"

(* Mutant: a started row is taken for one that failed and may run again. *)
DecisionRetryingStarted(record, input) ==
    IF record.state \in {"absent", "started"} THEN "dispatch"
    ELSE IF record.input # input THEN "conflict"
    ELSE "cached"

(* mutation_decision *)
Decision(record, input) ==
    IF record.state = "absent" THEN "dispatch"
    ELSE IF record.input # input THEN "conflict"
    ELSE IF record.state = "completed" THEN "cached"
    ELSE "unknown"

(* The retention DELETE at the head of begin_mutation: completed rows only. *)
Purged(record, now) ==
    IF record.state = "completed" /\ record.at < now - Retention
    THEN NoRecord
    ELSE record

(* The INSERT of begin_mutation. *)
StartedRecord(input, now) ==
    [state |-> "started", input |-> input, answer |-> None, at |-> now]

(* complete_mutation updates only a started row, and fails on any other.   *)
CanComplete(record) == record.state = "started"

(* The UPDATE of complete_mutation and of replace_terminal_mutation.       *)
CompletedRecord(record, answer, now) ==
    [record EXCEPT !.state = "completed", !.answer = answer, !.at = now]

(* replace_terminal_mutation overwrites a row in whatever state it is, and *)
(* fails when there is none.                                               *)
CanReplace(record) == record.state # "absent"
================================
