------------------------------ MODULE TaskRows ------------------------------
(***************************************************************************)
(* The task rows of the host journal (journal.rs, tables tasks and         *)
(* closed_task_capabilities), and the statements that change them, as      *)
(* operators.  A capability stands for its hash.                           *)
(***************************************************************************)
EXTENDS Integers

CONSTANTS
    Task,               \* task ids
    Capability,         \* resume capabilities
    None,               \* absence of a value
    IdleRetention,      \* IDLE_TASK_RETENTION_MS
    ClosedRetention,    \* CLOSED_TASK_RETENTION_MS
    TombstoneRetention  \* CLOSED_CAPABILITY_RETENTION_MS

ASSUME RowsAssumption ==
    /\ IdleRetention \in Nat
    /\ ClosedRetention \in Nat
    /\ TombstoneRetention \in Nat
    /\ None \notin Capability
    /\ None \notin Task
    /\ None \notin Int

(* A deleted row is gone from the table; its last contents are kept here   *)
(* only so that properties can speak of it.                                *)
TaskState == {"absent", "active", "closed", "deleted"}

(* tab: the task owns at least one tab (tab_count and task_tabs).          *)
Row == [state : TaskState,
        resume : Capability \cup {None},
        pending : Capability \cup {None},
        conns : Nat,
        tab : BOOLEAN,
        updated : Nat,
        closedAt : Nat]

NoRow == [state |-> "absent", resume |-> None, pending |-> None, conns |-> 0,
          tab |-> FALSE, updated |-> 0, closedAt |-> 0]

Active(row) == row.state = "active"

(* create_task *)
Created(cap, t) ==
    [NoRow EXCEPT !.state = "active", !.resume = cap, !.conns = 1, !.updated = t]

(* Mutant: a task whose rotation is pending is resumed. *)
ResumableRotating(row, cap) == Active(row) /\ row.resume = cap

(* resume_task: the presented capability is the current one and no         *)
(* rotation is pending.                                                    *)
Resumable(row, cap) == Active(row) /\ row.resume = cap /\ row.pending = None

Resumed(row, next, t) ==
    [row EXCEPT !.pending = next, !.conns = @ + 1, !.updated = t]

(* acknowledge_resume_capability, rollback_resume_capability: both need    *)
(* the pending capability to be the one at hand.                           *)
RotationHeld(row, cap) == Active(row) /\ row.pending = cap

Acknowledged(row, t) ==
    [row EXCEPT !.resume = row.pending, !.pending = None, !.updated = t]

RolledBack(row, t) == [row EXCEPT !.pending = None, !.updated = t]

(* detach_connection *)
Detached(row, t) ==
    IF Active(row)
    THEN [row EXCEPT !.conns = IF @ > 0 THEN @ - 1 ELSE 0, !.updated = t]
    ELSE row

(* close_task; its UPDATE finds no row that is not there (any more). *)
Closed(row, t) ==
    IF row.state \notin {"active", "closed"} THEN row
    ELSE [row EXCEPT !.state = "closed", !.tab = FALSE, !.updated = t,
                     !.closedAt = IF row.state = "closed" THEN @ ELSE t]

(* reconcile_inventory: tab counts are set for the tasks that have tabs,   *)
(* with the time; the others only lose theirs.                             *)
Inventoried(row, owned, t) ==
    IF ~Active(row) THEN row
    ELSE IF owned THEN [row EXCEPT !.tab = TRUE, !.updated = t]
    ELSE [row EXCEPT !.tab = FALSE]

(* The UPDATE of Journal::open. *)
Reopened(row, t) ==
    IF row.state \notin {"active", "closed"} THEN row
    ELSE [row EXCEPT !.updated = IF row.conns > 0 \/ row.pending # None
                                 THEN t ELSE @,
                     !.conns = 0, !.pending = None]

-----------------------------------------------------------------------------
(* cleanup_expired_tasks: four statements, each durable on its own.  A     *)
(* store is the pair of tables.                                            *)

Idle(row, t) ==
    /\ Active(row)
    /\ row.conns = 0
    /\ row.pending = None
    /\ ~row.tab
    /\ row.updated < t - IdleRetention

IdleClosed(rows, t) ==
    [k \in Task |-> IF Idle(rows[k], t)
                    THEN [rows[k] EXCEPT !.state = "closed", !.updated = t,
                                         !.closedAt = t]
                    ELSE rows[k]]

Expired(row, t) == row.state = "closed" /\ row.closedAt < t - ClosedRetention

(* INSERT OR IGNORE of both hashes. *)
Entombed(rows, tombs, t) ==
    [cap \in Capability |->
        IF tombs[cap] # None THEN tombs[cap]
        ELSE IF \E k \in Task : /\ Expired(rows[k], t)
                                /\ cap \in {rows[k].resume, rows[k].pending}
        THEN LET k == CHOOSE k \in Task :
                        /\ Expired(rows[k], t)
                        /\ cap \in {rows[k].resume, rows[k].pending}
             IN rows[k].closedAt
        ELSE None]

Deleted(rows, t) ==
    [k \in Task |-> IF Expired(rows[k], t)
                    THEN [rows[k] EXCEPT !.state = "deleted"]
                    ELSE rows[k]]

Forgotten(tombs, t) ==
    [cap \in Capability |->
        IF tombs[cap] # None /\ tombs[cap] < t - TombstoneRetention
        THEN None ELSE tombs[cap]]

(* The tables after the first n statements of the cleanup. *)
SweptRows(rows, t, n) ==
    LET closed == IF n >= 1 THEN IdleClosed(rows, t) ELSE rows
    IN  IF n >= 3 THEN Deleted(closed, t) ELSE closed

(* Mutant: the rows are deleted before their tombstones are written. *)
SweptTombsLast(rows, tombs, t, n) ==
    IF n >= 4 THEN Forgotten(Entombed(IdleClosed(rows, t), tombs, t), t) ELSE tombs

SweptTombs(rows, tombs, t, n) ==
    LET closed   == IF n >= 1 THEN IdleClosed(rows, t) ELSE rows
        entombed == IF n >= 2 THEN Entombed(closed, tombs, t) ELSE tombs
    IN  IF n >= 4 THEN Forgotten(entombed, t) ELSE entombed

(* resume_rejection *)
ClosedKnown(rows, tombs, cap) ==
    \/ \E k \in Task : rows[k].state = "closed"
                       /\ cap \in {rows[k].resume, rows[k].pending}
    \/ tombs[cap] # None
=============================================================================
