---- MODULE MutationRuntime ----
(***************************************************************************)
(* Mutations in the native host: Runtime::handle with its request locks,   *)
(* lifecycle admission, the idempotency rows of one task, native dispatch  *)
(* over the pending map, connection cancellation and host restarts.        *)
(*                                                                         *)
(* Several requests run concurrently, one blocking thread each.  A request *)
(* that a client sends again is another element of Request with the same   *)
(* key.  What the extension does with a command is the environment: it     *)
(* executes it, refuses it before doing anything, executes it and answers  *)
(* not_started, or never answers.                                          *)
(***************************************************************************)
EXTENDS JournalRecords, FiniteSets

CONSTANTS
    Request,      \* attempts that clients send
    Conn,         \* client connections
    Key,          \* idempotency keys of the task
    Scope,        \* lock scopes: the global one and one per task tab
    ScopeOf,      \* request_lock_scope of an input
    TabBound,     \* inputs that name a tab, hence checked against ownership
    Stamps,       \* UUIDv7 timestamps client clocks can put in a key
    MaxRecords,   \* MAX_RECORDS_PER_TASK
    MaxClock,     \* bound: the clock stops here
    MaxRestarts   \* bound: host restarts

ASSUME RuntimeAssumption ==
    /\ ScopeOf \in [Input -> Scope]
    /\ TabBound \subseteq Input
    /\ Stamps \subseteq Nat
    /\ MaxRecords \in Nat
    /\ MaxClock \in Nat
    /\ MaxRestarts \in Nat
    /\ None \notin Request /\ None \notin Conn /\ None \notin Key
    /\ None \notin Outcome /\ None \notin Nat

VARIABLES
    now,          \* wall clock of the host
    stamp,        \* key -> the timestamp its client put in it
    record,       \* key -> idempotency_journal row (durable)
    taskRow,      \* the task's row in tasks (durable)
    req,          \* request -> where its thread is in Runtime::handle
    lock,         \* scope -> request holding the task lock
    lifecycle,    \* RuntimeState
    reader,       \* native reader thread: idle, in a hello, or ended
    disconnected, \* StdioNative::disconnected
    command,      \* request -> its native command, as the extension sees it
    cancelled,    \* connections whose ConnectionContext is cancelled
    restarts

vars == <<now, stamp, record, taskRow, req, lock, lifecycle, reader,
          disconnected, command, cancelled, restarts>>
hostVars == <<lifecycle, reader, disconnected>>

Phase == {"idle", "received", "queued", "locked", "admitted", "begun",
          "sent", "replied", "durable", "answered", "lost"}

(* begunAt: when this attempt inserted the started row, None if it never   *)
(* did.  cached: the answer is another attempt's stored one.               *)
Attempt == [phase : Phase, conn : Conn \cup {None}, key : Key \cup {None},
            input : Input \cup {None}, answer : Outcome \cup {None},
            begunAt : Nat \cup {None}, cached : BOOLEAN]

CommandState == {"none", "queued", "executed", "denied", "refused"}

(* Never sent, refused, or denied by the extension that ran it.            *)
Deniable == {"none", "refused", "denied"}

RuntimeState == {"starting", "reconciling", "ready", "paused", "terminal"}

IdleAttempt == [phase |-> "idle", conn |-> None, key |-> None, input |-> None,
                answer |-> None, begunAt |-> None, cached |-> FALSE]

Init ==
    /\ now = 0
    /\ stamp \in [Key -> Stamps]
    /\ record = [k \in Key |-> NoRecord]
    /\ taskRow = "active"
    /\ req = [r \in Request |-> IdleAttempt]
    /\ lock = [s \in Scope |-> None]
    /\ lifecycle = "starting"
    /\ reader = "idle"
    /\ disconnected = TRUE
    /\ command = [r \in Request |-> "none"]
    /\ cancelled = {}
    /\ restarts = 0

--------------------------------
(* Helpers on one attempt *)

KeyOf(r) == req[r].key
InputOf(r) == req[r].input
ScopeOfReq(r) == ScopeOf[req[r].input]

(* audited_value: every early answer is audited first, and a failed audit  *)
(* replaces it by unknown.                                                 *)
AnswerWith(r, outcome) ==
    \E answer \in {outcome, "unknown"} :
        req' = [req EXCEPT ![r] = [@ EXCEPT !.phase = "answered", !.answer = answer]]

AnswerCached(r) ==
    \E answer \in {record[KeyOf(r)].answer, "unknown"} :
        req' = [req EXCEPT ![r] = [@ EXCEPT !.phase = "answered",
                                       !.answer = answer, !.cached = TRUE]]

MoveTo(r, phase) == req' = [req EXCEPT ![r] = [@ EXCEPT !.phase = phase]]

Release(r) == lock' = [lock EXCEPT ![ScopeOfReq(r)] = None]

(* validate_task_scope: a request that names a tab needs the task active;  *)
(* it can also be refused because the tab is not owned or moved on.        *)
ScopeMayHold(r) == InputOf(r) \in TabBound => taskRow = "active"
ScopeMayFail(r) == InputOf(r) \in TabBound

--------------------------------
(* The request path *)

(* A frame of an attempt reaches the server and gets a thread. *)
Submit(r, c, k, i) ==
    /\ req[r].phase = "idle"
    /\ c \notin cancelled
    /\ req' = [req EXCEPT ![r] = [@ EXCEPT !.phase = "received", !.conn = c,
                                   !.key = k, !.input = i]]
    /\ UNCHANGED <<now, stamp, record, taskRow, lock, hostVars, command,
                   cancelled, restarts>>

(* lookup_mutation, then the lifecycle gate, the policy (which can refuse  *)
(* anything) and the first scope check, all before any lock is taken.      *)
Lookup(r) ==
    LET decision == Decision(record[KeyOf(r)], InputOf(r)) IN
    /\ req[r].phase = "received"
    /\ \/ /\ \/ req[r].conn \in cancelled
             \/ ~KeyAccepted(stamp[KeyOf(r)], now)
             \/ decision = "conflict"
             \/ decision = "dispatch"
          /\ AnswerWith(r, "not_started")
       \/ /\ req[r].conn \notin cancelled
          /\ KeyAccepted(stamp[KeyOf(r)], now)
          /\ \/ decision = "cached" /\ AnswerCached(r)
             \/ decision = "unknown" /\ AnswerWith(r, "unknown")
             \/ /\ decision = "dispatch"
                /\ lifecycle = "ready"
                /\ ScopeMayHold(r)
                /\ MoveTo(r, "queued")
    /\ UNCHANGED <<now, stamp, record, taskRow, lock, hostVars, command,
                   cancelled, restarts>>

(* Mutant: a fresh lock for every request. *)
AcquireUnlocked(r) ==
    /\ req[r].phase = "queued"
    /\ IF req[r].conn \in cancelled
       THEN AnswerWith(r, "not_started")
       ELSE MoveTo(r, "locked")
    /\ UNCHANGED <<now, stamp, record, taskRow, lock, hostVars, command,
                   cancelled, restarts>>

(* The task lock of the scope is taken; a connection cancelled meanwhile   *)
(* gives it straight back.                                                 *)
Acquire(r) ==
    /\ req[r].phase = "queued"
    /\ lock[ScopeOfReq(r)] = None
    /\ IF req[r].conn \in cancelled
       THEN AnswerWith(r, "not_started") /\ UNCHANGED lock
       ELSE /\ MoveTo(r, "locked")
            /\ lock' = [lock EXCEPT ![ScopeOfReq(r)] = r]
    /\ UNCHANGED <<now, stamp, record, taskRow, hostVars, command, cancelled,
                   restarts>>

(* Lifecycle::admit under its mutex, then the scope check again. *)
Admit(r) ==
    /\ req[r].phase = "locked"
    /\ \/ /\ lifecycle = "ready"
          /\ ScopeMayHold(r)
          /\ MoveTo(r, "admitted")
          /\ UNCHANGED lock
       \/ /\ lifecycle # "ready" \/ ScopeMayFail(r)
          /\ AnswerWith(r, "not_started")
          /\ Release(r)
    /\ UNCHANGED <<now, stamp, record, taskRow, hostVars, command, cancelled,
                   restarts>>

(* begin_mutation: one transaction, rolled back whenever it does not       *)
(* dispatch.  The INSERT fails on a deleted task (foreign key) but not on  *)
(* a closed one.                                                           *)
Begin(r) ==
    LET purged   == [k \in Key |-> Purged(record[k], now)]
        decision == Decision(purged[KeyOf(r)], InputOf(r))
        full     == Cardinality({k \in Key : purged[k].state # "absent"})
                      >= MaxRecords
        accepted == KeyAccepted(stamp[KeyOf(r)], now)
    IN
    /\ req[r].phase = "admitted"
    /\ \/ /\ accepted
          /\ decision = "dispatch"
          /\ ~full
          /\ taskRow # "deleted"
          /\ record' = [purged EXCEPT ![KeyOf(r)] =
                                        StartedRecord(InputOf(r), now)]
          /\ req' = [req EXCEPT ![r] = [@ EXCEPT !.phase = "begun", !.begunAt = now]]
          /\ UNCHANGED lock
       \/ /\ \/ ~accepted
             \/ decision = "conflict"
             \/ decision = "dispatch" /\ (full \/ taskRow = "deleted")
          /\ AnswerWith(r, "not_started")
          /\ Release(r)
          /\ UNCHANGED record
       \/ /\ accepted
          /\ \/ decision = "cached" /\ AnswerCached(r)
             \/ decision = "unknown" /\ AnswerWith(r, "unknown")
          /\ Release(r)
          /\ UNCHANGED record
    /\ UNCHANGED <<now, stamp, taskRow, hostVars, command, cancelled,
                   restarts>>

(* Runtime::dispatch can refuse before anything is sent (uploads that      *)
(* cannot be staged, for one).  NativeTransport::dispatch writes nothing   *)
(* while disconnected, and a failed write removes the pending entry again: *)
(* both count as unknown.                                                  *)
Dispatch(r) ==
    /\ req[r].phase = "begun"
    /\ \/ /\ ~disconnected
          /\ MoveTo(r, "sent")
          /\ command' = [command EXCEPT ![r] = "queued"]
       \/ /\ \E answer \in {"not_started", "unknown"} :
                req' = [req EXCEPT ![r] = [@ EXCEPT !.phase = "replied", !.answer = answer]]
          /\ UNCHANGED command
    /\ UNCHANGED <<now, stamp, record, taskRow, lock, hostVars, cancelled,
                   restarts>>

(* The response of the extension resolves the pending entry, whatever      *)
(* outcome it names.                                                       *)
NativeReply(r) ==
    /\ req[r].phase = "sent"
    /\ reader = "idle"
    /\ \E outcome \in Outcome :
         /\ \/ command[r] = "executed" /\ outcome \in {"completed", "unknown"}
            \/ command[r] = "denied" /\ outcome = "not_started"
            \/ command[r] = "refused" /\ outcome \in {"not_started", "unknown"}
         /\ req' = [req EXCEPT ![r] = [@ EXCEPT !.phase = "replied", !.answer = outcome]]
    /\ UNCHANGED <<now, stamp, record, taskRow, lock, hostVars, command,
                   cancelled, restarts>>

(* Mutant: a late command reported as never begun. *)
NativeTimeoutNotStarted(r) ==
    /\ req[r].phase = "sent"
    /\ req' = [req EXCEPT ![r] = [@ EXCEPT !.phase = "replied", !.answer = "not_started"]]
    /\ UNCHANGED <<now, stamp, record, taskRow, lock, hostVars, command,
                   cancelled, restarts>>

(* Mutant: waiting for the extension without a timeout. *)
NativeTimeoutNever(r) == FALSE /\ UNCHANGED vars

(* recv_timeout: the waiter forgets the command, the extension does not.   *)
NativeTimeout(r) ==
    /\ req[r].phase = "sent"
    /\ req' = [req EXCEPT ![r] = [@ EXCEPT !.phase = "replied", !.answer = "unknown"]]
    /\ UNCHANGED <<now, stamp, record, taskRow, lock, hostVars, command,
                   cancelled, restarts>>

(* Mutant: a failed complete_mutation is ignored. *)
SettleIgnoringFailure(r) ==
    /\ req[r].phase = "replied"
    /\ \E audited, written \in BOOLEAN :
         LET answer == IF audited THEN req[r].answer ELSE "unknown" IN
         /\ record' = IF written /\ CanComplete(record[KeyOf(r)])
                      THEN [record EXCEPT ![KeyOf(r)] =
                              CompletedRecord(record[KeyOf(r)], answer, now)]
                      ELSE record
         /\ req' = [req EXCEPT ![r] = [@ EXCEPT !.phase = "durable", !.answer = answer]]
    /\ UNCHANGED <<now, stamp, taskRow, lock, hostVars, command, cancelled,
                   restarts>>

(* The audit record (which can fail and then replaces the answer) and      *)
(* complete_mutation (which can fail too, leaving the row started).        *)
Settle(r) ==
    /\ req[r].phase = "replied"
    /\ \E audited, written \in BOOLEAN :
         LET answer == IF audited THEN req[r].answer ELSE "unknown" IN
         IF written /\ CanComplete(record[KeyOf(r)])
         THEN /\ record' = [record EXCEPT ![KeyOf(r)] =
                              CompletedRecord(record[KeyOf(r)], answer, now)]
              /\ req' = [req EXCEPT ![r] = [@ EXCEPT !.phase = "durable", !.answer = answer]]
         ELSE /\ req' = [req EXCEPT ![r] = [@ EXCEPT !.phase = "durable", !.answer = "unknown"]]
              /\ UNCHANGED record
    /\ UNCHANGED <<now, stamp, taskRow, lock, hostVars, command, cancelled,
                   restarts>>

(* handle returns, which drops the task lock; the server acknowledges.     *)
Return(r) ==
    /\ req[r].phase = "durable"
    /\ MoveTo(r, "answered")
    /\ Release(r)
    /\ UNCHANGED <<now, stamp, record, taskRow, hostVars, command, cancelled,
                   restarts>>

--------------------------------
(* The extension, seen from the host *)

(* An effect whose page is lost before its result is stale_ref, which      *)
(* errorOutcome turns into not_started: the command is denied.             *)
ExtensionExecutes(r) ==
    /\ command[r] = "queued"
    /\ \E end \in {"executed", "denied"} :
         command' = [command EXCEPT ![r] = end]
    /\ UNCHANGED <<now, stamp, record, taskRow, req, lock, hostVars,
                   cancelled, restarts>>

(* Refused before any side effect (paused, ownership lost, stale, ...).    *)
ExtensionRefuses(r) ==
    /\ command[r] = "queued"
    /\ command' = [command EXCEPT ![r] = "refused"]
    /\ UNCHANGED <<now, stamp, record, taskRow, req, lock, hostVars,
                   cancelled, restarts>>

--------------------------------
(* Connections and the task *)

(* fail_all and cancel_connection resolve pending entries as disconnected. *)
Failing(S) ==
    [r \in Request |->
        IF r \in S /\ req[r].phase = "sent"
        THEN [req[r] EXCEPT !.phase = "replied", !.answer = "unknown"]
        ELSE req[r]]

(* Runtime::disconnect, when a client goes away. *)
Disconnect(c) ==
    /\ c \notin cancelled
    /\ cancelled' = cancelled \cup {c}
    /\ req' = Failing({r \in Request : req[r].conn = c})
    /\ UNCHANGED <<now, stamp, record, taskRow, lock, hostVars, command,
                   restarts>>

(* agenttab.close or a finished agenttab.finish on connection c: it needs  *)
(* neither the task lock nor admission, and cancels only c.                *)
CloseTask(c) ==
    /\ ~disconnected
    /\ taskRow = "active"
    /\ taskRow' = "closed"
    /\ cancelled' = cancelled \cup {c}
    /\ req' = Failing({r \in Request : req[r].conn = c})
    /\ UNCHANGED <<now, stamp, record, lock, hostVars, command, restarts>>

(* cleanup_expired_tasks deletes the closed row; its journal rows cascade. *)
DeleteTask ==
    /\ taskRow = "closed"
    /\ taskRow' = "deleted"
    /\ record' = [k \in Key |-> NoRecord]
    /\ UNCHANGED <<now, stamp, req, lock, hostVars, command, cancelled,
                   restarts>>

--------------------------------
(* Native reader thread and lifecycle *)

(* Lifecycle::transition: Terminal is sticky. *)
Shifted(state) ==
    IF lifecycle = "terminal" /\ state # "terminal" THEN "terminal" ELSE state

HelloBegins ==
    /\ reader = "idle"
    /\ reader' = "hello"
    /\ lifecycle' = Shifted("reconciling")
    /\ UNCHANGED <<now, stamp, record, taskRow, req, lock, disconnected,
                   command, cancelled, restarts>>

HelloEnds ==
    /\ reader = "hello"
    /\ reader' = "idle"
    /\ disconnected' = FALSE
    /\ \E state \in {"ready", "paused"} : lifecycle' = Shifted(state)
    /\ UNCHANGED <<now, stamp, record, taskRow, req, lock, command, cancelled,
                   restarts>>

SetPaused ==
    /\ reader = "idle"
    /\ lifecycle \in {"ready", "paused"}
    /\ \E state \in {"ready", "paused"} : lifecycle' = state
    /\ UNCHANGED <<now, stamp, record, taskRow, req, lock, reader,
                   disconnected, command, cancelled, restarts>>

(* The extension_disconnected event leaves the flag alone; the             *)
(* disconnect_recovery message and a failed acknowledgement raise it.      *)
ExtensionDisconnected ==
    /\ reader = "idle"
    /\ disconnected' \in {disconnected, TRUE}
    /\ lifecycle' = Shifted("reconciling")
    /\ req' = Failing(Request)
    /\ UNCHANGED <<now, stamp, record, taskRow, lock, reader, command,
                   cancelled, restarts>>

(* End of the native stream, or a frame the host cannot accept. *)
StreamEnds ==
    /\ reader # "ended"
    /\ reader' = "ended"
    /\ \E state \in {"reconciling", "terminal"} : lifecycle' = Shifted(state)
    /\ req' = Failing(Request)
    /\ UNCHANGED <<now, stamp, record, taskRow, lock, disconnected, command,
                   cancelled, restarts>>

(* The host process stops, at any instant, and is started again: threads,  *)
(* locks and connections are gone, journal rows and the extension are not. *)
Restart ==
    /\ restarts < MaxRestarts
    /\ restarts' = restarts + 1
    /\ req' = [r \in Request |->
                 IF req[r].phase \in {"idle", "answered", "lost"} THEN req[r]
                 ELSE [req[r] EXCEPT
                         !.phase = "lost",
                         !.answer = IF req[r].phase = "durable"
                                    THEN req[r].answer ELSE None]]
    /\ lock' = [s \in Scope |-> None]
    /\ lifecycle' = "starting"
    /\ reader' = "idle"
    /\ disconnected' = TRUE
    /\ cancelled' = {}
    /\ UNCHANGED <<now, stamp, record, taskRow, command>>

Tick ==
    /\ now < MaxClock
    /\ now' = now + 1
    /\ UNCHANGED <<stamp, record, taskRow, req, lock, hostVars, command,
                   cancelled, restarts>>

--------------------------------
Serve(r) ==
    \/ Lookup(r) \/ Acquire(r) \/ Admit(r) \/ Begin(r) \/ Dispatch(r)
    \/ NativeReply(r) \/ NativeTimeout(r) \/ Settle(r) \/ Return(r)

Next ==
    \/ \E r \in Request, c \in Conn, k \in Key, i \in Input : Submit(r, c, k, i)
    \/ \E r \in Request : Serve(r)
    \/ \E r \in Request : ExtensionExecutes(r) \/ ExtensionRefuses(r)
    \/ \E c \in Conn : Disconnect(c) \/ CloseTask(c)
    \/ DeleteTask
    \/ HelloBegins \/ HelloEnds \/ SetPaused
    \/ ExtensionDisconnected \/ StreamEnds \/ Restart
    \/ Tick

Spec == Init /\ [][Next]_vars

(* Every blocking thread runs, mutexes are eventually granted, and a wait  *)
(* for a native response ends by itself (recv_timeout).                    *)
Fairness == \A r \in Request : WF_vars(Serve(r))
FairSpec == Spec /\ Fairness

--------------------------------
(* Properties *)

(* What a request knows by the time its thread reaches a phase. *)
AttemptOK(attempt) ==
    /\ attempt \in Attempt
    /\ attempt.phase # "idle" => attempt.key \in Key /\ attempt.input \in Input
    /\ attempt.phase \in {"replied", "durable", "answered"}
         => attempt.answer \in Outcome

RowOK(row) ==
    /\ row \in Record
    /\ row.state = "completed" => row.answer \in Outcome

TypeOK ==
    /\ now \in Nat
    /\ stamp \in [Key -> Nat]
    /\ record \in [Key -> Record] /\ \A k \in Key : RowOK(record[k])
    /\ taskRow \in {"active", "closed", "deleted"}
    /\ req \in [Request -> Attempt] /\ \A r \in Request : AttemptOK(req[r])
    /\ lock \in [Scope -> Request \cup {None}]
    /\ lifecycle \in RuntimeState
    /\ reader \in {"idle", "hello", "ended"}
    /\ disconnected \in BOOLEAN
    /\ command \in [Request -> CommandState]
    /\ cancelled \subseteq Conn
    /\ restarts \in Nat

(* An attempt is dispatched once it has inserted the started row. *)
Dispatched(r) == req[r].begunAt # None

(* The client's clock was not ahead of the host's when the key was used.   *)
HonestStamp(r) == stamp[KeyOf(r)] <= req[r].begunAt
HonestKey(k) == \A r \in Request : Dispatched(r) /\ KeyOf(r) = k => HonestStamp(r)

(* handle, begin_mutation: a key is dispatched at most once, however often *)
(* it is retried, across restarts, purges and task deletion -- provided    *)
(* its timestamp was not in the future when it was first dispatched.       *)
AtMostOnce ==
    \A r, q \in Request :
        Dispatched(r) /\ Dispatched(q) /\ KeyOf(r) = KeyOf(q)
          /\ HonestStamp(r) /\ HonestStamp(q) => r = q

(* Why AtMostOnce holds: an attempt that was dispatched for a key keeps    *)
(* every later one out by its row, or else by the age of the key, or else  *)
(* because the task is gone.                                               *)
KeptOut(r) ==
    \/ /\ record[KeyOf(r)].state # "absent"
       /\ record[KeyOf(r)].at >= req[r].begunAt
    \/ req[r].begunAt < now - Retention
    \/ taskRow = "deleted"

DispatchedStayOut ==
    \A r \in Request :
        /\ Dispatched(r) => /\ req[r].begunAt <= now
                            /\ HonestStamp(r) => KeptOut(r)
        /\ req[r].phase \in {"idle", "received", "queued", "locked", "admitted"}
             => ~Dispatched(r)

(* ADR 0001: expired keys are rejected rather than treated as new, so a    *)
(* key that ran once never runs again.                                     *)
NeverTreatedAsNew ==
    \A r, q \in Request :
        Dispatched(r) /\ Dispatched(q) /\ KeyOf(r) = KeyOf(q) => r = q

(* docs/mcp.md: not_started means the operation did not begin.  The host   *)
(* never says so on its own of a command that may run, or that ran, after  *)
(* a timeout, a disconnect or a failed write: only the extension does.     *)
(* When the answer is replayed from the journal this is true of the        *)
(* attempt that was stored: the only one, if the key was never used ahead  *)
(* of the host's clock.                                                    *)
HostInventsNoDenial ==
    \A r, q \in Request :
        /\ req[r].phase = "answered" /\ req[r].answer = "not_started"
        /\ q = r \/ (req[r].cached /\ KeyOf(q) = KeyOf(r)
                       /\ Dispatched(q) /\ HonestKey(KeyOf(r)))
        => command[q] \in Deniable

(* ADR 0001: the started row is durable before the command is written, and *)
(* the terminal answer is durable before it is acknowledged.               *)
DurableBeforeAcknowledged ==
    \A r \in Request :
        /\ Dispatched(r) /\ req[r].phase = "answered"
        /\ req[r].answer \in {"completed", "not_started"}
        /\ taskRow # "deleted"
        /\ now <= req[r].begunAt + Retention
        => LET row == record[KeyOf(r)] IN
             /\ row.state = "completed"
             /\ row.answer = req[r].answer
             /\ row.input = InputOf(r)

(* One thread per lock scope between admission and acknowledgement. *)
SerializedPerScope ==
    \A r, q \in Request :
        /\ req[r].phase \in {"admitted", "begun", "sent", "replied", "durable"}
        /\ req[q].phase \in {"admitted", "begun", "sent", "replied", "durable"}
        /\ ScopeOfReq(r) = ScopeOfReq(q)
        => r = q

(* A request that reached the host is answered unless the host stops. *)
EveryRequestSettles ==
    \A r \in Request :
        req[r].phase = "received" ~> req[r].phase \in {"answered", "lost"}
================================
