----------------------------- MODULE TaskLeases -----------------------------
(***************************************************************************)
(* Who may resume a task, and when a task ends: ConnectionContext and      *)
(* handle_connection in the host, the task rows of the journal, and the    *)
(* capability store of one SDK client.                                     *)
(*                                                                         *)
(* One client process at a time uses a store.  It may crash or give up on  *)
(* a connection at any moment and connect again while the host has not yet *)
(* noticed, so several connections of one client can be alive in the host. *)
(* Connection ids are used once.  The cleanup of old rows runs where the   *)
(* code runs it: when the journal is opened, before a resume and before a  *)
(* mutation begins.                                                        *)
(***************************************************************************)
EXTENDS TaskRows, FiniteSets

CONSTANTS
    Conn,        \* connections, each used once
    MaxClock,    \* bound: the clock stops here
    MaxCrashes   \* bound: host crashes

ASSUME LeasesAssumption ==
    /\ MaxClock \in Nat
    /\ MaxCrashes \in Nat
    /\ None \notin Conn

VARIABLES
    now,
    up,        \* the host runs
    crashes,
    rows,      \* task -> its row (durable)
    tombs,     \* capability -> close time of its deleted task (durable)
    issued,    \* capabilities generated so far
    conn,      \* connection -> ConnectionContext and its server task
    store,     \* the client's capability file (durable)
    client,    \* the client process
    busyAt     \* history: task -> when it last lost a connection or a tab

vars == <<now, up, crashes, rows, tombs, issued, conn, store, client, busyAt>>

(* free -> sent -> [classify -> rejected | barrier ->] open -> leaving ->  *)
(* gone.  peer: the client still holds the socket.  confirm: capability in *)
(* a resume_confirm frame under way.  fresh: the flags of a newly created  *)
(* task's capability.  thread: a request past its is_cancelled check, or   *)
(* past ensure_task.                                                       *)
Connection ==
    [phase : {"free", "sent", "classify", "rejected", "barrier", "open",
              "leaving", "gone"},
     peer : BOOLEAN,
     offered : Capability \cup {None},
     task : Task \cup {None},
     cap : Capability \cup {None},
     rotation : BOOLEAN,
     fresh : {"none", "pending", "inFlight", "delivered"},
     confirm : Capability \cup {None},
     reason : {"none", "task_closed", "unknown_capability"},
     cancelled : BOOLEAN,
     thread : {"none", "checked", "ensured"},
     close : {"none", "asked", "done"}]

FreeConnection ==
    [phase |-> "free", peer |-> FALSE, offered |-> None, task |-> None,
     cap |-> None, rotation |-> FALSE, fresh |-> "none", confirm |-> None,
     reason |-> "none", cancelled |-> FALSE, thread |-> "none",
     close |-> "none"]

(* rest: the candidate to try after the attempted one. *)
Client == [phase : {"idle", "waiting", "rotating", "ready", "closing"},
           conn : Conn \cup {None},
           rest : Capability \cup {None}]

IdleClient == [phase |-> "idle", conn |-> None, rest |-> None]

Store == [active : Capability \cup {None}, pending : Capability \cup {None}]
EmptyStore == [active |-> None, pending |-> None]
Stored == {store.active, store.pending} \ {None}

Init ==
    /\ now = 0
    /\ up = TRUE
    /\ crashes = 0
    /\ rows = [t \in Task |-> NoRow]
    /\ tombs = [cap \in Capability |-> None]
    /\ issued = {}
    /\ conn = [c \in Conn |-> FreeConnection]
    /\ store = EmptyStore
    /\ client = IdleClient
    /\ busyAt = [t \in Task |-> 0]

(* Connections the host still counts as attached to a task. *)
Attached(t) ==
    {c \in Conn : conn[c].task = t /\ conn[c].phase \in {"barrier", "open", "leaving"}}

(* The moment a task loses a connection or its last tab is noted.          *)
Leaves(t) == busyAt' = [busyAt EXCEPT ![t] = now]

Set(c, connection) == conn' = [conn EXCEPT ![c] = connection]

-----------------------------------------------------------------------------
(* The client (AgentTabClient and its capability store) *)

(* A number is free again once its connection and its threads are over.    *)
Free(c) ==
    \/ conn[c].phase = "free"
    \/ /\ conn[c].phase = "gone" /\ client.conn # c
       /\ conn[c].thread = "none" /\ conn[c].close # "asked"

(* connect: the pending replacement is tried before the active one. *)
ClientConnects(c) ==
    LET first == IF store.pending # None THEN store.pending ELSE store.active
    IN
    /\ client.phase = "idle"
    /\ Free(c)
    /\ Set(c, [FreeConnection EXCEPT !.phase = "sent", !.peer = TRUE,
                                     !.offered = first])
    /\ client' = [phase |-> "waiting", conn |-> c,
                  rest |-> IF store.active = first THEN None ELSE store.active]
    /\ UNCHANGED <<now, up, crashes, rows, tombs, issued, store, busyAt>>

(* A rejected candidate: give up the store only when the task is closed,   *)
(* try the active capability after an unknown pending one, else refuse to  *)
(* connect and keep the store.                                             *)
ClientRejected(c) ==
    /\ client.phase = "waiting" /\ client.conn = c
    /\ conn[c].phase \in {"rejected", "leaving", "gone"}
    /\ conn[c].reason # "none"
    /\ \/ /\ conn[c].reason = "task_closed"
          /\ store' = EmptyStore
          /\ client' = IdleClient
          /\ Set(c, [conn[c] EXCEPT !.peer = FALSE])
       \/ /\ conn[c].reason = "unknown_capability"
          /\ client.rest = None
          /\ client' = IdleClient
          /\ Set(c, [conn[c] EXCEPT !.peer = FALSE])
          /\ UNCHANGED store
       \/ /\ conn[c].reason = "unknown_capability"
          /\ client.rest # None
          /\ \E d \in Conn :
               /\ Free(d)
               /\ client' = [phase |-> "waiting", conn |-> d, rest |-> None]
               /\ conn' = [conn EXCEPT
                             ![c].peer = FALSE,
                             ![d] = [FreeConnection EXCEPT
                                       !.phase = "sent", !.peer = TRUE,
                                       !.offered = client.rest]]
          /\ UNCHANGED store
    /\ UNCHANGED <<now, up, crashes, rows, tombs, issued, busyAt>>

(* Mutant: confirming before the replacement is in the file. *)
ClientPreparesNothing(c) ==
    /\ client.phase = "waiting" /\ client.conn = c
    /\ conn[c].phase = "barrier"
    /\ conn[c].offered \in Stored
    /\ Set(c, [conn[c] EXCEPT !.confirm = conn[c].cap])
    /\ client' = [client EXCEPT !.phase = "rotating"]
    /\ UNCHANGED <<now, up, crashes, rows, tombs, issued, store, busyAt>>

(* prepareReplacement, then the resume_confirm frame. *)
ClientPrepares(c) ==
    /\ client.phase = "waiting" /\ client.conn = c
    /\ conn[c].phase = "barrier"
    /\ conn[c].offered \in Stored
    /\ store' = [active |-> conn[c].offered, pending |-> conn[c].cap]
    /\ Set(c, [conn[c] EXCEPT !.confirm = conn[c].cap])
    /\ client' = [client EXCEPT !.phase = "rotating"]
    /\ UNCHANGED <<now, up, crashes, rows, tombs, issued, busyAt>>

(* activateReplacement, once the host has confirmed. *)
ClientActivates(c) ==
    /\ client.phase = "rotating" /\ client.conn = c
    /\ conn[c].phase = "open"
    /\ store.pending = conn[c].cap
    /\ store' = [active |-> conn[c].cap, pending |-> None]
    /\ client' = [client EXCEPT !.phase = "ready"]
    /\ UNCHANGED <<now, up, crashes, rows, tombs, issued, conn, busyAt>>

(* A connection without a capability is usable at once. *)
ClientStarts(c) ==
    /\ client.phase = "waiting" /\ client.conn = c
    /\ conn[c].phase = "open"
    /\ client' = [client EXCEPT !.phase = "ready"]
    /\ UNCHANGED <<now, up, crashes, rows, tombs, issued, conn, store,
                   busyAt>>

(* The capability of a new task arrives with a response: saved, then       *)
(* confirmed.                                                              *)
ClientSaves(c) ==
    /\ client.phase = "ready" /\ client.conn = c
    /\ conn[c].phase = "open"
    /\ conn[c].fresh \in {"inFlight", "delivered"}
    /\ store.active # conn[c].cap
    /\ store' = [active |-> conn[c].cap, pending |-> None]
    /\ Set(c, [conn[c] EXCEPT !.confirm = conn[c].cap])
    /\ UNCHANGED <<now, up, crashes, rows, tombs, issued, client, busyAt>>

(* closeTask (or finishTask): the request, and the store cleared after a   *)
(* successful answer.                                                      *)
ClientAsksClose(c) ==
    /\ client.phase = "ready" /\ client.conn = c
    /\ conn[c].phase = "open" /\ conn[c].task # None
    /\ Set(c, [conn[c] EXCEPT !.close = "asked"])
    /\ client' = [client EXCEPT !.phase = "closing"]
    /\ UNCHANGED <<now, up, crashes, rows, tombs, issued, store, busyAt>>

ClientClears(c) ==
    /\ client.phase = "closing" /\ client.conn = c
    /\ conn[c].close = "done"
    /\ store' = EmptyStore
    /\ client' = IdleClient
    /\ Set(c, [conn[c] EXCEPT !.peer = FALSE])
    /\ UNCHANGED <<now, up, crashes, rows, tombs, issued, busyAt>>

(* Timeout, crash, close() or a lost socket: the file stays as it is. *)
ClientLeaves(c) ==
    /\ client.phase # "idle" /\ client.conn = c
    /\ client' = IdleClient
    /\ Set(c, [conn[c] EXCEPT !.peer = FALSE])
    /\ UNCHANGED <<now, up, crashes, rows, tombs, issued, store, busyAt>>

-----------------------------------------------------------------------------
(* The host: handle_connection and ConnectionContext *)

Swept == SweptRows(rows, now, 4)
SweptTombstones == SweptTombs(rows, tombs, now, 4)

(* negotiate: cleanup, then resume_task. *)
Negotiate(c) ==
    /\ up /\ conn[c].phase = "sent"
    /\ \/ /\ conn[c].offered = None
          /\ Set(c, [conn[c] EXCEPT !.phase = "open"])
          /\ UNCHANGED <<rows, tombs, issued>>
       \/ /\ conn[c].offered # None
          /\ tombs' = SweptTombstones
          /\ \/ \E t \in Task, next \in Capability \ issued :
                  /\ Resumable(Swept[t], conn[c].offered)
                  /\ rows' = [Swept EXCEPT ![t] = Resumed(@, next, now)]
                  /\ issued' = issued \cup {next}
                  /\ Set(c, [conn[c] EXCEPT !.phase = "barrier", !.task = t,
                                            !.cap = next, !.rotation = TRUE])
             \/ /\ \A t \in Task : ~Resumable(Swept[t], conn[c].offered)
                /\ rows' = Swept
                /\ Set(c, [conn[c] EXCEPT !.phase = "classify"])
                /\ UNCHANGED issued
    /\ UNCHANGED <<now, up, crashes, store, client, busyAt>>

(* resume_rejection, a transaction of its own; the host then closes. *)
Classify(c) ==
    /\ up /\ conn[c].phase = "classify"
    /\ Set(c, [conn[c] EXCEPT
                 !.phase = "rejected",
                 !.reason = IF ClosedKnown(rows, tombs, conn[c].offered)
                            THEN "task_closed" ELSE "unknown_capability"])
    /\ UNCHANGED <<now, up, crashes, rows, tombs, issued, store, client, busyAt>>

(* Mutant: a disconnect that forgets to roll the rotation back. *)
DisconnectBeginsKeepingRotation(c) ==
    /\ up
    /\ \/ conn[c].phase = "rejected"
       \/ conn[c].phase \in {"barrier", "open"} /\ ~conn[c].peer
    /\ Set(c, [conn[c] EXCEPT !.phase = IF conn[c].cancelled THEN "gone" ELSE "leaving",
                              !.cancelled = TRUE])
    /\ UNCHANGED <<now, up, crashes, rows, tombs, issued, store, client, busyAt>>

(* Runtime::disconnect, first half: cancel once, and roll an unconfirmed   *)
(* rotation back.  Its error is only reported at the end.                  *)
DisconnectBegins(c) ==
    /\ up
    /\ \/ conn[c].phase = "rejected"
       \/ conn[c].phase \in {"barrier", "open"} /\ ~conn[c].peer
    /\ LET t == conn[c].task IN
       IF conn[c].cancelled
       THEN Set(c, [conn[c] EXCEPT !.phase = "gone"]) /\ UNCHANGED rows
       ELSE IF conn[c].rotation /\ RotationHeld(rows[t], conn[c].cap)
       THEN /\ rows' = [rows EXCEPT ![t] = RolledBack(@, now)]
            /\ Set(c, [conn[c] EXCEPT !.phase = "leaving", !.cancelled = TRUE,
                                      !.rotation = FALSE])
       ELSE /\ Set(c, [conn[c] EXCEPT !.phase = "leaving", !.cancelled = TRUE])
            /\ UNCHANGED rows
    /\ UNCHANGED <<now, up, crashes, tombs, issued, store, client, busyAt>>

(* Second half: a task whose capability was never confirmed is closed,     *)
(* after the extension has cleaned up; when that fails the task keeps its  *)
(* connection count.  Any other task is detached.                          *)
DisconnectEnds(c) ==
    /\ up /\ conn[c].phase = "leaving"
    /\ LET t == conn[c].task IN
       \/ /\ t = None
          /\ UNCHANGED <<rows, busyAt>>
       \/ /\ t # None /\ conn[c].fresh # "none"
          /\ \/ rows' = [rows EXCEPT ![t] = Closed(@, now)]
             \/ UNCHANGED rows
          /\ Leaves(t)
       \/ /\ t # None /\ conn[c].fresh = "none"
          /\ rows' = [rows EXCEPT ![t] = Detached(@, now)]
          /\ Leaves(t)
    /\ Set(c, [conn[c] EXCEPT !.phase = "gone"])
    /\ UNCHANGED <<now, up, crashes, tombs, issued, store, client>>

(* confirm_resume_capability, at the barrier or on the open connection; a  *)
(* confirmation it refuses ends the connection.                            *)
Confirm(c) ==
    LET t == conn[c].task IN
    /\ up /\ conn[c].phase \in {"barrier", "open"}
    /\ conn[c].confirm # None
    /\ \/ /\ conn[c].rotation
          /\ RotationHeld(rows[t], conn[c].cap)
          /\ rows' = [rows EXCEPT ![t] = Acknowledged(@, now)]
          /\ Set(c, [conn[c] EXCEPT !.phase = "open", !.rotation = FALSE,
                                    !.confirm = None])
       \/ /\ conn[c].rotation
          /\ ~RotationHeld(rows[t], conn[c].cap)
          /\ Set(c, [conn[c] EXCEPT !.peer = FALSE, !.confirm = None])
          /\ UNCHANGED rows
       \/ /\ ~conn[c].rotation
          /\ conn[c].fresh \in {"inFlight", "delivered"}
          /\ Set(c, [conn[c] EXCEPT !.fresh = "none", !.confirm = None])
          /\ UNCHANGED rows
    /\ UNCHANGED <<now, up, crashes, tombs, issued, store, client, busyAt>>

(* A request is past the confirmation gate and its first is_cancelled. *)
RequestChecked(c) ==
    /\ up /\ conn[c].phase = "open" /\ conn[c].peer
    /\ client.phase = "ready" /\ client.conn = c
    /\ ~conn[c].rotation /\ conn[c].fresh \notin {"inFlight", "delivered"}
    /\ ~conn[c].cancelled /\ conn[c].thread = "none"
    /\ Set(c, [conn[c] EXCEPT !.thread = "checked"])
    /\ UNCHANGED <<now, up, crashes, rows, tombs, issued, store, client, busyAt>>

(* ensure_task, on a blocking thread that outlives the connection. *)
EnsureTask(c) ==
    /\ up /\ conn[c].thread = "checked"
    /\ \/ /\ conn[c].task # None
          /\ Set(c, [conn[c] EXCEPT !.thread = "ensured"])
          /\ UNCHANGED <<rows, issued>>
       \/ /\ conn[c].task = None
          /\ \E t \in Task, cap \in Capability \ issued :
               /\ rows[t].state = "absent"
               /\ rows' = [rows EXCEPT ![t] = Created(cap, now)]
               /\ issued' = issued \cup {cap}
               /\ Set(c, [conn[c] EXCEPT !.task = t, !.cap = cap,
                                         !.fresh = "pending",
                                         !.thread = "ensured"])
    /\ UNCHANGED <<now, up, crashes, tombs, store, client, busyAt>>

(* The rest of handle: begin_mutation cleans up if the request is one, and *)
(* the response takes a new task's capability with it.                     *)
Respond(c) ==
    /\ up /\ conn[c].thread = "ensured"
    /\ \/ rows' = Swept /\ tombs' = SweptTombstones
       \/ UNCHANGED <<rows, tombs>>
    /\ Set(c, [conn[c] EXCEPT
                 !.thread = "none",
                 !.fresh = IF @ = "pending" THEN "inFlight" ELSE @])
    /\ UNCHANGED <<now, up, crashes, issued, store, client, busyAt>>

(* finish_new_capability_delivery(true) of the writer task.  A failed      *)
(* write leaves the capability undelivered, which only the disconnect that *)
(* follows looks at.                                                       *)
Delivered(c) ==
    /\ up /\ conn[c].phase = "open" /\ conn[c].fresh = "inFlight" /\ conn[c].peer
    /\ Set(c, [conn[c] EXCEPT !.fresh = "delivered"])
    /\ UNCHANGED <<now, up, crashes, rows, tombs, issued, store, client, busyAt>>

(* agenttab.close, on a blocking thread that outlives the connection: the  *)
(* extension closes the task's tabs first, and when that fails nothing     *)
(* changes.                                                                *)
CloseTask(c) ==
    /\ up /\ conn[c].phase \in {"open", "leaving", "gone"}
    /\ conn[c].close = "asked"
    /\ conn[c].fresh \notin {"inFlight", "delivered"}
    /\ \/ /\ rows' = [rows EXCEPT ![conn[c].task] = Closed(@, now)]
          /\ Set(c, [conn[c] EXCEPT !.close = "done", !.cancelled = TRUE])
       \/ /\ Set(c, [conn[c] EXCEPT !.close = "none"])
          /\ UNCHANGED rows
    /\ UNCHANGED <<now, up, crashes, tombs, issued, store, client, busyAt>>

-----------------------------------------------------------------------------
(* Tabs, crashes and time *)

(* An inventory from the extension: tabs appear while a connection works   *)
(* on the task, and go at any time.                                        *)
Inventory(S) ==
    /\ up
    /\ \A t \in S : rows[t].tab \/ (Active(rows[t]) /\ Attached(t) # {})
    /\ rows' = [t \in Task |-> Inventoried(rows[t], t \in S, now)]
    /\ busyAt' = [t \in Task |-> IF rows[t].tab THEN now ELSE busyAt[t]]
    /\ UNCHANGED <<now, up, crashes, tombs, issued, conn, store, client>>

(* The host stops, possibly between two statements of a cleanup. *)
Crash ==
    /\ up /\ crashes < MaxCrashes
    /\ up' = FALSE
    /\ crashes' = crashes + 1
    /\ \E n \in 0..3 : /\ rows' = SweptRows(rows, now, n)
                       /\ tombs' = SweptTombs(rows, tombs, now, n)
    /\ conn' = [c \in Conn |->
                  IF conn[c].phase = "free" THEN conn[c]
                  ELSE [conn[c] EXCEPT !.phase = "gone", !.thread = "none",
                                       !.confirm = None,
                                       !.close = IF @ = "asked" THEN "none"
                                                 ELSE @]]
    /\ busyAt' = [t \in Task |-> IF Attached(t) # {} THEN now ELSE busyAt[t]]
    /\ UNCHANGED <<now, issued, store, client>>

(* Journal::open, which can be cut short as well. *)
Boot ==
    LET reopened == [t \in Task |-> Reopened(rows[t], now)] IN
    /\ ~up
    /\ \E n \in 0..4 :
         /\ n < 4 => crashes < MaxCrashes
         /\ up' = (n = 4)
         /\ crashes' = IF n < 4 THEN crashes + 1 ELSE crashes
         /\ rows' = SweptRows(reopened, now, n)
         /\ tombs' = SweptTombs(reopened, tombs, now, n)
    /\ UNCHANGED <<now, issued, conn, store, client, busyAt>>

Tick ==
    /\ now < MaxClock
    /\ now' = now + 1
    /\ UNCHANGED <<up, crashes, rows, tombs, issued, conn, store, client, busyAt>>

Next ==
    \/ \E c \in Conn :
         \/ ClientConnects(c) \/ ClientRejected(c) \/ ClientPrepares(c)
         \/ ClientActivates(c) \/ ClientStarts(c) \/ ClientSaves(c)
         \/ ClientAsksClose(c) \/ ClientClears(c) \/ ClientLeaves(c)
         \/ Negotiate(c) \/ Classify(c) \/ DisconnectBegins(c)
         \/ DisconnectEnds(c) \/ Confirm(c) \/ RequestChecked(c)
         \/ EnsureTask(c) \/ Respond(c) \/ Delivered(c) \/ CloseTask(c)
    \/ \E S \in SUBSET Task : Inventory(S)
    \/ Crash \/ Boot \/ Tick

Spec == Init /\ [][Next]_vars

-----------------------------------------------------------------------------
(* Properties *)

TypeOK ==
    /\ now \in Nat /\ crashes \in Nat /\ up \in BOOLEAN
    /\ rows \in [Task -> Row]
    /\ tombs \in [Capability -> Nat \cup {None}]
    /\ issued \subseteq Capability
    /\ conn \in [Conn -> Connection]
    /\ \A c \in Conn : conn[c].rotation \/ conn[c].fresh # "none"
                        => conn[c].task \in Task /\ conn[c].cap \in issued
    /\ store \in Store
    /\ client \in Client
    /\ busyAt \in [Task -> Nat]

(* docs/multi-agent.md: a task is never abandoned silently.  The client's  *)
(* file never loses the capability of a task that is still active.         *)
NeverAbandoned ==
    [][\A t \in Task :
         Active(rows[t]) /\ Active(rows'[t]) /\ rows[t].resume \in Stored
         => rows'[t].resume \in Stored']_vars

(* Whatever is in the file, the host can tell the client what became of    *)
(* the task for TombstoneRetention after it closed, across crashes between *)
(* the statements of a cleanup: the client is never left with "unknown".   *)
StoredIsRecognised ==
    up /\ Stored # {} =>
      \/ \E t \in Task : Active(rows[t]) /\ rows[t].resume \in Stored
      \/ \E cap \in Stored : ClosedKnown(rows, tombs, cap)
      \/ \E t \in Task : /\ rows[t].state = "deleted"
                         /\ rows[t].resume \in Stored
                         /\ rows[t].closedAt < now - TombstoneRetention

(* A pending rotation blocks every resume and the idle close of its task,  *)
(* so one connection that will confirm it or roll it back must own it.     *)
PendingHasOwner ==
    up => \A t \in Task :
            Active(rows[t]) /\ rows[t].pending # None =>
              \E c \in Conn : /\ conn[c].phase = "barrier"
                              /\ conn[c].rotation
                              /\ conn[c].task = t
                              /\ conn[c].cap = rows[t].pending

(* Connection counts never fall behind the connections there are, so an    *)
(* idle close never hits a task somebody is connected to.                  *)
ConnectionsCounted ==
    up => \A t \in Task :
            Active(rows[t]) => rows[t].conns >= Cardinality(Attached(t))

(* docs/multi-agent.md: once a replacement is confirmed, the old           *)
(* capability no longer resumes the task, on any connection.               *)
OldCapabilityIsDead ==
    \A c, d \in Conn :
        /\ c # d
        /\ conn[c].phase = "open" /\ conn[c].offered # None
        /\ conn[d].phase \in {"barrier", "open"}
        => conn[d].offered # conn[c].offered

(* docs/rust-host.md: the host closes a task once it has had no connection *)
(* or owned tab for 24 hours.  Not sooner: what the next cleanup would     *)
(* close has been idle that long.                                          *)
ClosedOnlyAfterIdle ==
    up => \A t \in Task :
            Idle(rows[t], now) => busyAt[t] < now - IdleRetention

(* The same sentence, not later: a task that has been idle that long is    *)
(* one the next cleanup closes.                                            *)
IdleIsClosed ==
    up => \A t \in Task :
            /\ Active(rows[t]) /\ ~rows[t].tab
            /\ Attached(t) = {}
            /\ \A c \in Conn : conn[c].task = t => conn[c].thread = "none"
            /\ busyAt[t] < now - IdleRetention
            => Idle(rows[t], now)

\* The journal's count of connections is the number of connections that are bound, and a
\* pending rotation has a connection that can acknowledge it (detach, rotate).
LeasesCounted == TypeOK /\ PendingHasOwner /\ ConnectionsCounted

=============================================================================
