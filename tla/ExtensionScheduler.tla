---- MODULE ExtensionScheduler ----
(***************************************************************************)
(* The extension's MutationScheduler: chains of promises that serialise    *)
(* the work of commands per tab, per task and globally, and the admission  *)
(* of work under pause, disconnection, permission changes and tab          *)
(* invalidations; with the two parties that open and close it, the user    *)
(* (handoff.pause and resume) and the handling of the host's ready message.*)
(*                                                                         *)
(* A promise is named by the operation whose end settles it.  Reads that   *)
(* name no tab are left out: no command makes one.                         *)
(***************************************************************************)
EXTENDS Naturals, FiniteSets

CONSTANTS
    Op,               \* calls of enqueueTab, enqueueGlobal, ...
    Tab,
    Task,
    None,             \* no tail, no tab, no task
    MaxStops,         \* bound: advances of the admission epoch
    MaxInvalidations  \* bound: advances of tab generations

ASSUME SchedulerAssumption ==
    /\ MaxStops \in Nat /\ MaxInvalidations \in Nat
    /\ None \notin Op \cup Tab \cup Task

VARIABLES
    accepting, lifecycle, permissions,  \* accepting, lifecycleAccepting, permissionsAvailable
    epoch, lifecycleEpoch,
    globalTail, tabTail, taskTail,
    generation,       \* tab -> generation; 0 when the map has no entry
    op,               \* operation -> its record
    drain,            \* scheduler.pause(): "none", "draining", "down"
    paused,           \* state.paused in extension storage
    user,             \* handoff.pause/resume on its chain
    ready,            \* connection to the host and reconcileReady
    hello,            \* the paused flag that the hello carried
    waited,           \* the state read of reconcileReady waits for the pause's write
    barred,           \* history: queued operations that must not start any more
    invalidations     \* bound counter

admission == <<accepting, lifecycle, permissions, epoch, lifecycleEpoch>>
tails == <<globalTail, tabTail, taskTail>>
parties == <<paused, user, ready, hello, waited>>
vars == <<admission, tails, generation, op, drain, parties, barred, invalidations>>

Class == {"tab", "read", "global", "profileWrite", "profileRead"}
Profile == {"profileWrite", "profileRead"}
Call == [phase : {"none", "queued", "running", "settled"}, class : Class,
         task : Task \cup {None}, tab : Tab \cup {None}, waits : SUBSET Op,
         epoch : Nat, generation : Nat]

Init ==
    /\ paused \in BOOLEAN
    /\ accepting = ~paused /\ lifecycle = ~paused /\ permissions = TRUE
    /\ epoch = 0 /\ lifecycleEpoch = 0
    /\ globalTail = None
    /\ tabTail = [b \in Tab |-> None] /\ taskTail = [a \in Task |-> None]
    /\ generation = [b \in Tab |-> 0]
    /\ op = [o \in Op |-> [phase |-> "none", class |-> "tab", task |-> None,
                           tab |-> None, waits |-> {}, epoch |-> 0,
                           generation |-> 0]]
    /\ drain = "none" /\ user = "idle" /\ ready = "off" /\ hello = FALSE
    /\ waited = FALSE /\ barred = {} /\ invalidations = 0

--------------------------------
In(phase) == {o \in Op : op[o].phase = phase}
Pending == In("queued") \cup In("running")

(* The tails that can still hold something back. *)
Unsettled(ops) == ops \cap Pending
TabTails == {tabTail[b] : b \in Tab}

Enqueued(o, class, task, tab, waits) ==
    op' = [op EXCEPT ![o] =
             [phase |-> "queued", class |-> class, task |-> task, tab |-> tab,
              waits |-> Unsettled(waits),
              epoch |-> IF class \in Profile THEN lifecycleEpoch ELSE epoch,
              generation |-> IF class = "tab" THEN generation[tab] ELSE 0]]

(* Mutant: the tab's tail is set before the prior tail is read. *)
EnqueueTabAfterItself(o, a, b) ==
    /\ op[o].phase = "none" /\ accepting
    /\ op' = [op EXCEPT ![o] =
                [phase |-> "queued", class |-> "tab", task |-> a, tab |-> b,
                 waits |-> Unsettled({globalTail, taskTail[a], tabTail[b]}) \cup {o},
                 epoch |-> epoch, generation |-> generation[b]]]
    /\ tabTail' = [tabTail EXCEPT ![b] = o]
    /\ taskTail' = [taskTail EXCEPT ![a] = o]
    /\ UNCHANGED <<admission, globalTail, generation, drain, parties, barred,
                   invalidations>>

(* enqueueTab *)
EnqueueTab(o, a, b) ==
    /\ op[o].phase = "none" /\ accepting
    /\ Enqueued(o, "tab", a, b, {globalTail, taskTail[a], tabTail[b]})
    /\ tabTail' = [tabTail EXCEPT ![b] = o]
    /\ taskTail' = [taskTail EXCEPT ![a] = o]
    /\ UNCHANGED <<admission, globalTail, generation, drain, parties, barred,
                   invalidations>>

(* readAfterWrites of a tab *)
ReadAfterWrites(o, b) ==
    /\ op[o].phase = "none" /\ accepting
    /\ Enqueued(o, "read", None, b, {globalTail, tabTail[b]})
    /\ tabTail' = [tabTail EXCEPT ![b] = o]
    /\ UNCHANGED <<admission, globalTail, taskTail, generation, drain, parties,
                   barred, invalidations>>

(* Mutant: global work does not wait for queued tab work. *)
EnqueueGlobalAhead(o) ==
    /\ op[o].phase = "none" /\ accepting
    /\ Enqueued(o, "global", None, None, {globalTail})
    /\ globalTail' = o
    /\ UNCHANGED <<admission, tabTail, taskTail, generation, drain, parties,
                   barred, invalidations>>

(* enqueueGlobal *)
EnqueueGlobal(o) ==
    /\ op[o].phase = "none" /\ accepting
    /\ Enqueued(o, "global", None, None, {globalTail} \cup TabTails)
    /\ globalTail' = o
    /\ UNCHANGED <<admission, tabTail, taskTail, generation, drain, parties,
                   barred, invalidations>>

(* enqueueProfile: no site access is needed, so permissions do not matter; *)
(* only writes wait for tab work.                                          *)
EnqueueProfile(o, class) ==
    /\ op[o].phase = "none" /\ lifecycle /\ class \in Profile
    /\ Enqueued(o, class, None, None,
                {globalTail} \cup IF class = "profileWrite" THEN TabTails ELSE {})
    /\ globalTail' = o
    /\ UNCHANGED <<admission, tabTail, taskTail, generation, drain, parties,
                   barred, invalidations>>

(* The checks when an operation's turn comes. *)
Admitted(o) ==
    LET c == op[o] IN
    IF c.class \in Profile THEN lifecycle /\ lifecycleEpoch = c.epoch
    ELSE /\ accepting /\ epoch = c.epoch
         /\ c.class = "tab" => generation[c.tab] = c.generation

Dispatch(o) ==
    /\ op[o].phase = "queued" /\ Unsettled(op[o].waits) = {}
    /\ op' = [op EXCEPT ![o].phase = IF Admitted(o) THEN "running" ELSE "settled",
                        ![o].waits = {}]
    /\ UNCHANGED <<admission, tails, generation, drain, parties, barred,
                   invalidations>>

(* The work ends, well or not. *)
Settle(o) ==
    /\ op[o].phase = "running"
    /\ op' = [op EXCEPT ![o].phase = "settled"]
    /\ UNCHANGED <<admission, tails, generation, drain, parties, barred,
                   invalidations>>

(* A settled tail that is still the tail is forgotten, with the tab's      *)
(* generation.                                                             *)
ForgetTab(b) ==
    /\ tabTail[b] \in In("settled")
    /\ tabTail' = [tabTail EXCEPT ![b] = None]
    /\ generation' = [generation EXCEPT ![b] = 0]
    /\ UNCHANGED <<admission, globalTail, taskTail, op, drain, parties, barred,
                   invalidations>>

ForgetTask(a) ==
    /\ taskTail[a] \in In("settled")
    /\ taskTail' = [taskTail EXCEPT ![a] = None]
    /\ UNCHANGED <<admission, globalTail, tabTail, generation, op, drain,
                   parties, barred, invalidations>>

(* revokeTab and invalidateTab *)
InvalidateTab(b) ==
    /\ invalidations < MaxInvalidations
    /\ invalidations' = invalidations + 1
    /\ generation' = [generation EXCEPT ![b] = IF tabTail[b] = None THEN 0 ELSE @ + 1]
    /\ barred' = barred \cup
                   {o \in In("queued") : op[o].class = "tab" /\ op[o].tab = b}
    /\ UNCHANGED <<admission, tails, op, drain, parties>>

--------------------------------
(* Admission *)

RevokePermissions ==
    /\ epoch < MaxStops
    /\ permissions' = FALSE /\ accepting' = FALSE /\ epoch' = epoch + 1
    /\ barred' = barred \cup {o \in In("queued") : op[o].class \notin Profile}
    /\ UNCHANGED <<lifecycle, lifecycleEpoch, tails, generation, op, drain,
                   parties, invalidations>>

(* Mutant: permissions alone decide. *)
RestorePermissionsAlone ==
    /\ ~permissions
    /\ permissions' = TRUE /\ accepting' = TRUE
    /\ UNCHANGED <<lifecycle, epoch, lifecycleEpoch, tails, generation, op,
                   drain, parties, barred, invalidations>>

RestorePermissions ==
    /\ ~permissions
    /\ permissions' = TRUE /\ accepting' = lifecycle
    /\ UNCHANGED <<lifecycle, epoch, lifecycleEpoch, tails, generation, op,
                   drain, parties, barred, invalidations>>

(* What pause and disconnect share. *)
Stopped ==
    /\ epoch < MaxStops
    /\ accepting' = FALSE /\ lifecycle' = FALSE
    /\ epoch' = epoch + 1 /\ lifecycleEpoch' = lifecycleEpoch + 1
    /\ barred' = barred \cup In("queued")
    /\ UNCHANGED <<permissions, tails, generation, op, invalidations>>

(* resume() *)
Resumed ==
    /\ lifecycle' = TRUE /\ accepting' = permissions
    /\ drain' = IF drain = "down" THEN "none" ELSE drain
    /\ UNCHANGED <<permissions, epoch, lifecycleEpoch, tails, generation, op,
                   barred, invalidations>>

(* drain() returns to whoever called pause(). *)
Drained ==
    /\ drain = "draining" /\ Pending = {}
    /\ drain' = IF lifecycle THEN "none" ELSE "down"
    /\ UNCHANGED <<admission, tails, generation, op, parties, barred,
                   invalidations>>

(* The user: handoff.pause closes admission, persists the pause, and waits *)
(* for the drain; a wait that overruns its slot on the chain lets a resume *)
(* in.                                                                     *)
PauseBegins ==
    /\ user = "idle"
    /\ Stopped
    /\ drain' = "draining" /\ user' = "pausing"
    /\ UNCHANGED <<paused, ready, hello, waited>>

PausePersists ==
    /\ user = "pausing"
    /\ paused' = TRUE /\ user' = "idle"
    /\ UNCHANGED <<admission, tails, generation, op, drain, ready, hello,
                   waited, barred, invalidations>>

ResumePersists ==
    /\ user = "idle"
    /\ paused' = FALSE /\ user' = "resuming"
    /\ UNCHANGED <<admission, tails, generation, op, drain, ready, hello,
                   waited, barred, invalidations>>

ResumeEnds ==
    /\ user = "resuming"
    /\ Resumed
    /\ user' = "idle"
    /\ UNCHANGED <<paused, ready, hello, waited>>

(* The native port: hello says whether the extension is paused, the host's *)
(* ready repeats it.  Without its port the handling of ready stops, except *)
(* that a write under way still lands.                                     *)
Disconnect ==
    /\ ready # "off"
    /\ Stopped
    /\ ready' = "off"
    /\ paused' = (paused \/ ready = "persisting")
    /\ UNCHANGED <<drain, user, hello, waited>>

Connect ==
    /\ ready = "off"
    /\ ready' = "hello" /\ hello' = paused
    /\ UNCHANGED <<admission, tails, generation, op, drain, paused, user,
                   waited, barred, invalidations>>

ReadyPaused ==
    /\ ready = "hello" /\ hello
    /\ Stopped
    /\ drain' = "draining" /\ ready' = "draining"
    /\ UNCHANGED <<paused, user, hello, waited>>

ReadyDrained ==
    /\ ready = "draining" /\ Pending = {}
    /\ ready' = "persisting"
    /\ UNCHANGED <<admission, tails, generation, op, drain, paused, user,
                   hello, waited, barred, invalidations>>

ReadyPersists ==
    /\ ready = "persisting"
    /\ paused' = TRUE /\ ready' = "on"
    /\ UNCHANGED <<admission, tails, generation, op, drain, user, hello,
                   waited, barred, invalidations>>

(* A state read waits for the writes that were queued when it was called.  *)
ReadyReads ==
    /\ ready = "hello" /\ ~hello
    /\ ready' = "reading" /\ waited' = (user = "pausing")
    /\ UNCHANGED <<admission, tails, generation, op, drain, paused, user,
                   hello, barred, invalidations>>

ReadyResumes ==
    /\ ready = "reading" /\ (waited => user # "pausing")
    /\ ready' = "on"
    /\ \/ ~paused /\ Resumed
       \/ /\ paused
          /\ UNCHANGED <<admission, tails, generation, op, drain, barred,
                         invalidations>>
    /\ UNCHANGED <<paused, user, hello, waited>>

--------------------------------
Next ==
    \/ \E o \in Op :
          \/ \E a \in Task, b \in Tab : EnqueueTab(o, a, b)
          \/ \E b \in Tab : ReadAfterWrites(o, b)
          \/ EnqueueGlobal(o)
          \/ \E class \in Profile : EnqueueProfile(o, class)
          \/ Dispatch(o) \/ Settle(o)
    \/ \E b \in Tab : ForgetTab(b) \/ InvalidateTab(b)
    \/ \E a \in Task : ForgetTask(a)
    \/ RevokePermissions \/ RestorePermissions
    \/ Drained \/ PauseBegins \/ PausePersists \/ ResumePersists \/ ResumeEnds
    \/ Disconnect \/ Connect \/ ReadyPaused \/ ReadyDrained \/ ReadyPersists
    \/ ReadyReads \/ ReadyResumes

Spec == Init /\ [][Next]_vars

(* The runtime runs every continuation.  Nothing makes the work of a command end: a      *)
(* developer command and the polls of a wait have no time limit.                         *)
FairSpec == Spec /\ \A o \in Op : WF_vars(Dispatch(o))

--------------------------------
(* Properties *)

(* Every variable has its type. *)
TypeOK ==
    /\ accepting \in BOOLEAN /\ lifecycle \in BOOLEAN /\ permissions \in BOOLEAN
    /\ epoch \in 0..MaxStops /\ lifecycleEpoch \in 0..MaxStops
    /\ globalTail \in Op \cup {None}
    /\ tabTail \in [Tab -> Op \cup {None}]
    /\ taskTail \in [Task -> Op \cup {None}]
    /\ generation \in [Tab -> Nat]
    /\ op \in [Op -> Call]
    /\ drain \in {"none", "draining", "down"}
    /\ paused \in BOOLEAN /\ hello \in BOOLEAN /\ waited \in BOOLEAN
    /\ user \in {"idle", "pausing", "resuming"}
    /\ ready \in {"off", "hello", "reading", "draining", "persisting", "on"}
    /\ barred \subseteq Op
    /\ invalidations \in 0..MaxInvalidations

(* Two operations of one tab, or two mutations of one task, never run at   *)
(* the same time, although each only waits for the tails it found, which   *)
(* later ones replace and settled ones leave empty.                        *)
TabAndTaskSerial ==
    \A o, q \in In("running") : o # q =>
        /\ op[o].tab # None => op[o].tab # op[q].tab
        /\ op[o].task # None => op[o].task # op[q].task

(* Global work and profile writes run alone: tab work queued before them   *)
(* has ended, work queued after them waits.                                *)
GlobalAlone ==
    \A o, q \in In("running") :
        o # q => op[o].class \notin {"global", "profileWrite"}

(* An operation that was queued when the user paused, the host went away,  *)
(* permissions were revoked or its tab navigated or changed hands never    *)
(* starts, even if admission reopened before its turn came.                *)
StoppedNeverStarts == barred \cap In("running") = {}

(* Once pause() returned, nothing runs until resume(): no operation slips  *)
(* in through restored permissions or behind the drain.                    *)
QuietWhenDown == drain = "down" => In("running") = {}

(* What was stopped stays stopped, and a pause that is over is complete.   *)
AdmissionKept == StoppedNeverStarts /\ QuietWhenDown

(* No chain of tails waits for itself or for what is over: an accepted     *)
(* operation settles, and so does the drain of a pause, unless one that    *)
(* runs never ends.                                                        *)
EveryOpSettles ==
    (\A o \in Op : []<>(op[o].phase # "running"))
      => \A o \in Op : op[o].phase = "queued" ~> op[o].phase = "settled"

(* What the documents say of Pause ("It closes new admission, waits for    *)
(* in-flight work, persists pause state"): when nobody is in the middle of *)
(* changing it, a persisted pause means a closed scheduler.  The handling  *)
(* of the host's ready breaks it from two sides: it resumes on a state it  *)
(* read before the user's pause was persisted, and persists an old pause   *)
(* after the user resumed.                                                 *)
PausedIsClosed ==
    paused /\ user = "idle" /\ ready \in {"off", "hello", "on"} => ~accepting

\* Operations of a tab and of a task run one at a time and a global one runs alone
\* (MutationScheduler.chain).
RunsAsDeclared == TypeOK /\ TabAndTaskSerial /\ GlobalAlone

================================
