---- MODULE StartupQueue ----
(* The start of the extension's service worker (startup.ts): IdempotentStartup,     *)
(* whose initialization may fail and be tried again, and StartupOperationQueue, on   *)
(* which every tab event, alarm and permission event waits for that start.  An       *)
(* event that only needs the runtime (a popup message, background.ts:1192, or the    *)
(* page of wake.ts) starts it without queueing anything.                             *)
EXTENDS Naturals, Sequences, SequencesExt, FiniteSets

CONSTANTS Event,           \* queued operations, each enqueued at most once
          MaxStartFailures, \* bound: initializations that fail
          NoEvent           \* no operation holds the queue

ASSUME StartupAssumption == MaxStartFailures \in Nat /\ NoEvent \notin Event

VARIABLES startupPhase,    \* currentPhase: "idle", "starting", "ready"
          waiting,         \* pending: operations not yet begun, in order
          draining,        \* "none", "starting" (awaits start()), "holding", "ending"
          holder,          \* the operation the drain waits for
          unfinished,      \* operations begun and not over
          retryAfterDrain,
          begunOrder,      \* history: operations in the order they began
          arrivalOrder,    \* history: operations in the order they were enqueued
          startFailures

startupVars == <<startupPhase, waiting, draining, holder, unfinished, retryAfterDrain,
                 begunOrder, arrivalOrder, startFailures>>

StartupTypeOK ==
  /\ startupPhase \in {"idle", "starting", "ready"}
  /\ waiting \in Seq(Event) /\ begunOrder \in Seq(Event) /\ arrivalOrder \in Seq(Event)
  /\ draining \in {"none", "starting", "holding", "ending"}
  /\ holder \in Event \cup {NoEvent}
  /\ unfinished \subseteq Event
  /\ retryAfterDrain \in BOOLEAN
  /\ startFailures \in 0..MaxStartFailures

StartupInit ==
  /\ startupPhase = "idle" /\ waiting = <<>> /\ draining = "none"
  /\ holder = NoEvent /\ unfinished = {} /\ retryAfterDrain = FALSE
  /\ begunOrder = <<>> /\ arrivalOrder = <<>>
  /\ startFailures = 0

--------------------------------

\* start(): joins the initialization under way, or begins one.
Started(phase) == IF phase = "idle" THEN "starting" ELSE phase

\* The drain after its await of start(), or after an operation let go: the next
\* operation begins, in order; with none left the drain ends.
TakeNext(running) ==
  IF waiting = <<>>
  THEN /\ draining' = "ending" /\ holder' = NoEvent /\ unfinished' = running
       /\ UNCHANGED <<waiting, begunOrder>>
  ELSE /\ draining' = "holding" /\ holder' = Head(waiting)
       /\ waiting' = Tail(waiting)
       /\ unfinished' = running \cup {Head(waiting)}
       /\ begunOrder' = Append(begunOrder, Head(waiting))

\* requestDrain(): a drain under way is asked to look again, otherwise one begins
\* and its first act is to start the runtime.
Request(queue) ==
  IF queue = <<>> THEN UNCHANGED <<draining, retryAfterDrain, startupPhase>>
  ELSE IF draining # "none"
       THEN retryAfterDrain' = TRUE /\ UNCHANGED <<draining, startupPhase>>
       ELSE /\ draining' = "starting" /\ startupPhase' = Started(startupPhase)
            /\ UNCHANGED retryAfterDrain

\* enqueue(operation).
Enqueue(e) ==
  /\ e \notin ToSet(arrivalOrder)
  /\ waiting' = Append(waiting, e)
  /\ arrivalOrder' = Append(arrivalOrder, e)
  /\ Request(waiting')
  /\ UNCHANGED <<holder, unfinished, begunOrder, startFailures>>

\* start() without an operation: a popup message or a cleanup that needs the runtime.
StartOnly ==
  /\ startupPhase = "idle"
  /\ startupPhase' = "starting"
  /\ UNCHANGED <<waiting, draining, holder, unfinished, retryAfterDrain, begunOrder,
                 arrivalOrder, startFailures>>

\* initializeRuntime resolves: the phase is ready and the listeners hear it at once.
\* A drain that awaited this start goes on in a later turn (DrainResumes).
ReadyListener ==
  IF waiting = <<>> THEN UNCHANGED <<draining, retryAfterDrain>>
  ELSE IF draining # "none" THEN retryAfterDrain' = TRUE /\ UNCHANGED draining
  ELSE draining' = "starting" /\ UNCHANGED retryAfterDrain

StartSucceeds ==
  /\ startupPhase = "starting"
  /\ startupPhase' = "ready"
  /\ ReadyListener
  /\ UNCHANGED <<waiting, holder, unfinished, begunOrder, arrivalOrder, startFailures>>

\* Mutant: the catch of drain() reports the error and goes on to the operations.
StartFailsOnward ==
  /\ startupPhase = "starting" /\ startFailures < MaxStartFailures
  /\ startupPhase' = "idle" /\ startFailures' = startFailures + 1
  /\ IF draining = "starting" THEN TakeNext(unfinished)
     ELSE UNCHANGED <<draining, holder, waiting, unfinished, begunOrder>>
  /\ UNCHANGED <<retryAfterDrain, arrivalOrder>>

\* initializeRuntime rejects: a later start() begins again; a drain that awaited it
\* reports the error and ends.
StartFails ==
  /\ startupPhase = "starting" /\ startFailures < MaxStartFailures
  /\ startupPhase' = "idle" /\ startFailures' = startFailures + 1
  /\ draining' = IF draining = "starting" THEN "ending" ELSE draining
  /\ UNCHANGED <<waiting, holder, unfinished, retryAfterDrain, begunOrder, arrivalOrder>>

DrainResumes ==
  /\ draining = "starting" /\ startupPhase = "ready"
  /\ TakeNext(unfinished)
  /\ UNCHANGED <<startupPhase, retryAfterDrain, arrivalOrder, startFailures>>

\* An operation is over, with or without an error.  Only the one that holds the
\* queue lets the drain go on; one that outlived its hold ends unnoticed.
OperationEnds(e) ==
  /\ e \in unfinished
  /\ IF holder = e THEN TakeNext(unfinished \ {e})
     ELSE unfinished' = unfinished \ {e} /\ UNCHANGED <<draining, holder, waiting, begunOrder>>
  /\ UNCHANGED <<startupPhase, retryAfterDrain, arrivalOrder, startFailures>>

\* settledWithin answers false at STARTUP_OPERATION_TIMEOUT_MS: the error is
\* reported, the operation keeps running and the next one begins.
HoldExpires ==
  /\ draining = "holding"
  /\ TakeNext(unfinished)
  /\ UNCHANGED <<startupPhase, retryAfterDrain, arrivalOrder, startFailures>>

\* beginDrain's finally: another drain begins when operations wait and the runtime
\* is ready or something asked meanwhile.
Again == waiting # <<>> /\ (startupPhase = "ready" \/ retryAfterDrain)
DrainEnds ==
  /\ draining = "ending"
  /\ retryAfterDrain' = FALSE
  /\ IF Again THEN draining' = "starting" /\ startupPhase' = Started(startupPhase)
              ELSE draining' = "none" /\ UNCHANGED startupPhase
  /\ UNCHANGED <<waiting, holder, unfinished, begunOrder, arrivalOrder, startFailures>>

StartupNext ==
  \/ \E e \in Event : Enqueue(e) \/ OperationEnds(e)
  \/ StartOnly \/ StartSucceeds \/ StartFails \/ DrainResumes \/ HoldExpires \/ DrainEnds

\* The event loop runs what is due and the timer of the hold fires.  An operation
\* itself need never end, and nothing promises another event.
StartupFairness ==
  /\ WF_startupVars(StartSucceeds \/ StartFails)
  /\ WF_startupVars(DrainResumes)
  /\ WF_startupVars(HoldExpires)
  /\ WF_startupVars(DrainEnds)

StartupSpec == StartupInit /\ [][StartupNext]_startupVars /\ StartupFairness

--------------------------------

\* No operation is lost, run twice or begun before an older one, and none begins
\* before the runtime is ready: a tab event handled early would find a ledger that
\* was not reconciled (StartupOperationQueue.drain).
BegunOnceInOrder ==
  /\ begunOrder \o waiting = arrivalOrder
  /\ begunOrder # <<>> => startupPhase = "ready"

\* Operations that wait while nothing drains wait for a start, and the start that
\* succeeds finds them: no start leaves them behind, whoever asked for it.
NeverStranded == waiting # <<>> /\ draining = "none" => startupPhase # "ready"

\* Once the runtime is ready every operation begins, though an earlier one may
\* never settle (STARTUP_OPERATION_TIMEOUT_MS).
OperationsBegin == []<>(startupPhase = "ready" => waiting = <<>>)

\* The queue of operations that arrive before the runtime is ready: each begins once, in the
\* order of arrival, after the reconciliation and never forgotten (StartupOperationQueue).
OperationsInOrder == StartupTypeOK /\ BegunOnceInOrder /\ NeverStranded

================================
