---- MODULE Popup ----
(* The extension's popup (popup.ts) and the service worker's answers to it           *)
(* (background.ts handlePopupMessage).  The popup shows a copy of the worker's state, *)
(* asks for a new one when storage or a permission changes, and runs one user action  *)
(* at a time: the action, then a fresh read.  Every message is answered on its own:   *)
(* agents change the state between, answers may overtake each other, and a stopped    *)
(* worker gives none.                                                                 *)
EXTENDS Naturals, FiniteSets

CONSTANTS PopupTask,       \* task ids
          NoTask, NoView,
          MaxAgentChanges, \* bound: tasks that agents begin or end
          MaxClicks,       \* bound: user clicks
          MaxMessages,     \* bound: messages on the way at a time
          MaxUnanswered    \* bound: messages that fail or get no answer

VARIABLES truth,           \* the worker's state: [n, tasks, on, granted]; n counts changes
          events,          \* storage and permission events the popup has not heard
          messages,        \* on the way, handled or answered: [id, kind, arg, for, at, view]
          current,         \* the state last read, or NoView
          rows,            \* what the rows show: [tasks, confirm, on]
          guard,           \* pending: "idle", "acting", "loading"
          confirming,      \* the task whose Finish asks for a second click
          confirmEpoch, confirmTimers,
          agentChanges, clicks, unanswered,
          doneAt           \* truth.n when the running action was answered

popupVars == <<truth, events, messages, current, rows, guard, confirming, confirmEpoch,
               confirmTimers, agentChanges, clicks, unanswered, doneAt>>

Views == [n : Nat, tasks : SUBSET PopupTask, on : BOOLEAN, granted : BOOLEAN]
ActionKinds == {"toggle", "close", "keep", "permit"}
Idle == guard = "idle"
NewId == CHOOSE i \in 0 .. Cardinality(messages) : \A m \in messages : m.id # i

PopupTypeOK ==
  /\ truth \in Views /\ current \in Views \cup {NoView}
  /\ rows.tasks \subseteq PopupTask /\ rows.confirm \in PopupTask \cup {NoTask}
  /\ guard \in {"idle", "acting", "loading"} /\ confirming \in PopupTask \cup {NoTask}
  /\ \A m \in messages : /\ m.kind \in ActionKinds \cup {"get"} /\ m.for \in {"guard", "reload"}
                         /\ m.at \in {"sent", "read", "answered", "failed"}
  /\ ~Idle => \E m \in messages : m.for = "guard"

Message(kind, arg, for) ==
  [id |-> NewId, kind |-> kind, arg |-> arg, for |-> for, at |-> "sent", view |-> NoView]

\* The popup opens: its first read is as after an event.
PopupInit ==
  /\ truth \in {[n |-> 0, tasks |-> {}, on |-> FALSE, granted |-> g] : g \in BOOLEAN}
  /\ events = 1 /\ messages = {} /\ current = NoView
  /\ rows = [tasks |-> {}, confirm |-> NoTask, on |-> FALSE]
  /\ guard = "idle" /\ confirming = NoTask /\ confirmEpoch = 0 /\ confirmTimers = {}
  /\ agentChanges = 0 /\ clicks = 0 /\ unanswered = 0 /\ doneAt = 0

--------------------------------
(* The service worker *)

workerSees == <<truth, events>>
popupHolds == <<current, rows, guard, confirming, confirmEpoch, confirmTimers, doneAt>>
counts == <<agentChanges, clicks, unanswered>>

Becomes(v) ==
  /\ truth' = [v EXCEPT !.n = truth.n + 1]
  /\ events' = events + 1

AgentChanges ==
  /\ agentChanges < MaxAgentChanges /\ agentChanges' = agentChanges + 1
  /\ \E k \in PopupTask :
       Becomes([truth EXCEPT !.tasks = IF k \in @ THEN @ \ {k} ELSE @ \cup {k}])
  /\ UNCHANGED <<messages, popupHolds, clicks, unanswered>>

Now(m, at, view) == messages' = (messages \ {m}) \cup {[m EXCEPT !.at = at, !.view = view]}

\* get_ui_state reads the record, then asks Chrome whether scripting is granted.
HandleGet ==
  \E m \in messages :
    /\ m.kind = "get"
    /\ \/ m.at = "sent" /\ Now(m, "read", truth)
       \/ m.at = "read" /\ Now(m, "answered", [m.view EXCEPT !.granted = truth.granted])
    /\ UNCHANGED <<workerSees, popupHolds, counts>>

\* set_pointer, set_skip_commit_review, set_cleanup_policy; close_task and keep_task,
\* which may keep the task; the permission prompt, which the user may decline.
After(m) ==
  CASE m.kind = "toggle" -> {[truth EXCEPT !.on = m.arg]}
    [] m.kind \in {"close", "keep"} -> {truth, [truth EXCEPT !.tasks = @ \ {m.arg}]}
    [] m.kind = "permit" -> {[truth EXCEPT !.granted = ~@]}

HandleAction ==
  \E m \in messages :
    /\ m.kind \in ActionKinds /\ m.at = "sent"
    /\ \E v \in After(m) : IF v = truth THEN UNCHANGED workerSees ELSE Becomes(v)
    /\ Now(m, "answered", NoView)
    /\ UNCHANGED <<popupHolds, counts>>

\* The worker stops, refuses or throws; what it did by then stays.
GoesUnanswered ==
  \E m \in messages :
    /\ m.at # "failed" /\ unanswered < MaxUnanswered /\ unanswered' = unanswered + 1
    /\ Now(m, "failed", NoView)
    /\ UNCHANGED <<workerSees, popupHolds, agentChanges, clicks>>

--------------------------------
(* The popup *)

\* render: every row anew; a confirmation for a task that is gone is taken back.
Rows(v, c) == [tasks |-> v.tasks, confirm |-> IF c \in v.tasks THEN c ELSE NoTask, on |-> v.on]
Render(v) ==
  /\ current' = v
  /\ rows' = Rows(v, confirming)
  /\ IF confirming = NoTask \/ confirming \in v.tasks THEN UNCHANGED <<confirming, confirmEpoch>>
     ELSE confirming' = NoTask /\ confirmEpoch' = confirmEpoch + 1

\* fatal: the copy is dropped, the rows stay.
Fatal == current' = NoView /\ UNCHANGED <<rows, confirming, confirmEpoch>>

Sends(kind, arg, for) ==
  messages' = messages \cup {Message(kind, arg, for)}

\* reload: dropped while an action runs.
Hears ==
  /\ events > 0 /\ events' = events - 1
  /\ Cardinality(messages) < MaxMessages
  /\ IF Idle THEN Sends("get", NoTask, "reload") ELSE UNCHANGED messages
  /\ UNCHANGED <<truth, popupHolds, agentChanges, clicks, unanswered>>

ReloadEnds ==
  \E m \in messages :
    /\ m.for = "reload" /\ m.at \in {"answered", "failed"} /\ messages' = messages \ {m}
    /\ IF m.at = "answered" THEN Render(m.view) ELSE Fatal
    /\ UNCHANGED <<workerSees, guard, confirmTimers, doneAt, counts>>

Click == clicks < MaxClicks /\ clicks' = clicks + 1

\* guard: a second action while one runs is dropped.
Guarded(kind, arg) == Idle /\ guard' = "acting" /\ Sends(kind, arg, "guard")

ClickControl ==
  /\ Click
  /\ \/ Guarded("toggle", ~rows.on) /\ rows' = [rows EXCEPT !.on = ~@]
     \/ Guarded("permit", NoTask) /\ UNCHANGED rows
     \/ \E k \in rows.tasks : Guarded("keep", k) /\ UNCHANGED rows
  /\ UNCHANGED <<workerSees, current, confirming, confirmEpoch, confirmTimers, agentChanges,
                 unanswered, doneAt>>

\* The first click on Finish arms the row for five seconds, even while an action runs.
ClickFinish(k) ==
  /\ Click /\ k \in rows.tasks /\ confirming # k
  /\ confirmEpoch' = confirmEpoch + 1 /\ confirming' = k
  /\ confirmTimers' = confirmTimers \cup {confirmEpoch + 1}
  /\ rows' = IF current = NoView THEN rows ELSE Rows(current, k)
  /\ UNCHANGED <<workerSees, messages, current, guard, agentChanges, unanswered, doneAt>>

ClickConfirm(k) ==
  /\ Click /\ k \in rows.tasks /\ confirming = k
  /\ Guarded("close", k)
  /\ UNCHANGED <<workerSees, current, rows, confirming, confirmEpoch, confirmTimers,
                 agentChanges, unanswered, doneAt>>

ArmTimerFires ==
  \E e \in confirmTimers :
    /\ confirmTimers' = confirmTimers \ {e}
    /\ IF e = confirmEpoch
       THEN /\ confirming' = NoTask /\ confirmEpoch' = confirmEpoch + 1
            /\ rows' = IF current = NoView THEN rows ELSE Rows(current, NoTask)
       ELSE UNCHANGED <<confirming, confirmEpoch, rows>>
    /\ UNCHANGED <<workerSees, messages, current, guard, doneAt, counts>>

\* The action is answered, or its error shown; the state is read again either way.
ReusesView ==
  /\ guard = "acting" /\ guard' = "idle" /\ doneAt' = truth.n
  /\ \E m \in messages :
       /\ m.for = "guard" /\ m.at \in {"answered", "failed"} /\ messages' = messages \ {m}
  /\ UNCHANGED <<workerSees, current, rows, confirming, confirmEpoch, confirmTimers, counts>>
ActionEnds ==
  /\ guard = "acting" /\ guard' = "loading" /\ doneAt' = truth.n
  /\ \E m \in messages :
       /\ m.for = "guard" /\ m.at \in {"answered", "failed"}
       /\ messages' = (messages \ {m}) \cup {Message("get", NoTask, "guard")}
       /\ IF m.at = "answered" /\ m.kind \in {"close", "keep"}
          THEN confirming' = NoTask /\ confirmEpoch' = confirmEpoch + 1
          ELSE UNCHANGED <<confirming, confirmEpoch>>
  /\ UNCHANGED <<workerSees, current, rows, confirmTimers, agentChanges, clicks, unanswered>>

NoLongerPending(at) == "idle"
PopupLoads ==
  /\ guard = "loading"
  /\ \E m \in messages :
       /\ m.for = "guard" /\ m.at \in {"answered", "failed"} /\ messages' = messages \ {m}
       /\ guard' = NoLongerPending(m.at)
       /\ IF m.at = "answered" THEN Render(m.view) ELSE Fatal
  /\ UNCHANGED <<workerSees, confirmTimers, doneAt, counts>>

PopupNext ==
  \/ AgentChanges \/ HandleGet \/ HandleAction \/ GoesUnanswered
  \/ Hears \/ ReloadEnds \/ ClickControl
  \/ \E k \in PopupTask : ClickFinish(k) \/ ClickConfirm(k)
  \/ ArmTimerFires \/ ActionEnds \/ PopupLoads

\* Chrome runs the worker for a message and delivers its answer.
PopupFairness == WF_popupVars(HandleGet) /\ WF_popupVars(HandleAction)
                 /\ WF_popupVars(ActionEnds) /\ WF_popupVars(PopupLoads)
PopupSpec == PopupInit /\ [][PopupNext]_popupVars /\ PopupFairness

--------------------------------
(* Properties *)

\* Nothing asks for the second click longer than its five seconds: while a row is armed,
\* the timer that will take it back is running, also when the state could not be read
\* (arm, disarm, fatal).
ArmedIsTimed == confirming # NoTask => confirmEpoch \in confirmTimers

\* An action ends on a state read after its answer: what the popup shows then has the
\* action's effect in it (guard).
ActionEndsOnFreshView ==
  [][~Idle /\ guard' = "idle" => current' = NoView \/ current'.n >= doneAt']_popupVars

\* An action and its read always end, so the controls come back, answered or not (guard's
\* finally).
ControlsComeBack == []<>Idle

\* Once everything is heard and answered, the popup shows the worker's state
\* (popup.ts:481-484 "always re-reads authoritative state afterwards so the UI cannot
\* drift").
UiCannotDrift ==
  Idle /\ messages = {} /\ events = 0 /\ current # NoView =>
    current.tasks = truth.tasks /\ current.on = truth.on /\ current.granted = truth.granted

\* The popup asks again before it ends a task, takes its question back in time, and gives
\* the controls back only over a view read after the action (popup.ts, guard and Finish).
ControlsAreFresh == [](PopupTypeOK /\ ArmedIsTimed) /\ ActionEndsOnFreshView

================================
