---- MODULE Handoffs ----
(* Attention notices (handoff.ts): a request records one notice for a task's tab,    *)
(* which ends resolved, dismissed, expired, replaced, or with its tab or task.       *)
(* Every transition is followed by settle(), which arms the alarm for the next        *)
(* expiry and takes back the system notification of what is no longer open.  The      *)
(* operations run one at a time on a BoundedChain, which lets go of one that holds it *)
(* too long, as a request does that waits for its tab's slot in the scheduler.        *)
EXTENDS Naturals, Sequences, FiniteSets

CONSTANTS HandoffTask, HandoffTab,
          NoOwner,
          KeptNotices,     \* MAX_NOTICES
          MaxNotices,      \* bound: notices requested
          MaxTransitions,  \* bound: commands and popup messages
          MaxTime,         \* bound: the clock
          MaxTroubles      \* bound: holds outlived, worker restarts, tabs closed or dragged away

VARIABLES notices,    \* storage: [status, task, tab, expires] of each notice, in the order made
          tabOwner,   \* storage: the task whose tabIds hold each tab
          whereIs,    \* Chrome: each tab "group", "moved" out of it, or "closed"
          expiryAlarm,\* Chrome: when HANDOFF_ALARM is due, 0 when cleared
          shown,      \* Chrome: notices with a system notification
          chain,      \* transitions: operations that hold or wait for the chain, in order
          op,         \* the operations: of the start-up queue's event and of two callers
          tabEvents,  \* start-up queue: events not yet handled
          now, transitions, overruns, workerStops,
          lostTo      \* history: "check" when assertOwned took a tab away, "none"

handoffVars == <<notices, tabOwner, whereIs, expiryAlarm, shown, chain, op, tabEvents, now,
                 transitions, overruns, workerStops, lostTo>>

NoticeId == 1..MaxNotices
Callers == {"event", "first", "second"}
Rest == [kind |-> "none", at |-> "idle", task |-> NoOwner, tabs |-> {}, notice |-> 0,
         seen |-> {}, then |-> "done"]
Ended == {"resolved", "dismissed", "expired"}
IsOpen(n) == notices[n].status = "open"
Open == {n \in NoticeId : IsOpen(n)}

HandoffTypeOK ==
  /\ notices \in [NoticeId -> [status : {"none", "open", "gone"} \cup Ended,
                               task : HandoffTask \cup {NoOwner}, tab : HandoffTab, expires : Nat]]
  /\ tabOwner \in [HandoffTab -> HandoffTask \cup {NoOwner}]
  /\ whereIs \in [HandoffTab -> {"group", "moved", "closed"}]
  /\ expiryAlarm \in 0..MaxTime /\ shown \subseteq NoticeId
  /\ chain \in Seq(Callers)
  /\ \A c \in Callers :
       /\ op[c].kind \in {"none", "request", "resolve", "dismiss", "clear", "expire",
                          "click", "moved", "removed", "reconcile"}
       /\ op[c].at \in {"idle", "queued", "check", "scrub", "record", "act", "seen", "alarm",
                        "sweep", "announce", "look", "set", "unshow"}
       /\ op[c].seen \subseteq NoticeId
  /\ lostTo \in {"none", "check"}

HandoffInit ==
  /\ notices = [n \in NoticeId |-> [status |-> "none", task |-> NoOwner,
                                    tab |-> CHOOSE t \in HandoffTab : TRUE, expires |-> 0]]
  /\ tabOwner \in [HandoffTab -> HandoffTask]
  /\ whereIs = [t \in HandoffTab |-> "group"]
  /\ expiryAlarm = 0 /\ shown = {} /\ chain = <<>> /\ op = [c \in Callers |-> Rest]
  /\ tabEvents = <<>> /\ now = 1 /\ transitions = 0 /\ overruns = 0 /\ workerStops = 0 /\ lostTo = "none"

--------------------------------
(* The chain *)

Outside == UNCHANGED <<whereIs, now, transitions, overruns, workerStops>>
StateOnly == Outside /\ UNCHANGED <<expiryAlarm, shown, tabEvents>>

Trouble == overruns + workerStops + Cardinality({t \in HandoffTab : whereIs[t] # "group"}) < MaxTroubles

\* Operation c, one await further.
Goes(c, where) == op' = [op EXCEPT ![c].at = where] /\ UNCHANGED chain
\* Operation c is over: the chain, if it still holds it, passes on.
Ends(c) ==
  /\ op' = [op EXCEPT ![c] = Rest]
  /\ chain' = SelectSeq(chain, LAMBDA d : d # c)
At(c, where) == op[c].at = where

\* serialize(): the operation is queued behind the chain's tail.
Enqueues(c, kind, task, tabs, notice) ==
  /\ op[c] = Rest
  /\ op' = [op EXCEPT ![c] = [Rest EXCEPT !.kind = kind, !.at = "queued", !.task = task,
                                          !.tabs = tabs, !.notice = notice]]
  /\ chain' = Append(chain, c)

\* BoundedChain.run: its turn comes; a request goes on once its tab's slot is free.
Turn(c) ==
  /\ At(c, "queued") /\ chain # <<>> /\ Head(chain) = c
  /\ Goes(c, IF op[c].kind = "request" THEN "check" ELSE "act")
  /\ StateOnly /\ UNCHANGED <<notices, tabOwner, lostTo>>

\* The hold expires: the next operation starts beside this one.
HoldOverrun ==
  /\ chain # <<>> /\ ~At(Head(chain), "queued") /\ Trouble
  /\ overruns' = overruns + 1 /\ chain' = Tail(chain)
  /\ UNCHANGED <<notices, tabOwner, whereIs, expiryAlarm, shown, op, tabEvents, now, transitions,
                 workerStops, lostTo>>

--------------------------------
(* Transitions of notices *)

\* trimNotices: over MAX_NOTICES, the oldest that ended go.
Trimmed(book) ==
  LET kept == {n \in NoticeId : book[n].status \notin {"none", "gone"}}
      old == {n \in kept : book[n].status \in Ended}
      over == IF Cardinality(kept) > KeptNotices THEN Cardinality(kept) - KeptNotices ELSE 0
  IN [n \in NoticeId |->
        IF n \in old /\ Cardinality({m \in old : m < n}) < over
        THEN [book[n] EXCEPT !.status = "gone"] ELSE book[n]]

WithStatus(book, some, status) == [n \in NoticeId |-> IF n \in some THEN [book[n] EXCEPT !.status = status] ELSE book[n]]

\* expireNow's write.
Expire == notices' = Trimmed(WithStatus(notices, {n \in Open : notices[n].expires <= now}, "expired"))

\* assertOwned refuses, and takes away, a tab that left its group.
AssertTab(c, next) ==
  LET t == CHOOSE t \in op[c].tabs : TRUE
  IN IF tabOwner[t] # op[c].task
     THEN Ends(c) /\ UNCHANGED <<tabOwner, lostTo>>
     ELSE IF whereIs[t] # "group"
     THEN /\ Ends(c) /\ tabOwner' = [tabOwner EXCEPT ![t] = NoOwner] /\ lostTo' = "check"
     ELSE Goes(c, next) /\ UNCHANGED <<tabOwner, lostTo>>

RequestCheck(c) ==
  \/ At(c, "check") /\ AssertTab(c, "scrub") /\ StateOnly /\ UNCHANGED notices
  \/ At(c, "scrub") /\ AssertTab(c, "record") /\ StateOnly /\ UNCHANGED notices
\* A stale revision, a refused origin or a pause.
RequestRefused(c) ==
  At(c, "check") /\ Ends(c) /\ StateOnly /\ UNCHANGED <<notices, tabOwner, lostTo>>

RecordBeside(c) ==
  LET t == CHOOSE t \in op[c].tabs : TRUE
      unused == {n \in NoticeId : notices[n].status = "none"}
      n == MaxNotices + 1 - Cardinality(unused)
  IN /\ At(c, "record")
     /\ IF tabOwner[t] # op[c].task THEN Ends(c) /\ UNCHANGED notices
        ELSE /\ \E expires \in now..MaxTime :
                  notices' = Trimmed([notices EXCEPT
                               ![n] = [status |-> "open", task |-> op[c].task, tab |-> t,
                                       expires |-> expires]])
             /\ op' = [op EXCEPT ![c].at = "seen", ![c].then = "announce", ![c].notice = n]
             /\ UNCHANGED chain
     /\ StateOnly /\ UNCHANGED <<tabOwner, lostTo>>

\* The write that records the notice dismisses the tab's former one.
RecordNotice(c) ==
  LET t == CHOOSE t \in op[c].tabs : TRUE
      former == {n \in Open : notices[n].task = op[c].task /\ notices[n].tab = t}
      unused == {n \in NoticeId : notices[n].status = "none"}
      n == MaxNotices + 1 - Cardinality(unused)
  IN /\ At(c, "record")
     /\ IF tabOwner[t] # op[c].task THEN Ends(c) /\ UNCHANGED notices
        ELSE /\ \E expires \in now..MaxTime :
                  notices' = Trimmed([WithStatus(notices, former, "dismissed") EXCEPT
                               ![n] = [status |-> "open", task |-> op[c].task, tab |-> t,
                                       expires |-> expires]])
             /\ op' = [op EXCEPT ![c].at = "seen", ![c].then = "announce", ![c].notice = n]
             /\ UNCHANGED chain
     /\ StateOnly /\ UNCHANGED <<tabOwner, lostTo>>

\* status, resolve, dismiss and a click on the notification begin with expireNow.
ExpireFirst(c) ==
  /\ At(c, "act") /\ op[c].kind \in {"resolve", "dismiss", "expire", "click"}
  /\ Expire
  /\ op' = [op EXCEPT ![c].at = "seen",
                      ![c].then = IF op[c].kind = "expire" THEN "done" ELSE "look"]
  /\ StateOnly /\ UNCHANGED <<tabOwner, lostTo, chain>>

\* The notice as it is now; one that ended is answered as it is.
Look(c) ==
  /\ At(c, "look") /\ op[c].kind # "click"
  /\ IF IsOpen(op[c].notice) THEN Goes(c, "set") ELSE Ends(c)
  /\ StateOnly /\ UNCHANGED <<notices, tabOwner, lostTo>>

\* completionMatched: the tab is no longer owned, or the condition is not met.
NotMet(c) ==
  /\ At(c, "look") /\ op[c].kind = "resolve" /\ IsOpen(op[c].notice) /\ Ends(c)
  /\ StateOnly /\ UNCHANGED <<notices, tabOwner, lostTo>>

\* resolveChallengeNow: a rescan finds the episode still active.
ChallengeStands(c) ==
  /\ At(c, "look") /\ op[c].kind = "resolve" /\ IsOpen(op[c].notice) /\ Ends(c)
  /\ StateOnly /\ UNCHANGED <<notices, tabOwner, lostTo>>

\* openNow focuses the tab of an open notice.
OpenTab(c) ==
  /\ At(c, "look") /\ op[c].kind = "click" /\ Goes(c, "unshow")
  /\ StateOnly /\ UNCHANGED <<notices, tabOwner, lostTo>>

\* setStatus: only an open notice changes.
SetStatus(c) ==
  /\ At(c, "set")
  /\ IF notices[op[c].notice].status = "gone" THEN Ends(c) /\ UNCHANGED notices
     ELSE /\ notices' = Trimmed(WithStatus(notices, {op[c].notice} \cap Open,
                                        IF op[c].kind = "resolve" THEN "resolved" ELSE "dismissed"))
          /\ op' = [op EXCEPT ![c].at = "seen", ![c].then = "done"] /\ UNCHANGED chain
  /\ StateOnly /\ UNCHANGED <<tabOwner, lostTo>>

\* settle() follows a transition that changed something.
SettleIf(c, changed) ==
  IF changed THEN op' = [op EXCEPT ![c].at = "seen", ![c].then = "done"] /\ UNCHANGED chain ELSE Ends(c)

\* clearForTask deletes.
ClearForTask(c) ==
  LET gone == {n \in NoticeId : notices[n].task = op[c].task /\ notices[n].status \notin {"none", "gone"}}
  IN /\ At(c, "act") /\ op[c].kind = "clear"
     /\ notices' = WithStatus(notices, gone, "gone")
     /\ SettleIf(c, gone # {})
     /\ StateOnly /\ UNCHANGED <<tabOwner, lostTo>>

\* cancelForTab dismisses; onRemoved then revokes the tab.
RevokeRemoved(c) == [t \in HandoffTab |-> IF op[c].kind = "removed" /\ t \in op[c].tabs THEN NoOwner ELSE tabOwner[t]]
CancelForTab(c) ==
  LET gone == {n \in Open : notices[n].tab \in op[c].tabs}
  IN /\ At(c, "act") /\ op[c].kind \in {"moved", "removed", "reconcile"}
     /\ notices' = Trimmed(WithStatus(notices, gone, "dismissed"))
     /\ SettleIf(c, gone # {})
     /\ tabOwner' = IF gone = {} THEN RevokeRemoved(c) ELSE tabOwner
     /\ StateOnly /\ UNCHANGED lostTo

--------------------------------
(* settle() and the notification *)

SettleReads(c) ==
  /\ At(c, "seen")
  /\ op' = [op EXCEPT ![c].at = "alarm", ![c].seen = Open] /\ UNCHANGED chain
  /\ StateOnly /\ UNCHANGED <<notices, tabOwner, lostTo>>

\* chrome.alarms.clear and create, for the earliest expiry that was read.
SettleArms(c) ==
  /\ At(c, "alarm")
  /\ expiryAlarm' = IF op[c].seen = {} THEN 0
                    ELSE CHOOSE e \in {notices[n].expires : n \in op[c].seen} :
                           \A n \in op[c].seen : e <= notices[n].expires
  /\ Goes(c, "sweep")
  /\ Outside /\ UNCHANGED <<notices, tabOwner, lostTo, shown, tabEvents>>

\* What was not open when it was read loses its notification; onRemoved goes on to
\* revoke the tab.
SettleSweeps(c) ==
  /\ At(c, "sweep")
  /\ shown' = shown \cap op[c].seen
  /\ IF op[c].then = "done" THEN Ends(c)
     ELSE op' = [op EXCEPT ![c].at = op[c].then, ![c].seen = {}] /\ UNCHANGED chain
  /\ tabOwner' = RevokeRemoved(c)
  /\ Outside /\ UNCHANGED <<notices, lostTo, expiryAlarm, tabEvents>>

AnnounceNotice(c) ==
  /\ At(c, "announce") /\ shown' = shown \cup {op[c].notice}
  /\ Ends(c)
  /\ Outside /\ UNCHANGED <<notices, tabOwner, lostTo, expiryAlarm, tabEvents>>

\* openFromNotification retires the notification whatever openNow did.
Unshow(c) ==
  /\ At(c, "unshow") /\ shown' = shown \ {op[c].notice}
  /\ Ends(c)
  /\ Outside /\ UNCHANGED <<notices, tabOwner, lostTo, expiryAlarm, tabEvents>>

--------------------------------
(* Callers *)

\* A command of the agent or a message of the popup.  The end of a task takes its tabs
\* first; nothing is asked of a notice that was never made.
Calls(c, kind, task, t, n) ==
  /\ c = (IF op["first"] = Rest THEN "first" ELSE "second") /\ transitions < MaxTransitions /\ transitions' = transitions + 1
  /\ \/ kind = "request" /\ notices[MaxNotices].status = "none" /\ now < MaxTime /\ n = 1
        /\ \A d \in Callers : op[d].kind # "request"
     \/ kind = "clear" /\ n = 1
     \/ kind \in {"resolve", "dismiss"} /\ notices[n].status \notin {"none", "gone"}
  /\ Enqueues(c, kind, task, IF kind = "request" THEN {t} ELSE {}, IF kind \in {"resolve", "dismiss"} THEN n ELSE 0)
  /\ tabOwner' = IF kind = "clear" THEN [s \in HandoffTab |-> IF tabOwner[s] = task THEN NoOwner ELSE tabOwner[s]]
                 ELSE tabOwner
  /\ UNCHANGED <<notices, whereIs, expiryAlarm, shown, tabEvents, now, overruns, workerStops, lostTo>>

\* The user closes a tab, drags it out of its group, or clicks a notification.
UserActs(t, kind) ==
  /\ whereIs[t] = "group" /\ Trouble
  /\ whereIs' = [whereIs EXCEPT ![t] = IF kind = "moved" THEN "moved" ELSE "closed"]
  /\ tabEvents' = Append(tabEvents, [kind |-> kind, tab |-> t, notice |-> 0])
  /\ UNCHANGED <<notices, tabOwner, expiryAlarm, shown, chain, op, now, transitions, overruns, workerStops, lostTo>>
UserClicks(n) ==
  /\ n \in shown /\ Len(tabEvents) < 2 /\ transitions < MaxTransitions /\ transitions' = transitions + 1
  /\ tabEvents' = Append(tabEvents, [kind |-> "click", tab |-> notices[n].tab, notice |-> n])
  /\ UNCHANGED <<notices, tabOwner, whereIs, expiryAlarm, shown, chain, op, now, overruns, workerStops, lostTo>>

AlarmRings ==
  /\ expiryAlarm # 0 /\ expiryAlarm <= now /\ expiryAlarm' = 0
  /\ tabEvents' = Append(tabEvents, [kind |-> "expire", tab |-> CHOOSE t \in HandoffTab : TRUE, notice |-> 0])
  /\ UNCHANGED <<notices, tabOwner, whereIs, shown, chain, op, now, transitions, overruns, workerStops, lostTo>>

\* The start-up queue handles one event at a time.  An event of a tab nobody owns is
\* left alone; a moved tab is revoked before its notices are cancelled.
HandleEvent ==
  LET e == Head(tabEvents) IN
  /\ tabEvents # <<>> /\ op["event"] = Rest /\ tabEvents' = Tail(tabEvents)
  /\ IF e.kind \in {"moved", "removed"} /\ tabOwner[e.tab] = NoOwner
     THEN UNCHANGED <<op, chain, tabOwner>>
     ELSE /\ Enqueues("event", e.kind, NoOwner, IF e.kind \in {"moved", "removed"} THEN {e.tab} ELSE {}, e.notice)
          /\ tabOwner' = IF e.kind = "moved" THEN [tabOwner EXCEPT ![e.tab] = NoOwner] ELSE tabOwner
  /\ Outside /\ UNCHANGED <<notices, expiryAlarm, shown, lostTo>>

\* Chrome stops the worker; initializeRuntime reconciles the tabs and restores the notices.
WorkerStops ==
  LET lost == {t \in HandoffTab : tabOwner[t] # NoOwner /\ whereIs[t] # "group"} IN
  /\ Trouble /\ workerStops' = workerStops + 1
  /\ tabOwner' = [t \in HandoffTab |-> IF t \in lost THEN NoOwner ELSE tabOwner[t]]
  /\ op' = [c \in Callers |-> IF c = "event" THEN [Rest EXCEPT !.kind = "reconcile", !.at = "queued", !.tabs = lost] ELSE Rest]
  /\ chain' = <<"event">>
  /\ tabEvents' = <<[kind |-> "expire", tab |-> CHOOSE t \in HandoffTab : TRUE, notice |-> 0]>>
  /\ UNCHANGED <<notices, whereIs, expiryAlarm, shown, now, transitions, overruns, lostTo>>

\* Time that passes before the first notice makes no difference.
Tick ==
  /\ now < MaxTime /\ now' = now + 1 /\ \E n \in NoticeId : notices[n].status # "none"
  /\ UNCHANGED <<notices, tabOwner, whereIs, expiryAlarm, shown, chain, op, tabEvents, transitions,
                 overruns, workerStops, lostTo>>

HandoffStep(c) ==
  \/ Turn(c) \/ RequestCheck(c) \/ RecordNotice(c) \/ ExpireFirst(c) \/ Look(c) \/ OpenTab(c)
  \/ SetStatus(c) \/ ClearForTask(c) \/ CancelForTab(c) \/ SettleReads(c) \/ SettleArms(c) \/ SettleSweeps(c)
  \/ AnnounceNotice(c) \/ Unshow(c)

HandoffNext ==
  \/ \E c \in Callers : HandoffStep(c) \/ RequestRefused(c) \/ NotMet(c) \/ ChallengeStands(c)
  \/ \E c \in Callers, kind \in {"request", "clear", "resolve", "dismiss"}, task \in HandoffTask,
        t \in HandoffTab, n \in NoticeId : Calls(c, kind, task, t, n)
  \/ \E t \in HandoffTab, kind \in {"moved", "removed"} : UserActs(t, kind)
  \/ \E n \in NoticeId : UserClicks(n)
  \/ HoldOverrun \/ AlarmRings \/ HandleEvent \/ WorkerStops \/ Tick

\* Operations go on, Chrome delivers alarms and events, and time passes.
HandoffFairness ==
  /\ \A c \in Callers : WF_handoffVars(HandoffStep(c))
  /\ WF_handoffVars(AlarmRings) /\ WF_handoffVars(HandleEvent) /\ WF_handoffVars(Tick)

HandoffSpec == HandoffInit /\ [][HandoffNext]_handoffVars /\ HandoffFairness

--------------------------------
(* Properties *)

Quiet == tabEvents = <<>> /\ \A c \in Callers : op[c] = Rest

\* A task's tab has one open notice at most, whatever overruns or restarts there were
\* (docs/multi-agent.md:49, HandoffController.requestNow).
OneNoticePerTab ==
  \A n, m \in Open : notices[n].task = notices[m].task /\ notices[n].tab = notices[m].tab => n = m

\* What ended stays as it ended: a resolve that awaited its completion condition does
\* not revive, or rename, a notice that was dismissed or expired meanwhile (setStatus).
EndedNoticeStays ==
  [][\A n \in NoticeId : notices[n].status \in Ended \cup {"gone"}
       => notices'[n].status \in {notices[n].status, "gone"}]_handoffVars

\* Unless a hold was outlived: when nothing runs, an alarm is set no later than the
\* expiry of any open notice, or is past due (HandoffController.settle).
AlarmCoversOpen == Quiet /\ overruns = 0 => \A n \in Open : expiryAlarm \in 1..notices[n].expires

\* Unless a hold was outlived: when nothing runs, only open notices have a system
\* notification (docs/security.md:116, settle and announce).
NotificationsEnd == Quiet /\ overruns = 0 => shown \subseteq Open

\* Unless a hold was outlived, the worker stopped or assertOwned took the tab itself:
\* when nothing runs, an open notice is for a tab its task still owns (cancelForTab).
NoticeFollowsTab ==
  Quiet /\ overruns = 0 /\ workerStops = 0 /\ lostTo = "none"
    => \A n \in Open : tabOwner[notices[n].tab] = notices[n].task

\* An open notice does not outlive its time for ever.
NoticesRetire == []<>(Open = {} \/ overruns > 0)

\* Violated: settle() "arms the alarm for the next expiry" after every notice
\* transition (handoff.ts:388).
AlarmAlwaysCovers == Quiet => \A n \in Open : expiryAlarm \in 1..notices[n].expires

\* Open notices: one of a task and tab, on a tab the task still owns, each with an alarm
\* that comes in time and no notification without it; an ended one stays ended
\* (HandoffRegistry).
NoticesAccounted ==
  /\ [](HandoffTypeOK /\ OneNoticePerTab /\ AlarmCoversOpen /\ NotificationsEnd /\ NoticeFollowsTab)
  /\ EndedNoticeStays

================================
