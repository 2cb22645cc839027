---- MODULE PermissionCleanup ----
(* What the extension does when the user takes back the optional "scripting"        *)
(* permission (background.ts): the scheduler stops admitting work, the request is    *)
(* stored with an epoch, running work drains, every debugger session is detached,    *)
(* and the request is closed unless a newer one came meanwhile; a failure is tried   *)
(* again by a timer and an alarm.  Beside it stands the use of the debugger that     *)
(* cleanup has to undo (browser.ts): a tab is written to storage before the debugger *)
(* is attached, and forgotten after it is detached, so that a service worker that    *)
(* Chrome kills and starts again still knows what to detach.                         *)
EXTENDS Naturals, Sequences, FiniteSets

CONSTANTS Page,             \* tabs on which commands use the debugger
          MaxChanges,       \* bound: times the user changes the permission
          MaxKills,         \* bound: times Chrome stops the service worker
          MaxDetachFailures \* bound: chrome.debugger.detach calls and writes that fail

VARIABLES scripting,        \* Chrome: the permission is granted
          permissionEvents, \* Chrome: onAdded and onRemoved events not yet delivered
          attached,         \* Chrome: tabs with the debugger attached
          saved,            \* storage: automationCleanup [pending, epoch, tabIds]
          retryAlarm,       \* Chrome: AUTOMATION_CLEANUP_ALARM or the retry timer is set
          worker,           \* "down", "starting", "up"
          cleanupPending,   \* automationCleanupPending
          cleanupEpoch,     \* automationCleanupEpoch
          writes,           \* mutationQueue: mutateState calls not yet written, in order
          cleanup,          \* clearAutomationRuntime: [at, epoch, left, failed]
          queuedAgain,      \* another clearAutomationRuntime is queued behind it
          asked,            \* automationEnabled calls of start-up, onAdded and cleanup
          permits,          \* scheduler.permissionsAvailable
          use,              \* a command's use of each tab: "none", "asking", "recording", ...
          sessions,         \* tabs in this.sessions with attached = TRUE
          candidates,       \* debuggerCandidates
          changes, kills, detachFailures

chromeVars == <<scripting, permissionEvents, attached, changes>>
workerVars == <<worker, cleanupPending, cleanupEpoch, writes, cleanup, queuedAgain,
                asked, permits, use, sessions, candidates>>
permissionVars == <<scripting, permissionEvents, attached, saved, retryAlarm, worker,
                    cleanupPending, cleanupEpoch, writes, cleanup, queuedAgain, asked,
                    permits, use, sessions, candidates, changes, kills,
                    detachFailures>>

\* The mutateState calls: a request with its epoch, a cleanup's first and second
\* write, a tab recorded or forgotten.
Writes == [kind : {"request"}, epoch : Nat] \cup [kind : {"mark", "close"}]
          \cup [kind : {"record", "forget"}, tab : Page]
Askers == {"start", "added", "cleanup"}
CleanupIdle == [at |-> "idle", epoch |-> 0, left |-> {}, failed |-> FALSE]
Unasked == [a \in Askers |-> "none"]

PermissionTypeOK ==
  /\ scripting \in BOOLEAN /\ permits \in BOOLEAN /\ cleanupPending \in BOOLEAN
  /\ permissionEvents \in Seq({"added", "removed"})
  /\ attached \subseteq Page /\ sessions \subseteq Page /\ candidates \subseteq Page
  /\ saved \in [pending : BOOLEAN, epoch : Nat, tabIds : SUBSET Page]
  /\ retryAlarm \in BOOLEAN /\ queuedAgain \in BOOLEAN
  /\ worker \in {"down", "starting", "up"} /\ cleanupEpoch \in Nat
  /\ writes \in Seq(Writes)
  /\ cleanup.at \in {"idle", "queued", "draining", "marking", "scrubbing", "writing", "closing"}
  /\ cleanup.left \subseteq Page
  /\ asked \in [Askers -> {"none", "reading", "yes", "no"}]
  /\ use \in [Page -> {"none", "asking", "recording", "attaching", "using"}]

\* A worker that runs, granted and idle.
PermissionInit ==
  /\ scripting = TRUE /\ permissionEvents = <<>> /\ attached = {}
  /\ saved = [pending |-> FALSE, epoch |-> 0, tabIds |-> {}] /\ retryAlarm = FALSE
  /\ worker = "up" /\ cleanupPending = FALSE /\ cleanupEpoch = 0 /\ writes = <<>>
  /\ cleanup = CleanupIdle /\ queuedAgain = FALSE /\ asked = Unasked /\ permits = TRUE
  /\ use = [t \in Page |-> "none"] /\ sessions = {} /\ candidates = {}
  /\ changes = 0 /\ kills = 0 /\ detachFailures = 0

Larger(a, b) == IF a > b THEN a ELSE b

--------------------------------
(* The permission and its events *)

\* The popup's Automation control, or Chrome's settings, change the grant.
Toggle ==
  /\ changes < MaxChanges
  /\ changes' = changes + 1 /\ scripting' = ~scripting
  /\ permissionEvents' = Append(permissionEvents, IF scripting THEN "removed" ELSE "added")
  /\ UNCHANGED <<attached, saved, retryAlarm, kills, detachFailures>>
  /\ UNCHANGED workerVars

\* queueAutomationCleanup: one run at a time, a later call runs after it.
Queued(c) == IF c.at = "idle" THEN [CleanupIdle EXCEPT !.at = "queued"] ELSE c
QueueCleanup == cleanup' = Queued(cleanup) /\ queuedAgain' = (queuedAgain \/ cleanup.at # "idle")

\* chrome.permissions.onRemoved: the listener runs at once, even before start-up is over.
OnRemoved ==
  /\ worker # "down" /\ permissionEvents # <<>> /\ Head(permissionEvents) = "removed"
  /\ permissionEvents' = Tail(permissionEvents)
  /\ permits' = FALSE /\ cleanupPending' = TRUE
  /\ cleanupEpoch' = cleanupEpoch + 1
  /\ writes' = Append(writes, [kind |-> "request", epoch |-> cleanupEpoch + 1])
  /\ UNCHANGED <<scripting, attached, saved, retryAlarm, worker, cleanup, queuedAgain, asked,
                 use, sessions, candidates, changes, kills, detachFailures>>

\* The next mutateState of the queue runs.
Runs(kind) == writes # <<>> /\ Head(writes).kind = kind /\ writes' = Tail(writes)
Unwritten(kind, t) == \E i \in DOMAIN writes : writes[i].kind = kind /\ writes[i].tab = t

\* persistAutomationCleanupRequest, then queueAutomationCleanup.
Requested(s, e) == [pending |-> TRUE, epoch |-> Larger(s.epoch + 1, e),
                    tabIds |-> s.tabIds \cup candidates]
Persist ==
  /\ Runs("request")
  /\ \/ /\ saved' = Requested(saved, Head(writes).epoch)
        /\ cleanupEpoch' = Larger(cleanupEpoch, saved'.epoch)
        /\ QueueCleanup
        /\ UNCHANGED <<retryAlarm, detachFailures>>
     \/ \* the write fails: scheduleAutomationCleanupRetry
        /\ detachFailures < MaxDetachFailures /\ detachFailures' = detachFailures + 1
        /\ retryAlarm' = TRUE
        /\ UNCHANGED <<saved, cleanupEpoch, cleanup, queuedAgain>>
  /\ UNCHANGED <<worker, cleanupPending, asked, permits, use, sessions, candidates, kills>>
  /\ UNCHANGED chromeVars

\* automationEnabled: refused while a cleanup is pending, else what Chrome answers;
\* the answer is used in a later turn.
Refused == cleanupPending \/ saved.pending
Answer == IF ~Refused /\ scripting THEN "yes" ELSE "no"

\* chrome.permissions.onAdded, queued behind start-up.
OnAdded ==
  /\ worker = "up" /\ permissionEvents # <<>> /\ Head(permissionEvents) = "added"
  /\ asked["added"] = "none"
  /\ permissionEvents' = Tail(permissionEvents)
  /\ IF cleanupPending
     THEN QueueCleanup /\ UNCHANGED asked
     ELSE asked' = [asked EXCEPT !["added"] = "reading"] /\ UNCHANGED <<cleanup, queuedAgain>>
  /\ UNCHANGED <<scripting, attached, saved, retryAlarm, worker, cleanupPending, cleanupEpoch,
                 writes, permits, use, sessions, candidates, changes, kills,
                 detachFailures>>

\* The two chrome.permissions.contains calls read the grant before they answer.
Ask(a) ==
  /\ asked[a] = "reading"
  /\ asked' = [asked EXCEPT ![a] = Answer]
  /\ UNCHANGED <<saved, retryAlarm, worker, cleanupPending, cleanupEpoch, writes,
                 cleanup, queuedAgain, permits, use, sessions, candidates, kills,
                 detachFailures>>
  /\ UNCHANGED chromeVars

\* if (await automationEnabled()) scheduler.restorePermissions(); start-up revokes
\* otherwise, reconciles and, with a cleanup pending, queues it.
Restore(a) ==
  /\ asked[a] \in {"yes", "no"}
  /\ asked' = [asked EXCEPT ![a] = "none"]
  /\ permits' = IF asked[a] = "yes" THEN TRUE ELSE IF a = "start" THEN FALSE ELSE permits
  /\ IF a # "start" THEN UNCHANGED <<worker, cleanup, queuedAgain>>
     ELSE /\ worker' = "up"
          /\ IF cleanupPending THEN QueueCleanup ELSE UNCHANGED <<cleanup, queuedAgain>>
  /\ UNCHANGED <<saved, retryAlarm, cleanupPending, cleanupEpoch, writes, use, sessions,
                 candidates, kills, detachFailures>>
  /\ UNCHANGED chromeVars

--------------------------------
(* clearAutomationRuntime *)

CleanupUnchanged ==
  UNCHANGED <<worker, permits, use, kills, scripting, permissionEvents, changes>>

\* The next run of the queue.
NextRun == cleanup' = (IF queuedAgain THEN [CleanupIdle EXCEPT !.at = "queued"] ELSE CleanupIdle) /\ queuedAgain' = FALSE

\* A run with nothing pending returns; otherwise it awaits start() and the drain.
Begin ==
  /\ cleanup.at = "queued" /\ worker = "up"
  /\ IF cleanupPending THEN cleanup' = [cleanup EXCEPT !.at = "draining"] /\ UNCHANGED queuedAgain
     ELSE NextRun
  /\ CleanupUnchanged
  /\ UNCHANGED <<writes, attached, saved, retryAlarm, cleanupPending, cleanupEpoch, asked, sessions,
                 candidates, detachFailures>>

\* scheduler.drain: every command admitted so far is over.  The epoch and the tabs
\* to detach are written before the first of them is detached.
Drained == \A t \in Page : use[t] = "none"
Mark ==
  /\ cleanup.at = "draining" /\ Drained
  /\ cleanup' = [cleanup EXCEPT !.at = "marking"]
  /\ writes' = Append(writes, [kind |-> "mark"])
  /\ CleanupUnchanged
  /\ UNCHANGED <<attached, saved, retryAlarm, cleanupPending, cleanupEpoch, queuedAgain, asked,
                 sessions, candidates, detachFailures>>
Marked ==
  /\ Runs("mark")
  /\ saved' = [pending |-> TRUE, epoch |-> Larger(saved.epoch, cleanupEpoch),
               tabIds |-> saved.tabIds \cup candidates]
  /\ cleanup' = [cleanup EXCEPT !.at = "scrubbing", !.epoch = saved'.epoch,
                                !.left = sessions \cup saved'.tabIds]
  /\ CleanupUnchanged
  /\ UNCHANGED <<attached, retryAlarm, cleanupPending, cleanupEpoch, queuedAgain, asked,
                 sessions, candidates, detachFailures>>

\* detachRecovered(t), for all tabs at once; the run goes on when all are settled.
Scrub(t) ==
  /\ cleanup.at = "scrubbing" /\ t \in cleanup.left
  /\ \/ /\ attached' = attached \ {t} /\ sessions' = sessions \ {t}
        /\ writes' = Append(writes, [kind |-> "forget", tab |-> t])
        /\ cleanup' = [cleanup EXCEPT !.left = @ \ {t}]
        /\ UNCHANGED detachFailures
     \/ /\ t \in attached /\ detachFailures < MaxDetachFailures
        /\ detachFailures' = detachFailures + 1
        /\ cleanup' = [cleanup EXCEPT !.left = @ \ {t}, !.failed = TRUE]
        /\ UNCHANGED <<attached, sessions, writes>>
  /\ CleanupUnchanged
  /\ UNCHANGED <<saved, retryAlarm, cleanupPending, cleanupEpoch, queuedAgain, asked, candidates>>

\* forgetDebuggerCandidate: the tab leaves storage, then the candidates of this worker.
Forget ==
  /\ Runs("forget")
  /\ saved' = [saved EXCEPT !.tabIds = @ \ {Head(writes).tab}]
  /\ candidates' = candidates \ {Head(writes).tab}
  /\ CleanupUnchanged
  /\ UNCHANGED <<attached, retryAlarm, cleanupPending, cleanupEpoch, cleanup, queuedAgain,
                 asked, sessions, detachFailures>>

\* Every tab is detached or failed, and those detached are forgotten.
Scrubbed == /\ cleanup.at = "scrubbing" /\ cleanup.left = {}
            /\ \A t \in Page : ~Unwritten("forget", t)

\* Mutant: a failed scrub sets neither timer nor alarm.
ScrubFailedQuietly ==
  /\ Scrubbed /\ cleanup.failed
  /\ NextRun
  /\ CleanupUnchanged
  /\ UNCHANGED <<writes, attached, saved, retryAlarm, cleanupPending, cleanupEpoch, asked,
                 sessions, candidates, detachFailures>>

\* scrubForHandoff threw: the retry timer and the alarm are set and the run ends.
ScrubFailed ==
  /\ Scrubbed /\ cleanup.failed
  /\ retryAlarm' = TRUE
  /\ NextRun
  /\ CleanupUnchanged
  /\ UNCHANGED <<writes, attached, saved, cleanupPending, cleanupEpoch, asked, sessions, candidates,
                 detachFailures>>

\* The second mutateState closes the request of this run's epoch, and nothing when a
\* newer one was stored; then the flag follows the epochs.
Closes(s, e) == IF s.epoch # e THEN s ELSE [s EXCEPT !.pending = FALSE, !.tabIds = {}]
Close ==
  /\ Scrubbed /\ ~cleanup.failed
  /\ cleanup' = [cleanup EXCEPT !.at = "writing"]
  /\ writes' = Append(writes, [kind |-> "close"])
  /\ CleanupUnchanged
  /\ UNCHANGED <<attached, saved, retryAlarm, cleanupPending, cleanupEpoch, queuedAgain, asked,
                 sessions, candidates, detachFailures>>
ClosedRequest ==
  /\ Runs("close")
  /\ saved' = Closes(saved, cleanup.epoch)
  /\ cleanupEpoch' = Larger(cleanupEpoch, saved'.epoch)
  /\ cleanupPending' = (saved'.pending \/ cleanupEpoch' > saved'.epoch)
  /\ IF cleanupPending'
     THEN /\ cleanup' = [CleanupIdle EXCEPT !.at = "queued"]
          /\ UNCHANGED <<retryAlarm, asked, queuedAgain>>
     ELSE /\ retryAlarm' = FALSE
          /\ asked' = [asked EXCEPT !["cleanup"] = "reading"]
          /\ cleanup' = [cleanup EXCEPT !.at = "closing"] /\ UNCHANGED queuedAgain
  /\ CleanupUnchanged
  /\ UNCHANGED <<attached, sessions, candidates, detachFailures>>

\* The run is over once it has asked whether the permission is back.
Closed ==
  /\ cleanup.at = "closing" /\ asked["cleanup"] = "none"
  /\ NextRun
  /\ CleanupUnchanged
  /\ UNCHANGED <<writes, attached, saved, retryAlarm, cleanupPending, cleanupEpoch, asked, sessions,
                 candidates, detachFailures>>

\* The timer, or the alarm (which wakes a stopped worker), queues the cleanup again.
Retry ==
  /\ retryAlarm /\ worker = "up"
  /\ retryAlarm' = FALSE
  /\ QueueCleanup
  /\ CleanupUnchanged
  /\ UNCHANGED <<writes, attached, saved, cleanupPending, cleanupEpoch, asked, sessions, candidates,
                 detachFailures>>

--------------------------------
(* Commands that use the debugger: ensureAttached *)

UseUnchanged ==
  UNCHANGED <<retryAlarm, worker, cleanupPending, cleanupEpoch, cleanup, queuedAgain, asked,
              permits, kills, scripting, permissionEvents, changes>>

\* A command on a tab finds automation enabled (dispatch) and the scheduler admits it.
Admit(t) ==
  /\ worker = "up" /\ Answer = "yes" /\ permits /\ use[t] = "none"
  /\ use' = [use EXCEPT ![t] = "asking"]
  /\ UseUnchanged
  /\ UNCHANGED <<writes, attached, saved, sessions, candidates, detachFailures>>

\* Mutant: the attach does not wait until the tab is stored.
AuthorizeAtOnce(t) ==
  /\ use[t] = "asking"
  /\ IF Answer = "yes" /\ t \notin sessions
     THEN /\ candidates' = candidates \cup {t}
          /\ writes' = Append(writes, [kind |-> "record", tab |-> t])
          /\ use' = [use EXCEPT ![t] = "attaching"]
     ELSE /\ use' = [use EXCEPT ![t] = IF Answer = "yes" THEN "using" ELSE "none"]
          /\ UNCHANGED <<candidates, writes>>
  /\ UseUnchanged
  /\ UNCHANGED <<attached, saved, sessions, detachFailures>>

\* authorizeDebuggerUse: a command that is refused ends; one whose tab has a session
\* uses it; otherwise recordDebuggerCandidate stores the tab before the attach.
Authorize(t) ==
  /\ use[t] = "asking"
  /\ IF Answer = "yes" /\ t \notin sessions
     THEN /\ candidates' = candidates \cup {t}
          /\ writes' = Append(writes, [kind |-> "record", tab |-> t])
          /\ use' = [use EXCEPT ![t] = "recording"]
     ELSE /\ use' = [use EXCEPT ![t] = IF Answer = "yes" THEN "using" ELSE "none"]
          /\ UNCHANGED <<candidates, writes>>
  /\ UseUnchanged
  /\ UNCHANGED <<attached, saved, sessions, detachFailures>>

Record ==
  /\ Runs("record")
  /\ saved' = [saved EXCEPT !.tabIds = @ \cup {Head(writes).tab}]
  /\ use' = [use EXCEPT ![Head(writes).tab] = "attaching"]
  /\ UseUnchanged
  /\ UNCHANGED <<attached, sessions, candidates, detachFailures>>

\* chrome.debugger.attach answers, or is refused.
Attach(t) ==
  /\ use[t] = "attaching"
  /\ \/ /\ attached' = attached \cup {t} /\ sessions' = sessions \cup {t}
        /\ use' = [use EXCEPT ![t] = "using"]
     \/ use' = [use EXCEPT ![t] = "none"] /\ UNCHANGED <<attached, sessions>>
  /\ UseUnchanged
  /\ UNCHANGED <<writes, saved, candidates, detachFailures>>

\* The command is over; its session stays for DEBUGGER_IDLE_MS.
EndUse(t) ==
  /\ use[t] = "using"
  /\ use' = [use EXCEPT ![t] = "none"]
  /\ UseUnchanged
  /\ UNCHANGED <<writes, attached, saved, sessions, candidates, detachFailures>>

\* The idle timer detaches a session nothing uses; a detach that fails is tried again.
IdleDetach(t) ==
  /\ t \in sessions /\ use[t] = "none"
  /\ attached' = attached \ {t} /\ sessions' = sessions \ {t}
  /\ writes' = Append(writes, [kind |-> "forget", tab |-> t])
  /\ UNCHANGED use
  /\ UseUnchanged
  /\ UNCHANGED <<saved, candidates, detachFailures>>

--------------------------------
(* The life of the service worker *)

\* Chrome stops the worker: its memory is gone, Chrome's state and storage stay.
Kill ==
  /\ worker # "down" /\ kills < MaxKills
  /\ kills' = kills + 1 /\ worker' = "down"
  /\ cleanupPending' = FALSE /\ cleanupEpoch' = 0 /\ writes' = <<>> /\ cleanup' = CleanupIdle
  /\ queuedAgain' = FALSE /\ asked' = Unasked /\ permits' = TRUE
  /\ use' = [t \in Page |-> "none"] /\ sessions' = {} /\ candidates' = {}
  /\ UNCHANGED <<saved, retryAlarm, detachFailures>> /\ UNCHANGED chromeVars

\* A waiting event, an alarm or anything else wakes it: initializeRuntime takes the
\* stored tabs as candidates and a stored request, or a stored tab, as a pending one.
Recovered == saved.pending \/ saved.tabIds # {}
Wake ==
  /\ worker = "down"
  /\ worker' = "starting"
  /\ candidates' = saved.tabIds
  /\ cleanupPending' = Recovered
  /\ cleanupEpoch' = saved.epoch
  /\ asked' = [asked EXCEPT !["start"] = "reading"]
  /\ UNCHANGED <<saved, retryAlarm, writes, cleanup, queuedAgain, permits, use, sessions,
                 kills, detachFailures>>
  /\ UNCHANGED chromeVars

PermissionNext ==
  \/ Toggle \/ OnRemoved \/ Persist \/ OnAdded \/ Begin \/ Mark \/ Marked \/ ScrubFailed
  \/ Close \/ ClosedRequest \/ Closed \/ Forget \/ Record \/ Retry \/ Kill \/ Wake
  \/ \E a \in Askers : Ask(a) \/ Restore(a)
  \/ \E t \in Page : Scrub(t) \/ Admit(t) \/ Authorize(t) \/ Attach(t)
                     \/ EndUse(t) \/ IdleDetach(t)

\* Chrome delivers events and answers calls, timers and alarms fire.  Nothing is assumed of
\* the user, of commands, which may go on for ever, or of the idle timer.
Written == Persist \/ Marked \/ ClosedRequest \/ Forget \/ Record
PermissionFairness ==
  /\ WF_permissionVars(OnRemoved) /\ WF_permissionVars(OnAdded) /\ WF_permissionVars(Written)
  /\ WF_permissionVars(Begin) /\ WF_permissionVars(Mark) /\ WF_permissionVars(ScrubFailed)
  /\ WF_permissionVars(Close) /\ WF_permissionVars(Closed) /\ WF_permissionVars(Retry)
  /\ WF_permissionVars(Wake)
  /\ \A a \in Askers : WF_permissionVars(Ask(a)) /\ WF_permissionVars(Restore(a))
  /\ \A t \in Page : WF_permissionVars(Scrub(t))

PermissionSpec == PermissionInit /\ [][PermissionNext]_permissionVars /\ PermissionFairness

--------------------------------
(* Properties *)

\* Whatever instant Chrome stops the worker at, storage names every tab that still
\* has the debugger: a later worker can find and detach it (recordDebuggerCandidate
\* before attach, forget after detach, browser.ts:4014).
AttachedIsRecorded == attached \subseteq saved.tabIds

\* The permission is off and every event of it delivered.
Off == ~scripting /\ permissionEvents = <<>>

\* The extension has heard of the last removal and thinks its cleanup is over: then no tab
\* has the debugger, though writes, re-grants and restarts overlapped.
CleanedMeansDetached ==
  Off /\ worker = "up" /\ ~cleanupPending => attached = {}

\* No command uses the debugger for ever: scheduler.drain waits for each without a limit.
CommandsEnd == \A t \in Page : []<>(use[t] = "none")

\* A revocation that lasts leaves no debugger attached, whatever fails or is killed
\* meanwhile, if the commands it finds end.
RevocationDetaches == CommandsEnd /\ <>[](~scripting) => <>[](attached = {})

\* A permission that stays granted is used again: no cleanup leaves the scheduler
\* closed for good, if the commands it waits for end.
GrantReopens == CommandsEnd /\ <>[]scripting => <>[](worker = "up" /\ permits)

\* ADR 0001 (docs/adr/0001-agenttab-runtime.md:160): revocation "fails Standard
\* operations closed until scripting is re-granted".  Stated for a worker at rest:
\* the cleanup is over and no permission question is open.
RevokedStaysClosed ==
  Off /\ worker = "up" /\ ~cleanupPending /\ asked = Unasked => ~permits

\* The debugger is on recorded tabs only and on none once a cleanup is over: a worker that
\* dies in a cleanup leaves what the next one needs (PermissionCleanup, background.ts).
AttachmentsAccounted == PermissionTypeOK /\ AttachedIsRecorded /\ CleanedMeansDetached

================================
