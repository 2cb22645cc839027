---- MODULE DebuggerSessions ----
(* The debugger session of one tab (browser.ts): operations attach lazily and share  *)
(* a session, hold it busy while they use it, and an idle timer detaches it.  Chrome *)
(* answers attach and detach calls and reports detaches and dialogs through one      *)
(* channel, in order; the user may cancel the debugger at any time.                  *)
EXTENDS Naturals, Sequences, SequencesExt, FiniteSets

CONSTANTS User,          \* operations on the tab, one life each
          MaxSessions,   \* bound: DebugSession objects created
          MaxTroubles    \* bound: cancels by the user and calls Chrome fails

VARIABLES session,       \* DebugSession objects, in creation order
          current,       \* sessions.get(tabId), 0 is none
          candidate,     \* debuggerCandidates has the tab
          expected,      \* expectedDetaches of the tab
          tabRefused,       \* debuggerRefusals has the tab
          user,          \* the operations
          chromeAttached, \* Chrome: the session the tab is attached for, 0 is none
          chromeDialog,
          calls,         \* chrome.debugger calls Chrome has not handled
          inbox,         \* what Chrome has told the worker and it has not handled
          troubles,
          overtaken,     \* history: Chrome handled the detach of an earlier session late
          miscounted     \* history: a write failed before the report of the detach came

debuggerVars == <<session, current, candidate, expected, tabRefused, user, chromeAttached,
                  chromeDialog, calls, inbox, troubles, overtaken, miscounted>>

Ids == DOMAIN session
Fresh == [attached |-> FALSE, attaching |-> FALSE, detaching |-> FALSE, idleTimer |-> FALSE,
          dialog |-> FALSE, frame |-> "none"]

Kinds == {"send", "bare", "live", "detach"}
Places == {"idle", "ensuring", "attach_called", "initializing", "cleaning", "joined_attach",
           "joined_detach", "checked", "holding", "detaching", "detach_joined",
           "detach_waits", "looking", "recovering", "done", "failed", "cut_off"}

DebuggerTypeOK ==
  /\ session \in Seq([attached : BOOLEAN, attaching : BOOLEAN, detaching : BOOLEAN,
                      idleTimer : BOOLEAN, dialog : BOOLEAN,
                      frame : {"none", "pending", "initializing", "ready"}])
  /\ Len(session) <= MaxSessions /\ current \in 0..Len(session)
  /\ candidate \in BOOLEAN /\ tabRefused \in BOOLEAN
  /\ expected \in 0..(Cardinality(User) + MaxSessions)
  /\ user \in [User -> [kind : Kinds, at : Places, session : 0..MaxSessions, retried : BOOLEAN]]
  /\ chromeAttached \in 0..MaxSessions /\ chromeDialog \in BOOLEAN
  /\ troubles \in 0..MaxTroubles

DebuggerInit ==
  /\ session = <<>> /\ current = 0 /\ candidate = FALSE /\ expected = 0 /\ tabRefused = FALSE
  /\ \E kind \in [User -> Kinds] :
       user = [u \in User |-> [kind |-> kind[u], at |-> "idle", session |-> 0, retried |-> FALSE]]
  /\ chromeAttached = 0 /\ chromeDialog = FALSE
  /\ calls = <<>> /\ inbox = <<>> /\ troubles = 0 /\ overtaken = FALSE
  /\ miscounted = FALSE

--------------------------------

Holders(id) == {u \in User : user[u].at = "holding" /\ user[u].session = id}

Goto(u, at) == user' = [user EXCEPT ![u].at = at]
Finish(u) == [user EXCEPT ![u].at = "done"]

\* Everyone in U goes on at the given place: an awaited promise has settled.
Resumed(users, U, at) == [v \in User |-> IF v \in U THEN [users[v] EXCEPT !.at = at] ELSE users[v]]
Joined(id, at) == {u \in User : user[u].session = id /\ user[u].at = at}

\* detachTrackedSession up to its chrome.debugger.detach call.
BeginsDetach(id) ==
  /\ session' = [session EXCEPT ![id].detaching = TRUE, ![id].idleTimer = FALSE]
  /\ expected' = expected + 1
  /\ calls' = Append(calls, [call |-> "detach", session |-> id])

\* consumeExpectedDetach
Consumed(n) == IF n = 0 THEN 0 ELSE n - 1

\* invalidateDetachedSession
Invalidate(id) ==
  /\ session' = [session EXCEPT ![id].idleTimer = FALSE]
  /\ current' = IF current = id THEN 0 ELSE current

--------------------------------
(* ensureAttached *)

\* A refused tab fails at once; a session that is being detached is waited for; a
\* session that is attaching is joined; otherwise a session is created and attached.
Ensure(u) ==
  /\ user[u].at = "ensuring"
  /\ CASE tabRefused -> Goto(u, "failed") /\ UNCHANGED <<session, current, candidate, calls>>
       [] ~tabRefused /\ current # 0 /\ session[current].detaching ->
            /\ user' = [user EXCEPT ![u].at = "joined_detach", ![u].session = current]
            /\ UNCHANGED <<session, current, candidate, calls>>
       [] ~tabRefused /\ current # 0 /\ session[current].attaching ->
            /\ user' = [user EXCEPT ![u].at = "joined_attach", ![u].session = current]
            /\ UNCHANGED <<session, current, candidate, calls>>
       [] ~tabRefused /\ current # 0 /\ session[current].attached /\ ~session[current].detaching ->
            Goto(u, "checked") /\ UNCHANGED <<session, current, candidate, calls>>
       [] OTHER ->
            LET id == IF current = 0 THEN Len(session) + 1 ELSE current
            IN /\ id <= MaxSessions
               /\ session' = IF current = 0 THEN Append(session, [Fresh EXCEPT !.attaching = TRUE])
                             ELSE [session EXCEPT ![id].attaching = TRUE]
               /\ current' = id /\ candidate' = TRUE
               /\ calls' = Append(calls, [call |-> "attach", session |-> id])
               /\ user' = [user EXCEPT ![u].at = "attach_called", ![u].session = id]
  /\ UNCHANGED <<expected, tabRefused, chromeAttached, chromeDialog, inbox, troubles, overtaken,
                 miscounted>>

\* Initialization ends: ready, or interrupted by a dialog it saw open.  attachPromise
\* is cleared only on the session that is still the tab's.
InitializationEnds(u) ==
  LET id == user[u].session
  IN /\ user[u].at = "initializing" /\ (chromeAttached # 0 \/ session[id].dialog)
     /\ session' = [session EXCEPT ![id].attaching = FALSE]
     /\ user' = Resumed(user, {u} \cup Joined(id, "joined_attach"), "checked")
     /\ UNCHANGED <<current, candidate, expected, tabRefused, chromeAttached, chromeDialog, calls,
                    inbox, troubles, overtaken, miscounted>>

\* It fails (the user cancelled the debugger) or times out: the session is detached.
InitializationFails(u) ==
  LET id == user[u].session
  IN /\ user[u].at = "initializing" /\ inbox = <<>>
     /\ chromeAttached # 0 => troubles < MaxTroubles
     /\ troubles' = IF chromeAttached # 0 THEN troubles + 1 ELSE troubles
     /\ BeginsDetach(id)
     /\ Goto(u, "cleaning")
     /\ UNCHANGED <<current, candidate, tabRefused, chromeAttached, chromeDialog, inbox,
                    overtaken, miscounted>>

--------------------------------
(* Leases *)

\* acquireDebuggerBusyLease after its await of ensureAttached; a call that only
\* ensures the attachment (stageDialog, armDownload) stops here.
Acquire(u) ==
  /\ user[u].at = "checked"
  /\ IF user[u].kind = "bare" THEN user' = Finish(u) /\ UNCHANGED session
     ELSE IF current = 0 \/ ~session[current].attached
     THEN Goto(u, "failed") /\ UNCHANGED session
     ELSE /\ user' = [user EXCEPT ![u].at = "holding", ![u].session = current]
          /\ session' = [session EXCEPT ![current].idleTimer = FALSE]
  /\ UNCHANGED <<current, candidate, expected, tabRefused, chromeAttached, chromeDialog, calls,
                 inbox, troubles, overtaken, miscounted>>

\* sendIfAttached: a lease on a session that is attached and stays so, or nothing.
AcquireLive(u) ==
  /\ user[u].at = "idle" /\ user[u].kind = "live"
  /\ IF current # 0 /\ session[current].attached /\ ~session[current].attaching
          /\ ~session[current].detaching
     THEN /\ user' = [user EXCEPT ![u].at = "holding", ![u].session = current, ![u].retried = TRUE]
          /\ session' = [session EXCEPT ![current].idleTimer = FALSE]
     ELSE user' = Finish(u) /\ UNCHANGED session
  /\ UNCHANGED <<current, candidate, expected, tabRefused, chromeAttached, chromeDialog, calls,
                 inbox, troubles, overtaken, miscounted>>

ReleaseNever(u) == UNCHANGED session

\* releaseDebuggerBusyLease: the last lease of the tab's session starts the idle timer.
Release(u) ==
  LET id == user[u].session
  IN session' = IF id = current /\ Holders(id) = {u}
                THEN [session EXCEPT ![id].idleTimer = TRUE] ELSE session

\* A command ends: it ran, or a dialog interrupted it.
CommandEnds(u) ==
  /\ user[u].at = "holding" /\ (chromeAttached # 0 \/ session[user[u].session].dialog)
  /\ user' = Finish(u)
  /\ Release(u)
  /\ UNCHANGED <<current, candidate, expected, tabRefused, chromeAttached, chromeDialog, calls,
                 inbox, troubles, overtaken, miscounted>>

\* The debugger is not attached: send() forgets the session and tries once more.
CommandFindsDetached(u) ==
  LET id == user[u].session
  IN /\ user[u].at = "holding" /\ chromeAttached = 0 /\ ~session[id].dialog /\ inbox = <<>>
     /\ IF user[u].retried
        THEN Goto(u, "cut_off") /\ Release(u) /\ UNCHANGED current
        ELSE /\ user' = [user EXCEPT ![u].at = "ensuring", ![u].retried = TRUE]
             /\ Invalidate(id)
     /\ UNCHANGED <<candidate, expected, tabRefused, chromeAttached, chromeDialog, calls, inbox,
                    troubles, overtaken, miscounted>>

\* The idle timer's callback looks at its own session and detaches the tab's.
IdleFires(id) ==
  /\ session[id].idleTimer
  /\ IF Holders(id) = {} /\ ~session[id].dialog /\ current # 0
          /\ session[current].attached /\ ~session[current].detaching
     THEN BeginsDetach(current)
     ELSE session' = [session EXCEPT ![id].idleTimer = FALSE] /\ UNCHANGED <<expected, calls>>
  /\ UNCHANGED <<current, candidate, tabRefused, user, chromeAttached, chromeDialog, inbox,
                 troubles, overtaken, miscounted>>

--------------------------------
(* detach *)

\* detach(): without a session a recovered candidate is looked for; a detach under
\* way is joined; an attach under way is awaited; a session never attached is dropped.
Detach(u) ==
  /\ user[u].at = "detaching"
  /\ CASE current = 0 ->
            /\ Goto(u, IF candidate THEN "looking" ELSE "done")
            /\ UNCHANGED <<session, current, expected, calls>>
       [] current # 0 /\ session[current].detaching ->
            /\ user' = [user EXCEPT ![u].at = "detach_joined", ![u].session = current]
            /\ session' = [session EXCEPT ![current].idleTimer = FALSE]
            /\ UNCHANGED <<current, expected, calls>>
       [] current # 0 /\ ~session[current].detaching /\ session[current].attaching ->
            /\ user' = [user EXCEPT ![u].at = "detach_waits", ![u].session = current]
            /\ session' = [session EXCEPT ![current].idleTimer = FALSE]
            /\ UNCHANGED <<current, expected, calls>>
       [] OTHER ->
            IF session[current].attached
            THEN /\ BeginsDetach(current) /\ UNCHANGED current
                 /\ user' = [user EXCEPT ![u].at = "detach_joined", ![u].session = current]
            ELSE current' = 0 /\ user' = Finish(u) /\ UNCHANGED <<session, expected, calls>>
  /\ UNCHANGED <<candidate, tabRefused, chromeAttached, chromeDialog, inbox, troubles, overtaken,
                 miscounted>>

\* The attach it waited for is over: look again, unless the session was replaced.
DetachResumes(u) ==
  /\ user[u].at = "detach_waits" /\ ~session[user[u].session].attaching
  /\ Goto(u, IF current = user[u].session THEN "detaching" ELSE "done")
  /\ UNCHANGED <<session, current, candidate, expected, tabRefused, chromeAttached, chromeDialog,
                 calls, inbox, troubles, overtaken, miscounted>>

\* detachRecovered: the tab is detached if Chrome says that it is attached.
Recover(u) ==
  /\ user[u].at = "looking"
  /\ IF chromeAttached # 0
     THEN /\ Goto(u, "recovering") /\ expected' = expected + 1
          /\ calls' = Append(calls, [call |-> "detach", session |-> 0]) /\ UNCHANGED candidate
     ELSE candidate' = FALSE /\ user' = Finish(u) /\ UNCHANGED <<expected, calls>>
  /\ UNCHANGED <<session, current, tabRefused, chromeAttached, chromeDialog, inbox, troubles,
                 overtaken, miscounted>>

--------------------------------
(* Chrome *)

Tells(kind, id) == inbox' = Append(inbox, [kind |-> kind, session |-> id])

ChromeAttaches(call) ==
  /\ call.call = "attach" /\ calls' = Tail(calls)
  /\ \/ /\ chromeAttached = 0 /\ chromeAttached' = call.session /\ Tells("attached", call.session)
        /\ UNCHANGED troubles
     \/ /\ chromeAttached # 0 \/ troubles < MaxTroubles
        /\ troubles' = IF chromeAttached # 0 THEN troubles ELSE troubles + 1
        /\ Tells("refused", call.session) /\ UNCHANGED chromeAttached
  /\ UNCHANGED <<session, current, candidate, expected, tabRefused, user, chromeDialog,
                 overtaken, miscounted>>

\* A detach that ends an attachment is answered and reported to onDetach, in either order.
ChromeDetaches(call) ==
  LET answer(kind) == [kind |-> kind, session |-> call.session]
      report == [kind |-> "onDetach", session |-> 0]
  IN /\ call.call = "detach" /\ calls' = Tail(calls)
     /\ \/ /\ chromeAttached # 0 /\ chromeAttached' = 0 /\ UNCHANGED troubles
           /\ \E two \in {<<answer("detached"), report>>, <<report, answer("detached")>>} :
                inbox' = inbox \o two
        \/ /\ chromeAttached = 0 /\ Tells("not_attached", call.session)
           /\ UNCHANGED <<chromeAttached, troubles>>
        \/ /\ chromeAttached # 0 /\ troubles < MaxTroubles /\ troubles' = troubles + 1
           /\ Tells("failed", call.session) /\ UNCHANGED chromeAttached
     /\ overtaken' = (overtaken \/ current \notin {0, call.session})
     /\ UNCHANGED <<session, current, candidate, expected, tabRefused, user, chromeDialog,
                    miscounted>>

UserCancels ==
  /\ chromeAttached # 0 /\ troubles < MaxTroubles
  /\ chromeAttached' = 0 /\ troubles' = troubles + 1
  /\ Tells("onDetach", 0)
  /\ UNCHANGED <<session, current, candidate, expected, tabRefused, user, chromeDialog, calls,
                 overtaken, miscounted>>

\* A page dialog opens or closes; only a session attached at the time hears of it.
DialogChanges ==
  /\ IF chromeDialog THEN UNCHANGED troubles
     ELSE troubles < MaxTroubles /\ troubles' = troubles + 1
  /\ chromeDialog' = ~chromeDialog
  /\ IF chromeAttached # 0 THEN Tells(IF chromeDialog THEN "closed" ELSE "opening", 0)
     ELSE UNCHANGED inbox
  /\ UNCHANGED <<session, current, candidate, expected, tabRefused, user, chromeAttached, calls,
                 overtaken, miscounted>>

FrameAttaches ==
  /\ chromeAttached # 0 /\ current # 0 /\ session[current].frame = "none" /\ session[current].attached
  /\ session' = [session EXCEPT ![current].frame =
                   IF session[current].dialog THEN "pending" ELSE "initializing"]
  /\ UNCHANGED <<current, candidate, expected, tabRefused, user, chromeAttached, chromeDialog, calls,
                 inbox, troubles, overtaken, miscounted>>

\* initializeChildFrameSession: its commands end, unless a dialog interrupted them,
\* and then the frame waits for it to close.
FrameInitialized(id) ==
  /\ session[id].frame = "initializing"
  /\ session' = [session EXCEPT ![id].frame = IF session[id].dialog THEN "pending" ELSE "ready"]
  /\ UNCHANGED <<current, candidate, expected, tabRefused, user, chromeAttached, chromeDialog, calls,
                 inbox, troubles, overtaken, miscounted>>

--------------------------------
(* What Chrome says *)

Message == Head(inbox)
Hear(kind) == inbox # <<>> /\ Message.kind = kind /\ inbox' = Tail(inbox)

HearAttached ==
  /\ Hear("attached")
  /\ session' = [session EXCEPT ![Message.session].attached = TRUE]
  /\ user' = Resumed(user, Joined(Message.session, "attach_called"), "initializing")
  /\ UNCHANGED <<current, candidate, expected, tabRefused, chromeAttached, chromeDialog, calls,
                 troubles, overtaken, miscounted>>

HearRefused ==
  /\ Hear("refused")
  /\ tabRefused' = TRUE
  /\ session' = [session EXCEPT ![Message.session].attaching = FALSE]
  /\ user' = Resumed(user, Joined(Message.session, "attach_called")
                            \cup Joined(Message.session, "joined_attach"), "failed")
  /\ UNCHANGED <<current, candidate, expected, chromeAttached, chromeDialog, calls, troubles,
                 overtaken, miscounted>>

\* detachTrackedSession after its call: the session leaves the map, its candidate is
\* forgotten, and those who waited go on; an attach whose cleanup this was has failed.
Settles(id) ==
  Resumed(Resumed(Resumed(Resumed(user, Joined(id, "detach_joined"), "done"),
                       Joined(id, "joined_detach"), "ensuring"),
                Joined(id, "joined_attach"), "failed"),
         Joined(id, "cleaning"), "failed")

HearDetached ==
  LET id == Message.session
  IN /\ Hear("detached") \/ Hear("not_attached")
     /\ expected' = IF Message.kind = "not_attached" THEN Consumed(expected) ELSE expected
     /\ candidate' = FALSE
     /\ IF id = 0
        THEN /\ user' = Resumed(user, {u \in User : user[u].at = "recovering"},
                               IF Message.kind = "detached" THEN "done" ELSE "failed")
             /\ UNCHANGED <<session, current, tabRefused>>
        ELSE /\ current' = IF current = id THEN 0 ELSE current
             /\ session' = [session EXCEPT ![id].detaching = FALSE, ![id].attaching = FALSE]
             /\ user' = Settles(id)
             /\ tabRefused' = (tabRefused \/ Joined(id, "cleaning") # {})
     /\ UNCHANGED <<chromeAttached, chromeDialog, calls, troubles, overtaken, miscounted>>

Rejects(id) ==
  Resumed(user, {u \in User : user[u].session = id /\ user[u].at \in
                   {"detach_joined", "joined_detach", "joined_attach", "cleaning"}}, "failed")

\* It failed: the session stays and is tried again when the idle timer fires.
HearDetachFailed ==
  LET id == Message.session
  IN /\ Hear("failed")
     /\ expected' = Consumed(expected)
     /\ IF id = 0
        THEN user' = Resumed(user, {u \in User : user[u].at = "recovering"}, "failed")
             /\ UNCHANGED session
        ELSE /\ session' = [session EXCEPT ![id].detaching = (@ /\ current # id),
                              ![id].attaching = FALSE, ![id].idleTimer = (@ \/ Holders(id) = {})]
             /\ user' = Rejects(id)
     /\ UNCHANGED <<current, candidate, tabRefused, chromeAttached, chromeDialog, calls,
                    troubles, overtaken, miscounted>>

\* Chrome detached, but storage fails to forget the tab: what waits for the detach fails, and
\* the count is taken down for a report that has come or is still to come.
HearDetachUnwritten ==
  LET id == Message.session
  IN /\ Hear("detached") \/ (Hear("not_attached") /\ id # 0)
     /\ troubles < MaxTroubles /\ troubles' = troubles + 1
     /\ expected' = Consumed(IF Message.kind = "not_attached" THEN Consumed(expected) ELSE expected)
     /\ IF id = 0
        THEN /\ user' = Resumed(user, {u \in User : user[u].at = "recovering"}, "failed")
             /\ UNCHANGED <<session, current>>
        ELSE /\ current' = IF current = id THEN 0 ELSE current
             /\ session' = [session EXCEPT ![id].attaching = FALSE,
                                          ![id].idleTimer = (@ \/ Holders(id) = {})]
             /\ user' = Rejects(id)
     /\ miscounted' = (miscounted \/ \E i \in DOMAIN inbox' : inbox'[i].kind = "onDetach")
     /\ UNCHANGED <<candidate, tabRefused, chromeAttached, chromeDialog, calls, overtaken>>

HearOnDetachAlways ==
  /\ Hear("onDetach")
  /\ UNCHANGED expected
  /\ IF current # 0 THEN Invalidate(current) ELSE UNCHANGED <<session, current>>
  /\ UNCHANGED <<candidate, tabRefused, user, chromeAttached, chromeDialog, calls, troubles,
                 overtaken, miscounted>>

\* onDetach: one of its own detaches was expected, any other ends the session.
HearOnDetach ==
  /\ Hear("onDetach")
  /\ expected' = Consumed(expected)
  /\ IF expected = 0 /\ current # 0 THEN Invalidate(current) ELSE UNCHANGED <<session, current>>
  /\ UNCHANGED <<candidate, tabRefused, user, chromeAttached, chromeDialog, calls, troubles,
                 overtaken, miscounted>>

HearOpening ==
  /\ Hear("opening")
  /\ session' = IF current = 0 THEN session ELSE [session EXCEPT ![current].dialog = TRUE]
  /\ UNCHANGED <<current, candidate, expected, tabRefused, user, chromeAttached, chromeDialog, calls,
                 troubles, overtaken, miscounted>>

\* #forgetDialog: the idle timer starts again and the frames that waited are initialized.
HearClosed ==
  /\ Hear("closed")
  /\ session' = IF current = 0 THEN session
                ELSE [session EXCEPT ![current].dialog = FALSE,
                        ![current].idleTimer = @ \/ (session[current].attached /\ Holders(current) = {}),
                        ![current].frame = IF @ = "pending" /\ session[current].attached
                                           THEN "initializing" ELSE @]
  /\ UNCHANGED <<current, candidate, expected, tabRefused, user, chromeAttached, chromeDialog, calls,
                 troubles, overtaken, miscounted>>

--------------------------------

Begins(u) ==
  /\ user[u].at = "idle" /\ user[u].kind # "live"
  /\ Goto(u, IF user[u].kind = "detach" THEN "detaching" ELSE "ensuring")
  /\ UNCHANGED <<session, current, candidate, expected, tabRefused, chromeAttached, chromeDialog,
                 calls, inbox, troubles, overtaken, miscounted>>

\* A navigation, or 30 seconds, end a refusal.
RefusalEnds ==
  /\ tabRefused /\ tabRefused' = FALSE
  /\ UNCHANGED <<session, current, candidate, expected, user, chromeAttached, chromeDialog, calls,
                 inbox, troubles, overtaken, miscounted>>

Hears == \/ HearAttached \/ HearRefused \/ HearDetached \/ HearDetachUnwritten \/ HearDetachFailed
         \/ HearOnDetach \/ HearOpening \/ HearClosed
Chrome == calls # <<>> /\ (ChromeAttaches(Head(calls)) \/ ChromeDetaches(Head(calls)))
Steps(u) == \/ Ensure(u) \/ InitializationEnds(u) \/ InitializationFails(u) \/ Acquire(u)
            \/ CommandEnds(u) \/ CommandFindsDetached(u) \/ Detach(u) \/ DetachResumes(u)
            \/ Recover(u)
Timers == \E id \in Ids : IdleFires(id)

DebuggerNext ==
  \/ Hears \/ Chrome \/ Timers \/ UserCancels \/ DialogChanges \/ FrameAttaches \/ RefusalEnds
  \/ \E id \in Ids : FrameInitialized(id)
  \/ \E u \in User : Begins(u) \/ AcquireLive(u) \/ Steps(u)

\* Chrome answers, its messages are handled, timers fire, and operations go on; no
\* operation has to begin.
DebuggerFairness ==
  /\ WF_debuggerVars(Hears) /\ WF_debuggerVars(Chrome) /\ WF_debuggerVars(Timers)
  /\ \A u \in User : WF_debuggerVars(Steps(u))

DebuggerSpec == DebuggerInit /\ [][DebuggerNext]_debuggerVars /\ DebuggerFairness

--------------------------------
(* Properties *)

\* Nothing is under way between the worker and Chrome.
Settled == calls = <<>> /\ inbox = <<>>

\* A session the worker takes for attached and not detaching is attached in Chrome,
\* or news of it are on their way: the count of expected detaches (browser.ts:970)
\* never eats the report of a detach the extension did not make.  Only the cleanup of
\* an initialization the user overtaken can take the attachment of the next session, and a
\* failing write can let the report of a detach end it.
SessionMirrorsChrome ==
  Settled /\ current # 0 /\ session[current].attached /\ ~session[current].detaching
    => chromeAttached # 0 \/ overtaken \/ miscounted

\* The extension never asks Chrome to attach a tab it is attached to, which Chrome
\* refuses and refuseDebugger takes for another client's debugger, unless a failing write
\* made it forget the session.
NeverRefusesItself ==
  calls # <<>> /\ Head(calls).call = "attach" => chromeAttached = 0 \/ miscounted

\* CHANGELOG.md:78: waits "hold the debugger session busy for the entire wait".  The
\* timer of a session that ended looks at that session's leases and detaches the next.
IdleSparesHolders ==
  [][Timers => (current # 0 /\ Holders(current) # {} => calls' = calls)]_debuggerVars

\* A command ends without having reached the page for want of a debugger only if
\* Chrome, the user or a release of the tab ended its session: send() recovers from a
\* detach by the idle timer, whenever it comes, and gives up only at a second one.
CutOffByOthers ==
  (\E u \in User : user[u].at = "cut_off" /\ user[u].kind = "send" /\ user[u].session = 1)
    => troubles > 0 \/ \E u \in User : user[u].kind = "detach"

\* A child frame that waited for a dialog is initialized once it closed.
FramesNotForgotten ==
  current # 0 /\ session[current].attached /\ session[current].frame = "pending"
    => session[current].dialog

Unused == \A u \in User : user[u].at \in {"idle", "done", "failed", "cut_off"}
LetsGo == Unused /\ ~chromeDialog => chromeAttached = 0

\* docs/security.md:66: attachments are "reused briefly, and detached after idle work":
\* a tab whose operations are over is let go, where all of them held leases and no failing
\* write made the worker take the report of its own detach for the end of the next session.
LeasesLetGo ==
  []<>((\A u \in User : user[u].kind # "bare") /\ ~miscounted => LetsGo)

\* The same of every operation.  stageDialog only ensures the attachment and starts
\* no idle timer.
DetachedAfterIdle == []<>LetsGo

\* What the sessions say of attachments, frames and lost leases is what Chrome has, and no
\* attach is refused by the worker's own attachment (DebuggerSession).
SessionsAgree ==
  DebuggerTypeOK /\ SessionMirrorsChrome /\ NeverRefusesItself /\ CutOffByOthers /\ FramesNotForgotten

================================
