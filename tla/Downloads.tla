---- MODULE Downloads ----
(* Attributing a download to the action that caused it (browser.ts).  Before an     *)
(* action that expects a download is dispatched, a cursor is armed; Chrome's        *)
(* Page.downloadWillBegin names no initiator, so the cursor that is armed when it   *)
(* comes takes it, unless more than one could.  Later a wait asks with the cursor.  *)
(* One tab: its operations run one at a time, Chrome's events at any time.  An      *)
(* action causes at most one download, which begins within the retention of its     *)
(* cursor; the page starts none of its own.  A cursor is named by its action.       *)
EXTENDS Naturals, Sequences, FiniteSets

CONSTANTS PageAction,       \* the actions performed on the tab, each once
          Expecting,        \* those with expect_download
          NoAction,
          Retention,        \* DOWNLOAD_CURSOR_RETENTION_MS
          MaxDownloadTime,  \* bound: the clock
          MaxCuts           \* bound: debugger sessions ended

ASSUME DownloadConstants ==
  /\ Expecting \subseteq PageAction /\ NoAction \notin PageAction
  /\ Retention \in Nat /\ MaxDownloadTime \in Nat /\ MaxCuts \in Nat

VARIABLES cursor,       \* downloadCursors
          entry,        \* session.downloads, by the action that caused the download
          tracked,      \* the runtime has an attached session for the tab
          performing,   \* the action being performed and how far it is
          handed,       \* the actions whose cursor the client was given
          waitFor,      \* the cursor a wait is polling
          page,         \* the download of each action, as Chrome knows it
          cdpAttached,  \* Chrome: the debugger is attached
          reports,      \* debugger events the worker has not handled
          downloadNow,
          cuts,
          started,      \* history: the actions performed, in order
          answers,      \* history: what waits said of each cursor
          due,          \* history: when the cursor of each action was first to expire
          unarmed       \* history: cursors detached before their download began

downloadVars == <<cursor, entry, tracked, performing, handed, waitFor, page, cdpAttached,
                  reports, downloadNow, cuts, started, answers, due, unarmed>>

NoCursor == [state |-> "none", expires |-> 0, download |-> NoAction]
NoEntry == [status |-> "none", since |-> 0, cursor |-> NoAction]
NotPerforming == [act |-> NoAction, at |-> "idle"]

\* What a wait may say, an expired cursor and a plain timeout apart.
Answers == {"completed", "canceled", "lost", "throttled"}

DownloadTypeOK ==
  /\ cursor \in [Expecting -> [state : {"none", "armed", "completed", "canceled",
                                        "ambiguous", "detached"},
                               expires : 0..(MaxDownloadTime + Retention),
                               download : Expecting \cup {NoAction}]]
  /\ entry \in [Expecting -> [status : {"none", "in_progress", "completed", "canceled"},
                              since : 0..MaxDownloadTime,
                              cursor : Expecting \cup {NoAction}]]
  /\ tracked \in BOOLEAN /\ cdpAttached \in BOOLEAN
  /\ performing \in [act : PageAction \cup {NoAction}, at : {"idle", "arming", "ready"}]
  /\ handed \subseteq Expecting /\ waitFor \in Expecting \cup {NoAction}
  /\ page \in [Expecting -> {"none", "due", "in_progress", "completed", "canceled"}]
  /\ downloadNow \in 0..MaxDownloadTime /\ cuts \in 0..MaxCuts
  /\ answers \in [Expecting -> SUBSET Answers]
  /\ unarmed \subseteq Expecting

DownloadInit ==
  /\ cursor = [a \in Expecting |-> NoCursor] /\ entry = [a \in Expecting |-> NoEntry]
  /\ tracked = FALSE /\ cdpAttached = FALSE /\ reports = <<>>
  /\ performing = NotPerforming /\ handed = {} /\ waitFor = NoAction
  /\ page = [a \in Expecting |-> "none"]
  /\ downloadNow = 0 /\ cuts = 0 /\ started = <<>> /\ unarmed = {}
  /\ answers = [a \in Expecting |-> {}] /\ due = [a \in Expecting |-> 0]

--------------------------------
\* The cursors (downloadCursors)

\* pruneDownloadState: cursors past their time, and the downloads of live sessions.
Kept(c) == [a \in Expecting |-> IF c[a].expires < downloadNow THEN NoCursor ELSE c[a]]
KeptEntries == [a \in Expecting |->
                  IF entry[a].since + Retention < downloadNow THEN NoEntry ELSE entry[a]]

\* Cursors in one state move to another and are kept from now on.
Moved(c, from, to) ==
  [a \in Expecting |-> IF c[a].state = from
                       THEN [c[a] EXCEPT !.state = to, !.expires = downloadNow + Retention]
                       ELSE c[a]]

\* invalidatePendingDownloadAttribution: what is still armed becomes a tombstone.
PendingInvalidated(c) == Moved(c, "armed", "ambiguous")

\* invalidateDownloadTracking: the session that would have reported is gone.
TrackingInvalidated(c) == Moved(c, "armed", "detached")

InState(c, state) == {a \in Expecting : c[a].state = state}

--------------------------------
\* Performing an action

\* ensureAttached: an attached session is used as it is, else a new one is made.
Attached ==
  /\ tracked' = TRUE
  /\ cdpAttached' = (cdpAttached \/ ~tracked)
  /\ entry' = IF tracked THEN KeptEntries ELSE [a \in Expecting |-> NoEntry]

\* performAction ends the attribution of what came before, whatever this action is.
StartAction(a) ==
  /\ performing = NotPerforming /\ waitFor = NoAction
  /\ a \in PageAction \ {started[i] : i \in DOMAIN started}
  /\ cursor' = PendingInvalidated(cursor)
  /\ performing' = [act |-> a, at |-> IF a \in Expecting THEN "arming" ELSE "ready"]
  /\ started' = Append(started, a)
  /\ UNCHANGED <<due, entry, tracked, handed, waitFor, page, cdpAttached, reports, downloadNow,
                 cuts, answers, unarmed>>

\* armDownload, once the debugger is attached.
Arm(a) ==
  /\ performing = [act |-> a, at |-> "arming"]
  /\ Attached
  /\ cursor' = [PendingInvalidated(Kept(cursor)) EXCEPT
                  ![a] = [state |-> "armed", expires |-> downloadNow + Retention,
                          download |-> NoAction]]
  /\ performing' = [performing EXCEPT !.at = "ready"]
  /\ due' = [due EXCEPT ![a] = downloadNow + Retention]
  /\ UNCHANGED <<handed, waitFor, page, reports, downloadNow, cuts, started, answers, unarmed>>

\* The action reaches the page, which may answer it with a download.
Dispatch(a) ==
  /\ performing = [act |-> a, at |-> "ready"]
  /\ performing' = NotPerforming
  /\ handed' = handed \cup ({a} \cap Expecting)
  /\ \/ a \in Expecting /\ page' = [page EXCEPT ![a] = "due"]
     \/ page' = page
  /\ UNCHANGED <<due, cursor, entry, tracked, waitFor, cdpAttached, reports, downloadNow, cuts,
                 started, answers, unarmed>>

\* It fails before it reaches the page; its cursor is never handed out.
ActionFails(a) ==
  /\ performing = [act |-> a, at |-> "ready"]
  /\ performing' = NotPerforming
  /\ UNCHANGED <<due, cursor, entry, tracked, handed, waitFor, page, cdpAttached, reports,
                 downloadNow, cuts, started, answers, unarmed>>

--------------------------------
\* Chrome

DownloadReported(what, a) ==
  IF cdpAttached THEN Append(reports, [what |-> what, of |-> a]) ELSE reports

DownloadBegins(a) ==
  /\ page[a] = "due" /\ page' = [page EXCEPT ![a] = "in_progress"]
  /\ reports' = DownloadReported("begins", a)
  /\ UNCHANGED <<due, cursor, entry, tracked, performing, handed, waitFor, cdpAttached,
                 downloadNow, cuts, started, answers, unarmed>>

DownloadEnds(a, state) ==
  /\ page[a] = "in_progress" /\ page' = [page EXCEPT ![a] = state]
  /\ reports' = DownloadReported(state, a)
  /\ UNCHANGED <<due, cursor, entry, tracked, performing, handed, waitFor, cdpAttached,
                 downloadNow, cuts, started, answers, unarmed>>

\* The idle timer or the user ends the session; a wait holds it against the timer.
DebuggerDetaches ==
  /\ cdpAttached /\ cuts < MaxCuts /\ cuts' = cuts + 1
  /\ cdpAttached' = FALSE
  /\ reports' = Append(reports, [what |-> "detached", of |-> NoAction])
  /\ UNCHANGED <<due, cursor, entry, tracked, performing, handed, waitFor, page, downloadNow,
                 started, answers, unarmed>>

\* An action is dispatched and its download begins while its cursor lives, and an event is handled before the clock moves.
DownloadTick ==
  /\ downloadNow < MaxDownloadTime /\ reports = <<>>
  /\ \A a \in Expecting : page[a] = "due" \/ performing = [act |-> a, at |-> "ready"] =>
       downloadNow < due[a]
  /\ downloadNow' = downloadNow + 1
  /\ UNCHANGED <<due, cursor, entry, tracked, performing, handed, waitFor, page, cdpAttached,
                 reports, cuts, started, answers, unarmed>>

--------------------------------
\* What the worker makes of the events

\* Mutant: a tombstone does not stop the armed cursor from taking the download.
HearBeginsPastTombstones(a) ==
  LET c == Kept(cursor)
      armed == InState(c, "armed")
      clear == Cardinality(armed) = 1
  IN /\ cursor' = c
     /\ entry' = [KeptEntries EXCEPT
                    ![a] = [status |-> "in_progress", since |-> downloadNow,
                            cursor |-> IF clear THEN CHOOSE b \in armed : TRUE ELSE NoAction]]
     /\ UNCHANGED <<tracked, unarmed>>

\* trackDownloadWillBegin: one armed cursor and no tombstone, or nobody.
HearBegins(a) ==
  LET c == Kept(cursor)
      armed == InState(c, "armed")
      tombstones == InState(c, "ambiguous")
      clear == tombstones = {} /\ Cardinality(armed) = 1
  IN /\ cursor' = IF clear \/ armed = {} THEN c
                  ELSE [b \in Expecting |-> IF b \in armed
                                            THEN [c[b] EXCEPT !.state = "ambiguous"] ELSE c[b]]
     /\ entry' = [KeptEntries EXCEPT
                    ![a] = [status |-> "in_progress", since |-> downloadNow,
                            cursor |-> IF clear THEN CHOOSE b \in armed : TRUE ELSE NoAction]]
     /\ UNCHANGED <<tracked, unarmed>>

\* trackDownloadProgress: the cursor that took the download gets its end.
HearEnds(a, state) ==
  LET b == entry[a].cursor
  IN /\ IF entry[a].status = "none" THEN UNCHANGED <<cursor, entry>>
        ELSE /\ entry' = [entry EXCEPT ![a].status = state]
             /\ cursor' = IF b = NoAction \/ cursor[b].state = "none" THEN cursor
                          ELSE [cursor EXCEPT
                                  ![b] = [state |-> state, expires |-> downloadNow + Retention,
                                          download |-> IF state = "completed" THEN a
                                                       ELSE cursor[b].download]]
     /\ UNCHANGED <<tracked, unarmed>>

\* invalidateDetachedSession
HearDetached ==
  /\ tracked' = FALSE
  /\ entry' = [a \in Expecting |-> NoEntry]
  /\ cursor' = TrackingInvalidated(cursor)
  /\ unarmed' = unarmed \cup {a \in Expecting : page[a] \in {"none", "due"}
                                                /\ cursor[a].state # "none"}

Hear ==
  /\ reports # <<>> /\ reports' = Tail(reports)
  /\ LET event == Head(reports)
     IN CASE ~tracked -> UNCHANGED <<cursor, entry, tracked, unarmed>>
          [] tracked /\ event.what = "begins" -> HearBegins(event.of)
          [] tracked /\ event.what \in {"completed", "canceled"} -> HearEnds(event.of, event.what)
          [] tracked /\ event.what = "detached" -> HearDetached
  /\ UNCHANGED <<due, performing, handed, waitFor, page, cdpAttached, downloadNow, cuts, started,
                 answers>>

--------------------------------
\* browser_wait with a cursor

\* downloadCursorMatch: what a poll finds.
Match(a) ==
  CASE Kept(cursor)[a].state = "none" -> "unknown_cursor"
    [] Kept(cursor)[a].state = "armed" -> "wait_on"
    [] Kept(cursor)[a].state \in {"ambiguous", "detached"} -> "lost"
    [] OTHER -> Kept(cursor)[a].state

Answer(a, answer) ==
  /\ waitFor' = NoAction
  /\ answers' = [answers EXCEPT ![a] = @ \cup ({answer} \cap Answers)]

\* A wait whose cursor is settled needs no session; another acquires one.
StartDownloadWait(a) ==
  /\ performing = NotPerforming /\ waitFor = NoAction /\ a \in handed
  /\ cursor' = Kept(cursor)
  /\ \/ /\ Match(a) # "wait_on" /\ Answer(a, Match(a))
        /\ entry' = KeptEntries /\ UNCHANGED <<tracked, cdpAttached>>
     \/ /\ Match(a) = "wait_on" /\ waitFor' = a /\ Attached
        /\ UNCHANGED answers
  /\ UNCHANGED <<due, performing, handed, page, reports, downloadNow, cuts, started, unarmed>>

\* A poll; a session lost meanwhile is acquired again.
Poll(a) ==
  /\ waitFor = a /\ Attached
  /\ cursor' = Kept(cursor)
  /\ Match(a) # "wait_on" /\ Answer(a, Match(a))
  /\ UNCHANGED <<due, performing, handed, page, reports, downloadNow, cuts, started, unarmed>>

\* Past its deadline: an armed cursor and any download on the session are taken for
\* Chrome's multiple download throttle.
WaitTimesOut(a) ==
  /\ waitFor = a
  /\ Answer(a, IF /\ cursor[a].state = "armed" /\ tracked
                  /\ \E b \in Expecting : entry[b].status # "none"
               THEN "throttled" ELSE "timed_out")
  /\ UNCHANGED <<due, cursor, entry, tracked, performing, handed, page, cdpAttached, reports,
                 downloadNow, cuts, started, unarmed>>

DownloadNext ==
  \/ \E a \in PageAction : StartAction(a) \/ Dispatch(a) \/ ActionFails(a)
  \/ \E a \in Expecting : \/ Arm(a) \/ DownloadBegins(a) \/ StartDownloadWait(a) \/ Poll(a)
                          \/ WaitTimesOut(a)
                          \/ \E state \in {"completed", "canceled"} : DownloadEnds(a, state)
  \/ DebuggerDetaches \/ DownloadTick \/ Hear

DownloadSpec == DownloadInit /\ [][DownloadNext]_downloadVars

--------------------------------
(* Properties *)

\* A wait that reports an end reports that of the download its own action caused: late
\* beginnings and later actions lose the attribution, they do not shift it.  Only for
\* cursors whose session lived until the download began: HearDetached leaves no tombstone.
AttributedToItsAction ==
  unarmed = {} => \A a \in Expecting :
    /\ cursor[a].state = "completed" => cursor[a].download = a
    /\ answers[a] \cap {"completed", "canceled"} \subseteq {page[a]}

Overtaken(a) == \E i, j \in DOMAIN started : i < j /\ started[i] = a
Before(a, b) == \E i, j \in DOMAIN started : i < j /\ started[i] = a /\ started[j] = b

\* The only action of a session never loses the attribution of its download: it is lost
\* to another action, before or after it, or to the end of the session.
OnlyOverlapsLose ==
  \A a \in Expecting : "lost" \in answers[a] =>
    cuts > 0 \/ Overtaken(a) \/ \E b \in Expecting : Before(b, a)

\* "Chrome blocked the download as an automatic multiple download; it never began, so no
\* lifecycle events exist" is said of downloads that did not begin (wait, browser.ts:2301).
ThrottledNeverBegan ==
  \A a \in Expecting : "throttled" \in answers[a] => page[a] \in {"none", "due"}

\* A download is told of the action that caused it or of none, and it is told of none only
\* where actions overlap or the session ends (DownloadTracker).
AttributedOrWithheld == DownloadTypeOK /\ AttributedToItsAction /\ OnlyOverlapsLose

================================
