---- MODULE PageSettling ----
(* The page a command leaves behind (background.ts, revisions.ts): browser_open and  *)
(* a browser_act that ends in a navigation answer with the page revision only when   *)
(* the tab's events have been processed, so that the revision is not stale on first  *)
(* use.  One tab, one browser_open, one browser_act; Chrome's page and    *)
(* the delivery of its events are the environment.                                   *)
EXTENDS Naturals, Sequences, SequencesExt, FiniteSets

CONSTANT MaxStarts        \* bound: navigations Chrome starts

ASSUME SettlingConstants == MaxStarts \in Nat

VARIABLES page,          \* Chrome: [present, load, waits, dialog, starts]
          chromeEvents,  \* tab events Chrome has dispatched and not delivered
          eventQueue,    \* StartupOperationQueue: tab events and barriers, in order
          handling,      \* the event whose handler is past its revision bump
          owned,         \* the ledger names the task as the tab's owner
          revision,      \* the tab's revisions row: its current revision, 0 is none
          processed,     \* processedTabLoads has the tab
          opening,       \* browser_open: [at, mode, released, passed, late, revision]
          acting         \* browser_act and its NavigationWatch

pageVars == <<page, chromeEvents, eventQueue, handling, owned, revision, processed, opening,
              acting>>

Events == {"loading", "complete", "removed"}
Barriers == {"open", "act"}
Quiescent == chromeEvents = <<>> /\ eventQueue = <<>> /\ handling = "none"

PageTypeOK ==
  /\ page \in [present : BOOLEAN, load : {"none", "started", "committed"}, waits : BOOLEAN,
               dialog : BOOLEAN, starts : 0..MaxStarts]
  /\ chromeEvents \in Seq(Events) /\ eventQueue \in Seq(Events \cup Barriers)
  /\ handling \in Events \cup {"none"}
  /\ owned \in BOOLEAN /\ processed \in BOOLEAN
  /\ revision \in 0..(MaxStarts + 1)
  /\ opening.at \in {"idle", "granting", "settling", "barrier", "describing", "answered",
                     "not_started", "unknown"}
  /\ acting.at \in {"idle", "begun", "draining", "looking", "waiting", "draining_again",
                    "observing", "answered", "unchanged"}

PageInit ==
  /\ \E present \in BOOLEAN :
       /\ page = [present |-> present, load |-> "none", waits |-> FALSE,
                  dialog |-> FALSE, starts |-> 0]
       /\ opening = [at |-> "idle", mode |-> IF present THEN "adopt" ELSE "create",
                     released |-> FALSE, passed |-> FALSE, late |-> FALSE, revision |-> 0]
  /\ chromeEvents = <<>> /\ eventQueue = <<>> /\ handling = "none"
  /\ owned = FALSE /\ processed = FALSE /\ revision = 0
  /\ acting = [at |-> "idle", started |-> FALSE, loaded |-> FALSE, passed |-> FALSE,
               late |-> FALSE, quiet |-> FALSE, starts |-> 0, waited |-> FALSE, revision |-> 0]

--------------------------------
(* Chrome *)

Starting == [page EXCEPT !.load = "started", !.starts = @ + 1]

PageStarts ==
  /\ page.present /\ page.starts < MaxStarts
  /\ page' = Starting
  /\ UNCHANGED <<chromeEvents, eventQueue, handling, owned, revision, processed, opening, acting>>

\* Chrome marks the tab loading when a navigation starts; the `loading` event comes
\* with its commit, and one `complete` event when the tab stops loading.
PageCommits ==
  /\ page.present /\ page.load = "started" /\ ~page.dialog
  /\ page' = [page EXCEPT !.load = "committed", !.waits = TRUE]
  /\ chromeEvents' = Append(chromeEvents, "loading")
  /\ UNCHANGED <<eventQueue, handling, owned, revision, processed, opening, acting>>

\* The load ends, or (before its commit) is abandoned.
PageStops ==
  /\ page.present /\ page.load # "none" /\ ~page.dialog
  /\ page' = [page EXCEPT !.load = "none", !.waits = FALSE]
  /\ chromeEvents' = IF page.waits THEN Append(chromeEvents, "complete") ELSE chromeEvents
  /\ UNCHANGED <<eventQueue, handling, owned, revision, processed, opening, acting>>

PageAsks ==
  /\ page.present /\ page.load = "started"
  /\ page' = [page EXCEPT !.dialog = ~@]
  /\ UNCHANGED <<chromeEvents, eventQueue, handling, owned, revision, processed, opening, acting>>

UserCloses ==
  /\ page.present
  /\ page' = [page EXCEPT !.present = FALSE, !.load = "none", !.dialog = FALSE]
  /\ chromeEvents' = Append(chromeEvents, "removed")
  /\ UNCHANGED <<eventQueue, handling, owned, revision, processed, opening, acting>>

--------------------------------
(* The tab events *)

\* The listeners: an event waits its turn behind the ones before it; a removal lets
\* go of everyone who waits for the tab at once.
OnRemovedReleases(event) ==
  IF event = "removed"
  THEN opening' = [opening EXCEPT !.released = TRUE] /\ acting' = [acting EXCEPT !.loaded = TRUE]
  ELSE UNCHANGED <<opening, acting>>

Deliver ==
  /\ chromeEvents # <<>>
  /\ chromeEvents' = Tail(chromeEvents)
  /\ eventQueue' = Append(eventQueue, Head(chromeEvents))
  /\ OnRemovedReleases(Head(chromeEvents))
  /\ UNCHANGED <<page, handling, owned, revision, processed>>

\* markNavigation: a revision above every earlier one.
MarkRevision == revision' = revision + 1

\* The handler up to its finally: a `loading` event of an owned tab marks the
\* navigation, a removal revokes the tab and forgets its load.
HandleEvent ==
  /\ handling = "none" /\ eventQueue # <<>> /\ Head(eventQueue) \in Events
  /\ handling' = Head(eventQueue) /\ eventQueue' = Tail(eventQueue)
  /\ IF Head(eventQueue) = "loading" /\ owned THEN MarkRevision ELSE UNCHANGED revision
  /\ IF Head(eventQueue) = "removed"
     THEN processed' = FALSE /\ owned' = FALSE
     ELSE UNCHANGED <<processed, owned>>
  /\ UNCHANGED <<page, chromeEvents, opening, acting>>

\* Its finally, which ends every wait for the tab's load.
FinishEvent ==
  /\ handling # "none" /\ handling' = "none"
  /\ processed' = (processed \/ handling = "complete")
  /\ opening' = [opening EXCEPT !.released = @ \/ handling = "complete"]
  /\ acting' = [acting EXCEPT !.started = @ \/ handling = "loading",
                              !.loaded = @ \/ handling = "complete"]
  /\ UNCHANGED <<page, chromeEvents, eventQueue, owned, revision>>

\* runAfterStart(resolve): reached once everything queued before it is over.
ReachBarrier ==
  /\ handling = "none" /\ eventQueue # <<>> /\ Head(eventQueue) \in Barriers
  /\ eventQueue' = Tail(eventQueue)
  /\ IF Head(eventQueue) = "open"
     THEN opening' = [opening EXCEPT !.passed = TRUE] /\ UNCHANGED acting
     ELSE acting' = [acting EXCEPT !.passed = TRUE] /\ UNCHANGED opening
  /\ UNCHANGED <<page, chromeEvents, handling, owned, revision, processed>>

--------------------------------
(* browser_open *)

OpenCreates ==
  /\ opening.at = "idle"
  /\ IF opening.mode = "adopt" THEN page.present ELSE page.starts < MaxStarts
  /\ opening' = [opening EXCEPT !.at = "granting"]
  /\ page' = IF opening.mode = "create" THEN [Starting EXCEPT !.present = TRUE] ELSE page
  /\ UNCHANGED <<chromeEvents, eventQueue, handling, owned, revision, processed, acting>>

\* The end of ownership.open: the tab is granted and described.
OpenGrants ==
  /\ opening.at = "granting"
  /\ IF page.present
     THEN /\ owned' = TRUE /\ revision' = IF revision = 0 THEN 1 ELSE revision
          /\ opening' = [opening EXCEPT !.at = "settling", !.released = FALSE]
     ELSE opening' = [opening EXCEPT !.at = "unknown"] /\ UNCHANGED <<owned, revision>>
  /\ UNCHANGED <<page, chromeEvents, eventQueue, handling, processed, acting>>

UnsettledByStatus == ~processed /\ page.present /\ page.load # "none"

\* A created tab waits for its `complete` event to be processed, an adopted one only
\* while Chrome says that it is loading.
Unsettled == ~processed /\ (opening.mode = "create" \/ (page.present /\ page.load # "none"))

OpenSettles ==
  /\ opening.at = "settling" /\ (Unsettled => opening.released \/ opening.late)
  /\ opening' = [opening EXCEPT !.at = "barrier", !.passed = opening.late]
  /\ eventQueue' = Append(eventQueue, "open")
  /\ UNCHANGED <<page, chromeEvents, handling, owned, revision, processed, acting>>

OpenDeadline ==
  /\ opening.at \in {"settling", "barrier"} /\ ~opening.late
  /\ opening' = [opening EXCEPT !.late = TRUE, !.passed = (opening.at = "barrier")]
  /\ UNCHANGED <<page, chromeEvents, eventQueue, handling, owned, revision, processed, acting>>

\* describeTab and the owner check: ownership_revoked is one of PRE_DISPATCH_ERRORS,
\* so its outcome is not_started.
OpenAnswers ==
  /\ opening.at = "barrier" /\ opening.passed
  /\ opening' = IF page.present /\ owned
                THEN [opening EXCEPT !.at = "answered", !.revision = revision]
                ELSE [opening EXCEPT !.at = "not_started"]
  /\ UNCHANGED <<page, chromeEvents, eventQueue, handling, owned, revision, processed, acting>>

--------------------------------
(* browser_act *)

\* The watch is registered before the batch runs, and the batch runs only on the
\* revision its caller expects: here the one the tab has.
ActBegins ==
  /\ acting.at = "idle" /\ opening.at = "answered" /\ owned /\ page.present
  /\ acting' = [acting EXCEPT !.at = "begun", !.started = FALSE, !.loaded = FALSE,
                              !.quiet = Quiescent /\ page.load = "none", !.starts = page.starts]
  /\ UNCHANGED <<page, chromeEvents, eventQueue, handling, owned, revision, processed, opening>>

\* Chrome accepts the navigation (of this document or to another one); the first of
\* settleNavigation's barriers is queued.
ActNavigates ==
  /\ acting.at = "begun" /\ page.present
  /\ \/ page.starts < MaxStarts /\ page' = Starting
     \/ UNCHANGED page
  /\ acting' = [acting EXCEPT !.at = "draining", !.passed = FALSE]
  /\ eventQueue' = Append(eventQueue, "act")
  /\ UNCHANGED <<chromeEvents, handling, owned, revision, processed, opening>>

\* navigationStarted is false: the batch failed before its final action, or the tab is gone.
ActStops ==
  /\ acting.at = "begun"
  /\ acting' = [acting EXCEPT !.at = "unchanged"]
  /\ UNCHANGED <<page, chromeEvents, eventQueue, handling, owned, revision, processed, opening>>

UnderWay == (page.present /\ page.load # "none") \/ acting.started

ActLooks ==
  /\ acting.at = "draining" /\ (acting.passed \/ acting.late)
  /\ acting' = [acting EXCEPT !.at = IF UnderWay THEN "waiting" ELSE "observing",
                              !.waited = UnderWay]
  /\ UNCHANGED <<page, chromeEvents, eventQueue, handling, owned, revision, processed, opening>>

ActWaited ==
  /\ acting.at = "waiting" /\ (acting.loaded \/ acting.late \/ page.dialog)
  /\ acting' = [acting EXCEPT !.at = "draining_again", !.passed = FALSE,
                              !.waited = acting.loaded]
  /\ eventQueue' = Append(eventQueue, "act")
  /\ UNCHANGED <<page, chromeEvents, handling, owned, revision, processed, opening>>

ActDrained ==
  /\ acting.at = "draining_again" /\ (acting.passed \/ acting.late)
  /\ acting' = [acting EXCEPT !.at = "observing"]
  /\ UNCHANGED <<page, chromeEvents, eventQueue, handling, owned, revision, processed, opening>>

ActDeadline ==
  /\ acting.at \in {"draining", "waiting", "draining_again"} /\ ~acting.late
  /\ acting' = [acting EXCEPT !.late = TRUE]
  /\ UNCHANGED <<page, chromeEvents, eventQueue, handling, owned, revision, processed, opening>>

\* observeNavigatedPage: the current revision of a tab that is still the task's.
ActObserves ==
  /\ acting.at = "observing"
  /\ acting' = IF owned THEN [acting EXCEPT !.at = "answered", !.revision = revision]
               ELSE [acting EXCEPT !.at = "unchanged"]
  /\ UNCHANGED <<page, chromeEvents, eventQueue, handling, owned, revision, processed, opening>>

--------------------------------
PageEnvironment == PageStarts \/ PageCommits \/ PageStops \/ PageAsks \/ UserCloses
EventStep == Deliver \/ HandleEvent \/ FinishEvent \/ ReachBarrier
CommandStep == \/ OpenGrants \/ OpenSettles \/ OpenAnswers
               \/ ActLooks \/ ActWaited \/ ActDrained \/ ActObserves
PageCalls == OpenCreates \/ OpenDeadline \/ ActBegins \/ ActNavigates \/ ActStops \/ ActDeadline

PageNext == PageEnvironment \/ EventStep \/ CommandStep \/ PageCalls

\* Chrome delivers its events in the end, the event queue and the commands' own
\* awaits go on.  Nothing is assumed of the page, the user or the deadline.
PageFairness == WF_pageVars(EventStep) /\ WF_pageVars(OpenGrants \/ OpenSettles \/ OpenAnswers)
                /\ WF_pageVars(ActLooks \/ ActWaited \/ ActDrained \/ ActObserves)

PageSpec == PageInit /\ [][PageNext]_pageVars /\ PageFairness

--------------------------------
(* Properties *)

\* background.ts:770-781: the revision browser_open answers for a tab it created is
\* still the tab's revision for as long as the page navigates nowhere else, whatever
\* was delivered late, unless the deadline passed.
OpenedRevisionFresh ==
  opening.at = "answered" /\ opening.mode = "create" /\ ~opening.late /\ page.starts = 1
    => revision = opening.revision

\* background.ts:850-861: a batch begun on a quiet page whose final navigation was
\* waited for answers with the revision of the page that was reached.
NavigatedRevisionFresh ==
  acting.at = "answered" /\ acting.quiet /\ acting.waited /\ ~acting.late
    /\ page.starts = acting.starts + 1
    => revision = acting.revision

\* background.ts:921: once its events are processed a closed tab is not in
\* processedTabLoads, where a tab with a reused id would find it.
ClosedTabForgotten ==
  Quiescent /\ ~page.present /\ opening.at # "idle" => ~processed

\* background.ts:917: nothing waits for the load of a tab that was closed, even if
\* the deadline is never reached.
ClosedTabReleases ==
  []<>(~page.present =>
         /\ opening.at \notin {"settling", "barrier"}
         /\ acting.at \notin {"draining", "waiting", "draining_again", "observing"})

\* The comment above settleNavigation: it "Waits for the navigation a batch's final
\* action started, so the result can describe the page it reached".
NavigationWaitsForItsLoad ==
  acting.at = "answered" /\ ~acting.late /\ page.starts = acting.starts + 1 /\ page.present
    /\ ~page.dialog /\ page.load = "none"
    => revision = acting.revision

\* docs/mcp.md:132: "not_started: The operation did not begin."
NotStartedMeansNothingOpened ==
  opening.at = "not_started" => opening.mode # "create"

\* The revision an operation returns is the revision of the page it leaves, for opened and
\* for navigated tabs, and a closed tab keeps no state (settleOpenedTab, settleNavigation).
RevisionsSettled ==
  PageTypeOK /\ OpenedRevisionFresh /\ NavigatedRevisionFresh /\ ClosedTabForgotten

================================
