---- MODULE PageWaits ----
(* browser_wait on one tab (browser.ts): load and URL waits follow Chrome's top-frame *)
(* navigation events and poll the tab as a fallback; text and selector waits read the *)
(* page and believe the read only if the document did not change around it, or, where  *)
(* Chrome refuses the debugger, if the revision did not (the scripting route).  Chrome *)
(* tells the worker of events and answers its calls through one channel, in order; a   *)
(* page may never answer.                                                             *)
(* A page shows what the wait asks for, its address or its content, or does not; a    *)
(* failed navigation shows an error page in a document of its own.                    *)
EXTENDS Naturals, Sequences

CONSTANTS MaxMoves,  \* bound: navigations, address changes and changes of the page
          MaxPolls   \* bound: polls before the deadline

ASSUME WaitConstants == MaxMoves \in Nat /\ MaxPolls \in Nat

WaitKinds == {"load", "url", "text", "selector", "gone"}
FromEvents == {"load", "url"}     \* TAB_ONLY_WAIT_CONDITIONS

VARIABLES tab,          \* Chrome: the document shown, and whether a navigation is on
          moves,        \* Chrome: how often the page moved
          channel,      \* what Chrome has told the worker and it has not handled
          wait,         \* the wait: its kind, how far it is, the reads of this poll, and
                        \* the revision it began at if it is on the scripting route, else 0
          observation,  \* its NavigationObservation
          tracked,      \* RevisionTracker: the tab's revision and document, 0 for none
          marking,      \* navigations heard of and not marked yet
          polls,
          result,       \* what it returned
          failed        \* history: the error pages shown since the wait began

waitVars == <<tab, moves, channel, wait, observation, tracked, marking, polls, result,
              failed>>

NoObservation == [on |-> FALSE, loaded |-> FALSE, error |-> FALSE, url |-> FALSE]
NoResult == [said |-> "none", saw |-> {}]
Documents == 1..(MaxMoves + 1)

WaitTypeOK ==
  /\ tab \in [document : Documents, pending : BOOLEAN, loading : BOOLEAN, error : BOOLEAN,
              wanted : BOOLEAN]
  /\ moves \in 0..MaxMoves /\ polls \in 0..MaxPolls
  /\ wait.kind \in WaitKinds
  /\ wait.at \in {"idle", "poll", "asked", "matched", "pause", "over"}
  /\ observation \in [on : BOOLEAN, loaded : BOOLEAN, error : BOOLEAN, url : BOOLEAN]
  /\ tracked \in [revision : 1..(2 * MaxMoves + 2), document : {0} \cup Documents]
  /\ result.said \in {"none", "matched", "navigation_failed", "wait_timeout", "failed"}
  /\ result.saw \subseteq Documents
  /\ failed \subseteq Documents /\ marking \in 0..MaxMoves

WaitInit ==
  /\ \E wanted \in BOOLEAN : tab = [document |-> 1, pending |-> FALSE, loading |-> FALSE,
                                    error |-> FALSE, wanted |-> wanted]
  /\ moves = 0 /\ channel = <<>> /\ polls = 0 /\ result = NoResult /\ failed = {} /\ marking = 0
  /\ \E kind \in WaitKinds : wait = [kind |-> kind, at |-> "idle", reads |-> <<>>, since |-> 0]
  /\ observation = NoObservation
  /\ tracked = [revision |-> 1, document |-> 1]

--------------------------------
\* Chrome

Tell(event) == channel' = Append(channel, event)
Event(what) == [what |-> what, wanted |-> FALSE]

\* The poll has a call under way that nothing has answered.
Unanswered == wait.at = "asked" /\ \A i \in DOMAIN channel : channel[i].what # "answer"

\* The browser answers for a tab; a page that a dialog holds or a script keeps busy may
\* answer late, or never (the comment in ensureAttached, browser.ts:4026).
Answers ==
  /\ Unanswered
  /\ Tell([what |-> "answer", tab |-> tab])
  /\ UNCHANGED <<tab, moves, wait, observation, tracked, marking, polls, result, failed>>

\* A navigation starts; one still on the way to its document is superseded.
NavigationStarts ==
  /\ moves < MaxMoves /\ moves' = moves + 1
  /\ tab' = [tab EXCEPT !.pending = TRUE, !.loading = TRUE]
  /\ channel' = channel \o (IF tab.pending THEN <<Event("superseded")>> ELSE <<>>)
                        \o <<Event("started")>>
  /\ UNCHANGED <<wait, observation, tracked, marking, polls, result, failed>>

NavigationCommits ==
  /\ tab.pending
  /\ \E wanted \in BOOLEAN :
       /\ tab' = [document |-> tab.document + 1, pending |-> FALSE, loading |-> TRUE,
                  error |-> FALSE, wanted |-> wanted]
       /\ Tell([Event("committed") EXCEPT !.wanted = wanted])
  /\ UNCHANGED <<moves, wait, observation, tracked, marking, polls, result, failed>>

LoadCompletes ==
  /\ tab.loading /\ ~tab.pending
  /\ tab' = [tab EXCEPT !.loading = FALSE]
  /\ Tell([Event("completed") EXCEPT !.wanted = tab.wanted])
  /\ UNCHANGED <<moves, wait, observation, tracked, marking, polls, result, failed>>

\* The error page is complete and keeps the address of the page that failed.
NavigationFails ==
  /\ tab.pending
  /\ \E wanted \in BOOLEAN :
       /\ wanted => wait.kind = "url"
       /\ tab' = [document |-> tab.document + 1, pending |-> FALSE, loading |-> FALSE,
                  error |-> TRUE, wanted |-> wanted]
  /\ Tell(Event("error"))
  /\ failed' = IF wait.at = "idle" THEN failed ELSE failed \cup {tab.document + 1}
  /\ UNCHANGED <<moves, wait, observation, tracked, marking, polls, result>>

\* Scripts change the page and, by pushState, its address.
PageChanges ==
  /\ ~tab.error /\ moves < MaxMoves /\ moves' = moves + 1
  /\ wait.kind # "load" /\ tab' = [tab EXCEPT !.wanted = ~@]
  /\ IF wait.kind = "url" THEN Tell([Event("same_document") EXCEPT !.wanted = ~tab.wanted])
     ELSE UNCHANGED channel
  /\ UNCHANGED <<wait, observation, tracked, marking, polls, result, failed>>

--------------------------------
\* The revision tracker

\* observeDocument: another document than the one known is another revision.
Observed(document) ==
  [revision |-> IF tracked.document \in {0, document} THEN tracked.revision
                ELSE tracked.revision + 1,
   document |-> document]

\* markNavigation, some time after tabs.onUpdated told of the navigation.
MarkNavigation ==
  /\ marking > 0 /\ marking' = marking - 1
  /\ tracked' = [revision |-> tracked.revision + 1, document |-> 0]
  /\ UNCHANGED <<tab, moves, channel, wait, observation, polls, result, failed>>

--------------------------------
\* The wait

StartWaiting ==
  /\ wait.at = "idle" /\ wait' = [wait EXCEPT !.at = "poll"]
  /\ observation' = [NoObservation EXCEPT !.on = wait.kind \in FromEvents]
  /\ UNCHANGED <<tab, moves, channel, tracked, marking, polls, result, failed>>

Ends(said, saw) ==
  /\ wait' = [wait EXCEPT !.at = "over", !.reads = <<>>]
  /\ observation' = NoObservation
  /\ result' = [said |-> said, saw |-> saw]

\* What the events alone show.
SeenByEvents ==
  IF wait.kind = "load" THEN observation.loaded ELSE wait.kind = "url" /\ observation.url

\* The top of the loop: a failure ends it, an event may settle it, else Chrome is asked.
BeginPoll ==
  /\ wait.at = "poll"
  /\ \/ /\ observation.error /\ Ends("navigation_failed", {})
     \/ /\ ~observation.error /\ SeenByEvents
        /\ wait' = [wait EXCEPT !.at = "matched", !.reads = <<>>]
        /\ UNCHANGED <<observation, result>>
     \/ /\ ~observation.error /\ ~SeenByEvents
        /\ \E since \in {0, tracked.revision} :
             /\ wait.kind \in FromEvents => since = 0
             /\ wait' = [wait EXCEPT !.at = "asked", !.reads = <<>>, !.since = since]
        /\ UNCHANGED <<observation, result>>
  /\ UNCHANGED <<tab, moves, channel, tracked, marking, polls, failed>>

\* What a poll reads, in order: a load or URL wait the tab; on the scripting route the
\* page; otherwise the document, the page, and the document again, a found selector twice.
Reads == IF wait.kind \in FromEvents \/ wait.since # 0 THEN 1
         ELSE IF wait.kind = "selector" THEN 5 ELSE 3
OfDocument(i) == wait.kind \notin FromEvents /\ wait.since = 0 /\ i % 2 = 1

\* The content a read of the page must show.
Wanted(read) == IF wait.kind = "gone" THEN ~read.tab.wanted ELSE read.tab.wanted

\* Mutant: the document of the last read is not compared with that of the first.
UnchangedAnyway(reads, read) == TRUE

\* waitFrameUnchanged: the document and its revision are those of the first read.
Unchanged(reads, read) ==
  /\ read.tab.document = Head(reads).tab.document
  /\ Observed(read.tab.document).revision = Head(reads).revision

\* The answer to a read.  A text wait compares documents only if the text was there; a
\* selector wait ends its poll as soon as something differs.
HearAnswer(read) ==
  LET reads == Append(wait.reads,
                      [tab |-> read.tab,
                       revision |-> Observed(read.tab.document).revision])
      i == Len(reads)
      good == CASE wait.kind = "load" -> ~read.tab.loading
                [] wait.kind = "url" -> read.tab.wanted
                [] OfDocument(i) -> (i > 1 => Unchanged(wait.reads, read))
                [] OTHER -> Wanted(read) /\ wait.since \in {0, tracked.revision}
  IN /\ tracked' = IF OfDocument(i) THEN Observed(read.tab.document) ELSE tracked
     /\ \/ ~good /\ wait' = [wait EXCEPT !.at = "pause"]
        \/ good /\ i < Reads /\ wait' = [wait EXCEPT !.reads = reads]
        \/ good /\ i = Reads /\ wait' = [wait EXCEPT !.at = "matched", !.reads = reads]
     /\ channel' = Tail(channel)
     /\ UNCHANGED <<observation, marking>>

\* recordTopFrameNavigation: a commit takes back an earlier failure.
HearNavigation(event) ==
  /\ observation' =
       IF ~observation.on THEN observation
       ELSE CASE event.what = "error" -> [observation EXCEPT !.loaded = FALSE, !.error = TRUE]
              [] event.what = "committed" -> [observation EXCEPT !.loaded = FALSE, !.error = FALSE,
                                                                 !.url = event.wanted]
              [] event.what = "completed" -> [observation EXCEPT !.loaded = TRUE, !.url = event.wanted]
              [] event.what = "same_document" -> [observation EXCEPT !.url = event.wanted]
              [] event.what \in {"superseded", "started"} -> observation
  /\ marking' = IF event.what = "started" THEN marking + 1 ELSE marking
  /\ channel' = Tail(channel)
  /\ UNCHANGED <<wait, tracked>>

HearChannel ==
  /\ channel # <<>>
  /\ IF Head(channel).what = "answer" THEN HearAnswer(Head(channel))
     ELSE HearNavigation(Head(channel))
  /\ UNCHANGED <<tab, moves, polls, result, failed>>

\* A call of the poll fails, its task lost the tab or the page a dialog: what was thrown
\* ends the wait.
PollThrows ==
  /\ wait.at \in {"poll", "matched"} \/ Unanswered
  /\ Ends("failed", {})
  /\ UNCHANGED <<tab, moves, channel, tracked, marking, polls, failed>>

\* revalidate comes between; a failure heard meanwhile beats the match.
ReturnMatch ==
  /\ wait.at = "matched"
  /\ \/ /\ ~observation.error /\ Ends("matched", {wait.reads[i].tab.document : i \in DOMAIN wait.reads})
     \/ /\ observation.error /\ wait' = [wait EXCEPT !.at = "pause"]
        /\ UNCHANGED <<observation, result>>
  /\ UNCHANGED <<tab, moves, channel, tracked, marking, polls, failed>>

\* After 100 ms, or woken by an event: the loop goes on until the deadline.
Resume ==
  /\ wait.at = "pause"
  /\ \/ /\ observation.error /\ Ends("navigation_failed", {}) /\ UNCHANGED polls
     \/ /\ ~observation.error /\ polls < MaxPolls /\ polls' = polls + 1
        /\ wait' = [wait EXCEPT !.at = "poll", !.reads = <<>>]
        /\ UNCHANGED <<observation, result>>
     \/ ~observation.error /\ Ends("wait_timeout", {}) /\ UNCHANGED polls
  /\ UNCHANGED <<tab, moves, channel, tracked, marking, failed>>

WaitNext ==
  \/ NavigationStarts \/ NavigationCommits \/ LoadCompletes \/ NavigationFails \/ PageChanges
  \/ MarkNavigation \/ StartWaiting \/ BeginPoll \/ Answers \/ HearChannel \/ PollThrows
  \/ ReturnMatch \/ Resume

\* The browser answers tabs.get and delivers what it tells, timers fire; nothing is assumed
\* of what a page answers.
WaitFairness == /\ WF_waitVars(wait.kind \in FromEvents /\ Answers)
                /\ WF_waitVars(BeginPoll) /\ WF_waitVars(HearChannel)
                /\ WF_waitVars(ReturnMatch) /\ WF_waitVars(Resume)

WaitSpec == WaitInit /\ [][WaitNext]_waitVars /\ WaitFairness

--------------------------------
(* Properties *)

\* A text or selector wait that matches read the page, and the document before and after,
\* in one document at one revision, however the tab moved meanwhile.
MatchedInOneDocument ==
  wait.at = "matched" /\ wait.kind \notin FromEvents =>
    \A i, j \in DOMAIN wait.reads :
      /\ wait.reads[i].tab.document = wait.reads[j].tab.document
      /\ ~OfDocument(i) => Wanted(wait.reads[i])

\* A load or URL wait never returns a match read from the error page the tab shows, if
\* the navigation failed while it waited (the comment in wait, browser.ts:2263).
NeverMatchesFailure ==
  [][result.said = "none" /\ result'.said = "matched" /\ wait.kind \in FromEvents =>
       tab.document \notin result'.saw \cap failed]_waitVars

\* Every wait returns, unless a page never answers one of its polls: the deadline is looked
\* at between polls only.  One that asks the browser alone always does.
WaitsEnd ==
  []<>(wait.at \in {"idle", "over"}) \/ <>[](Unanswered /\ wait.kind \notin FromEvents)

\* A wait answers "matched" for what one document showed at two reads, and never for the
\* error page of a failed load (BrowserRuntime.wait).
MatchesAreReal == [](WaitTypeOK /\ MatchedInOneDocument) /\ NeverMatchesFailure

================================
