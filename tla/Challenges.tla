---- MODULE Challenges ----
(* Challenge episodes of one task on one tab: the scans that results, waits, acts and   *)
(* handoff resolutions make (browser.ts), the store they all update (challenge-store.ts) *)
(* and the attention notice bound to an episode (handoff.ts).  A scan reads the page,    *)
(* then the debugger, then the revision, then updates the store; the tab's lane runs one *)
(* operation at a time, and a handoff resolution scans beside it.                        *)
EXTENDS ChallengeRules

CONSTANTS Pages,         \* what the tab may show
          MaxDocuments,  \* bound: documents the tab shows
          MaxScanTime,   \* bound: ticks of the clock
          MaxWaitPolls,  \* bound: polls of a wait before its deadline
          MaxOperations  \* bound: operations of the lane and of the handoff

Scanners == {"lane", "resolve"}

VARIABLES shown,      \* Chrome: the tab's document and what is on the page
          debugging,  \* BrowserSession: attached, and the document whose response it heard
          pageAt,     \* RevisionTracker: the tab's revision, navigations not marked yet
          scan,       \* per scanner: a scan under way
          episodes,   \* chrome.storage.session: the task's episodes
          scanned,    \* challengeScanRevisions, and (history) the document scanned
          lane,       \* the operation in the tab's lane
          notice,     \* the task's challenge_cleared notice
          clock, operations, ids,
          everEnded,  \* history: episodes that reached a terminal state
          taskOver    \* the task was finished or closed and its records deleted

challengeVars == <<shown, debugging, pageAt, scan, episodes, scanned, lane, notice, clock,
                   operations, ids, everEnded, taskOver>>

NoFacts == [document |-> 0, origin |-> "", status |-> 0, signals |-> {}, visible |-> {},
            filled |-> {}, probe |-> "scripting"]
NoDetection == [primary |-> 0, observable |-> FALSE, solved |-> {}]
NoScan == [at |-> "idle", facts |-> NoFacts, detected |-> NoDetection, revision |-> 0, time |-> 0, read |-> <<>>,
           event |-> <<>>]
NoLane == [kind |-> "none", id |-> 0, polls |-> 0, read |-> <<>>]
NoScanned == [revision |-> 0, document |-> 0]
NoNotice == [status |-> "none", id |-> 0]

ScanSteps == {"idle", "page", "debugger", "queue", "write", "failed", "done"}
ChallengeTypeOK ==
  /\ shown.document \in 1..MaxDocuments
  /\ [shown.page EXCEPT !.filled = {}] \in Pages
  /\ debugging \in [on : BOOLEAN, heard : 0..MaxDocuments]
  /\ pageAt \in [revision : 1..MaxDocuments, marking : 0..MaxDocuments]
  /\ \A p \in Scanners : scan[p].at \in ScanSteps
  /\ Len(episodes) <= EpisodeCap
  /\ \A i \in DOMAIN episodes : episodes[i].state \in {"active", "cleared", "superseded"}
  /\ scanned \in [revision : 0..MaxDocuments, document : 0..MaxDocuments]
  /\ lane.kind \in {"none", "result", "wait", "act"}
  /\ notice.status \in {"none", "recorded", "open", "resolved"}
  /\ clock \in 0..MaxScanTime /\ operations \in 0..MaxOperations
  /\ everEnded \subseteq 1..ids /\ taskOver \in BOOLEAN

ChallengeInit ==
  /\ shown \in [document : {1}, page : Pages]
  /\ debugging \in [on : {FALSE}, heard : {0}] \cup [on : {TRUE}, heard : {0, 1}]
  /\ pageAt = [revision |-> 1, marking |-> 0]
  /\ scan = [p \in Scanners |-> NoScan]
  /\ episodes = <<>> /\ scanned = NoScanned /\ lane = NoLane /\ notice = NoNotice
  /\ clock = 0 /\ operations = 0 /\ ids = 0 /\ everEnded = {}
  /\ taskOver = FALSE

--------------------------------
\* Chrome and the people at the page

\* Another document; an attached debugger hears its response.
ShowDocument ==
  /\ shown.document < MaxDocuments
  /\ \E page \in Pages : shown' = [document |-> shown.document + 1,
                                   page |-> [page EXCEPT !.filled = {}]]
  /\ debugging' = [debugging EXCEPT !.heard = IF debugging.on THEN shown.document + 1 ELSE 0]
  /\ pageAt' = [pageAt EXCEPT !.marking = @ + 1]
  /\ UNCHANGED <<scan, episodes, scanned, lane, notice, clock, operations, ids, everEnded, taskOver>>

\* Someone solves the widget, or it solves itself: its token field is filled.
SolveWidget ==
  /\ \E i \in DOMAIN Catalog :
       /\ Catalog[i].token /\ Catalog[i].vendor \notin shown.page.filled
       /\ \E r \in Catalog[i].rules : r.signal \in shown.page.signals
       /\ shown' = [shown EXCEPT !.page.filled = @ \cup {Catalog[i].vendor}]
  /\ UNCHANGED <<debugging, pageAt, scan, episodes, scanned, lane, notice, clock, operations,
                 ids, everEnded, taskOver>>

\* Other work attaches the debugger; idleness, a handoff or Chrome detaches it.
AttachOrDetach ==
  /\ debugging' = [on |-> ~debugging.on, heard |-> 0]
  /\ UNCHANGED <<shown, pageAt, scan, episodes, scanned, lane, notice, clock, operations, ids,
                 everEnded, taskOver>>

\* markNavigation, some time after the document changed.
MarkShown ==
  /\ pageAt.marking > 0
  /\ pageAt' = [revision |-> pageAt.revision + 1, marking |-> pageAt.marking - 1]
  /\ UNCHANGED <<shown, debugging, scan, episodes, scanned, lane, notice, clock, operations,
                 ids, everEnded, taskOver>>

\* A tick is longer than the 250 ms of a scan.
TimePasses ==
  /\ \A p \in Scanners : scan[p].at \in {"idle", "failed", "done"}
  /\ clock < MaxScanTime /\ clock' = clock + 1
  /\ UNCHANGED <<shown, debugging, pageAt, scan, episodes, scanned, lane, notice, operations,
                 ids, everEnded, taskOver>>

--------------------------------
\* A scan

Scanning(p) == scan' = [scan EXCEPT ![p] = [NoScan EXCEPT !.at = "page"]]

\* collectChallengeFacts in the page; frames in a closed shadow root are not seen.
ReadPage(p) ==
  /\ scan[p].at = "page"
  /\ LET page == shown.page
     IN scan' = [scan EXCEPT ![p].at = "debugger",
                   ![p].facts = [NoFacts EXCEPT !.document = shown.document,
                       !.origin = page.origin, !.status = page.status,
                       !.signals = page.signals \ (ResponseSignals \cup page.closed),
                       !.visible = page.visible \ page.closed, !.filled = page.filled]]
  /\ UNCHANGED <<shown, debugging, pageAt, episodes, scanned, lane, notice, clock, operations,
                 ids, everEnded, taskOver>>

\* augmentChallengeFacts: frames of the debugger's tree, and the response if it was heard.
\* A command that fails leaves the facts as they are.
Augmented(facts) ==
  LET page == shown.page
      response == IF debugging.heard = shown.document THEN page.signals \cap ResponseSignals
                  ELSE {}
  IN [facts EXCEPT !.probe = "debugger", !.visible = @ \cup (page.visible \cap page.closed),
                   !.signals = @ \cup response \cup (page.signals \cap page.closed)]
\* Then the signatures are matched, and the revision and the time are read.
AskDebugger(p) ==
  /\ scan[p].at = "debugger"
  /\ \E facts \in {scan[p].facts} \cup (IF debugging.on THEN {Augmented(scan[p].facts)} ELSE {}) :
       scan' = [scan EXCEPT ![p].at = "queue", ![p].detected = Detect(facts),
                  ![p].facts = [NoFacts EXCEPT !.document = facts.document, !.probe = facts.probe,
                                               !.origin = facts.origin, !.status = facts.status],
                  ![p].revision = pageAt.revision, ![p].time = clock]
  /\ UNCHANGED <<shown, debugging, pageAt, episodes, scanned, lane, notice, clock, operations,
                 ids, everEnded, taskOver>>

\* The 250 ms are over, or the page cannot be read.
OverBudget(p) ==
  /\ scan[p].at \in {"page", "debugger"}
  /\ scan' = [scan EXCEPT ![p] = [NoScan EXCEPT !.at = "failed"]]
  /\ UNCHANGED <<shown, debugging, pageAt, episodes, scanned, lane, notice, clock, operations,
                 ids, everEnded, taskOver>>

\* The store's operations run one at a time (serialized).
StoreFree == \A q \in Scanners : scan[q].at # "write"

ReadStore(p) ==
  /\ scan[p].at = "queue" /\ StoreFree
  /\ scan' = [scan EXCEPT ![p].at = "write", ![p].read = episodes]
  /\ UNCHANGED <<shown, debugging, pageAt, episodes, scanned, lane, notice, clock, operations,
                 ids, everEnded, taskOver>>

\* updateTaskEpisodes(advance).
WriteStore(p) ==
  /\ scan[p].at = "write"
  /\ LET facts == scan[p].facts
         ctx == [revision |-> scan[p].revision, origin |-> facts.origin, status |-> facts.status,
                 document |-> facts.document, probe |-> facts.probe, now |-> scan[p].time,
                 id |-> ids + 1]
         advanced == Advance(scan[p].read, scan[p].detected, ctx)
     IN /\ episodes' = advanced.episodes
        /\ ids' = IF FindEpisode(advanced.episodes, ids + 1) = <<>> THEN ids ELSE ids + 1
        /\ everEnded' = everEnded \cup {e.id : e \in {x \in Range(advanced.episodes) : ~Active(x)}}
        /\ scan' = [scan EXCEPT ![p] = [NoScan EXCEPT !.at = "done", !.read = advanced.episodes,
                                                  !.event = advanced.event]]
  /\ scanned' = [revision |-> scan[p].revision, document |-> scan[p].facts.document]
  /\ UNCHANGED <<shown, debugging, pageAt, lane, notice, clock, operations, taskOver>>

\* Reading the store or writing it fails: it stays as it was, and the scan gives nothing.
StoreFails(p) ==
  /\ scan[p].at = "write"
  /\ scan' = [scan EXCEPT ![p] = [NoScan EXCEPT !.at = "failed"]]
  /\ UNCHANGED <<shown, debugging, pageAt, episodes, scanned, lane, notice, clock, operations,
                 ids, everEnded, taskOver>>

ScanOver(p) == scan[p].at \in {"failed", "done"}

--------------------------------
\* The lane: results that carry a scan, waits, acts

Goes ==
  /\ lane.kind = "none" /\ operations < MaxOperations /\ ~taskOver
  /\ operations' = operations + 1
LaneEnds == lane' = NoLane /\ scan' = [scan EXCEPT !["lane"] = NoScan]

\* withChallenge, on the result of an operation.
StartResult ==
  /\ Goes /\ lane' = [NoLane EXCEPT !.kind = "result"] /\ Scanning("lane")
  /\ UNCHANGED <<shown, debugging, pageAt, episodes, scanned, notice, clock, ids, everEnded,
                 taskOver>>

EndResult ==
  /\ lane.kind = "result" /\ ScanOver("lane") /\ LaneEnds
  /\ UNCHANGED <<shown, debugging, pageAt, episodes, scanned, notice, clock, operations, ids,
                 everEnded, taskOver>>

\* browser_wait for challenge_cleared, of an episode that is active.
StartWait ==
  /\ StoreFree /\ Goes
  /\ \E e \in Range(SelectSeq(episodes, Active)) :
       lane' = [NoLane EXCEPT !.kind = "wait", !.id = e.id]
  /\ Scanning("lane")
  /\ UNCHANGED <<shown, debugging, pageAt, episodes, scanned, notice, clock, ids, everEnded,
                 taskOver>>

\* The scan shows that the episode is gone, has ended or wants a human.
WaitOver ==
  /\ scan["lane"].at = "done"
  /\ \A e \in Range(FindEpisode(scan["lane"].read, lane.id)) : ~Active(e) \/ e.next # "wait"

EndWait ==
  /\ lane.kind = "wait" /\ ScanOver("lane") /\ WaitOver /\ LaneEnds
  /\ UNCHANGED <<shown, debugging, pageAt, episodes, scanned, notice, clock, operations, ids,
                 everEnded, taskOver>>

\* The next poll; or the deadline, and the wait times out.
PollAgain ==
  /\ lane.kind = "wait" /\ ScanOver("lane") /\ ~WaitOver
  /\ IF lane.polls < MaxWaitPolls
     THEN lane' = [lane EXCEPT !.polls = @ + 1] /\ Scanning("lane") ELSE LaneEnds
  /\ UNCHANGED <<shown, debugging, pageAt, episodes, scanned, notice, clock, operations, ids,
                 everEnded, taskOver>>

\* guardEpisode, before an input of browser_act: the page is scanned again when an episode
\* is active or the revision moved since the last scan.
StartAct ==
  /\ StoreFree /\ Goes
  /\ lane' = [NoLane EXCEPT !.kind = "act", !.read = episodes]
  /\ IF scanned.revision # pageAt.revision \/ ActiveEpisode(episodes) # <<>> THEN Scanning("lane")
     ELSE scan' = [scan EXCEPT !["lane"].at = "failed"]
  /\ UNCHANGED <<shown, debugging, pageAt, episodes, scanned, notice, clock, ids, everEnded,
                 taskOver>>

\* The episode the guard goes by: a scan that failed leaves the stored view in place.
Governing == ActiveEpisode(IF scan["lane"].at = "done" THEN scan["lane"].read ELSE lane.read)

\* decideContainment of the target, or of the focused element: a hit is inside; without one,
\* incomplete evidence is unknown.
Verdict(hit, complete) == IF hit THEN "inside" ELSE IF complete THEN "outside" ELSE "unknown"
RefusesInput(hit, complete) ==
  Governing # <<>> /\ (Governing[1].class = "document" \/ Verdict(hit, complete) # "outside")

\* Input refused: the act returns the challenge.  Else the input happens, and the act's own
\* result is scanned.
EndAct ==
  /\ lane.kind = "act" /\ ScanOver("lane")
  /\ \E hit, complete \in BOOLEAN :
       IF RefusesInput(hit, complete) THEN LaneEnds
       ELSE lane' = [NoLane EXCEPT !.kind = "result"] /\ Scanning("lane")
  /\ UNCHANGED <<shown, debugging, pageAt, episodes, scanned, notice, clock, operations, ids,
                 everEnded, taskOver>>

--------------------------------
\* The notice that an episode's end completes

\* requestNow: an episode that is active; the debugger is detached for the human.
RequestNotice ==
  /\ notice.status = "none" /\ StoreFree /\ ~taskOver
  /\ \E e \in Range(SelectSeq(episodes, Active)) : notice' = [status |-> "recorded", id |-> e.id]
  /\ debugging' = [on |-> FALSE, heard |-> 0]
  /\ UNCHANGED <<shown, pageAt, scan, episodes, scanned, lane, clock, operations, ids,
                 everEnded, taskOver>>

\* bindChallengeNotice: no episode, no binding.
BindNotice ==
  /\ notice.status = "recorded" /\ StoreFree
  /\ episodes' = [i \in DOMAIN episodes |->
                    IF episodes[i].id = notice.id THEN [episodes[i] EXCEPT !.notice = TRUE]
                    ELSE episodes[i]]
  /\ notice' = [notice EXCEPT !.status = "open"]
  /\ UNCHANGED <<shown, debugging, pageAt, scan, scanned, lane, clock, operations, ids,
                 everEnded, taskOver>>

StartResolve ==
  /\ notice.status = "open" /\ scan["resolve"].at = "idle" /\ ~taskOver
  /\ operations < MaxOperations /\ operations' = operations + 1
  /\ Scanning("resolve")
  /\ UNCHANGED <<shown, debugging, pageAt, episodes, scanned, lane, notice, clock, ids,
                 everEnded, taskOver>>

\* Mutant: an episode that is not stored any more counts as ended.
CompletesWithoutEpisode(list) ==
  LET found == FindEpisode(list, notice.id) IN \A e \in Range(found) : ~Active(e)

\* Resolved only by an episode that is there and has ended.
Completes(list) == LET found == FindEpisode(list, notice.id) IN found # <<>> /\ ~Active(found[1])

\* resolveChallengeNow: without a scan the stored episodes decide.
EndResolve ==
  /\ ScanOver("resolve") /\ (scan["resolve"].at = "failed" => StoreFree)
  /\ LET list == IF scan["resolve"].at = "done" THEN scan["resolve"].read ELSE episodes
     IN notice' = IF Completes(list) THEN [notice EXCEPT !.status = "resolved"] ELSE notice
  /\ scan' = [scan EXCEPT !["resolve"] = NoScan]
  /\ UNCHANGED <<shown, debugging, pageAt, episodes, scanned, lane, clock, operations, ids,
                 everEnded, taskOver>>

\* The task is finished or closed, from the popup too: clearChallengeTask.
ClearTask ==
  /\ ~taskOver /\ taskOver' = TRUE /\ StoreFree /\ episodes' = <<>>
  /\ UNCHANGED <<shown, debugging, pageAt, scan, scanned, lane, notice, clock, operations, ids,
                 everEnded>>

--------------------------------
ScanStep(p) ==
  \/ ReadPage(p) \/ AskDebugger(p) \/ OverBudget(p) \/ ReadStore(p)
  \/ WriteStore(p) \/ StoreFails(p)
ChallengeNext ==
  \/ ShowDocument \/ SolveWidget \/ AttachOrDetach \/ MarkShown \/ TimePasses
  \/ \E p \in Scanners : ScanStep(p)
  \/ StartResult \/ EndResult \/ StartWait \/ EndWait \/ PollAgain \/ StartAct \/ EndAct
  \/ RequestNotice \/ BindNotice \/ StartResolve \/ EndResolve \/ ClearTask

ChallengeSpec == ChallengeInit /\ [][ChallengeNext]_challengeVars

--------------------------------
\* A tab has at most one active episode of each scope class, whichever scans overlap:
\* challenge.ts advance supersedes every other one of the class it detects.
OneActivePerScope ==
  \A i, j \in DOMAIN episodes :
    i # j /\ Active(episodes[i]) /\ Active(episodes[j]) => episodes[i].class # episodes[j].class

\* A challenge_id names one episode: while it is stored it keeps its vendor, its scope class
\* and its first sighting, and an episode that has ended is never active again.
EpisodeKeepsIdentity ==
  [][\A e \in Range(episodes), f \in Range(episodes') :
       e.id = f.id => /\ e.vendor = f.vendor /\ e.class = f.class /\ e.first = f.first
                      /\ e.origin = f.origin
                      /\ Active(f) => Active(e)]_challengeVars

\* A notice bound to an episode stays bound (challenge-store.ts: concurrent scans never
\* lose each other's writes).
NoticeStaysBound ==
  [][\A e \in Range(episodes), f \in Range(episodes') :
       e.id = f.id /\ e.notice => f.notice]_challengeVars

\* Clean pages seen by the scripting probe never clear an episode that only the response
\* showed, while that response is the page (challenge.ts advance).
ScriptingProvesNothing ==
  [][\A e \in Range(episodes), f \in Range(episodes') :
       e.id = f.id /\ Active(e) /\ f.state = "cleared" /\ ~e.observable =>
         f.document # e.document \/ \E p \in Scanners : scan[p].at = "write"
                                      /\ scan[p].facts.probe = "debugger"]_challengeVars

\* A notice is resolved only after its episode ended, whatever scanned meanwhile.
ResolvedMeansEnded == notice.status = "resolved" => notice.id \in everEnded

--------------------------------
\* Not what the code does: these are violated (see the README).

\* ADR 0002: embedded matches fold into an active document-scope challenge.
EmbeddedFoldsIn ==
  \A i, j \in DOMAIN episodes : Active(episodes[i]) /\ Active(episodes[j]) =>
                                  episodes[i].class = episodes[j].class

\* A clean scan of the same response proves nothing of an episode that only its headers or
\* status showed.
SameResponseNeverClears ==
  [][\A e \in Range(episodes), f \in Range(episodes') :
       e.id = f.id /\ Active(e) /\ f.state = "cleared" /\ ~e.observable =>
         f.document # e.document]_challengeVars

\* The guard scans again when the revision moved since the last scan: the scan that counts
\* for this revision was one of its document.
ScannedThisRevision ==
  scanned.revision = pageAt.revision /\ pageAt.marking = 0 => scanned.document = shown.document

\* A finished task has no challenge records.
NoRecordsAfterEnd == taskOver => episodes = <<>>

\* One active episode of a class, each with one identity and bound to its notice, ended
\* before the notice reports it and only on evidence (challenge.ts, challenge-store.ts).
EpisodesAccounted ==
  /\ [](ChallengeTypeOK /\ OneActivePerScope /\ ResolvedMeansEnded)
  /\ EpisodeKeepsIdentity /\ NoticeStaysBound /\ ScriptingProvesNothing

================================
