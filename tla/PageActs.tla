---- MODULE PageActs ----
(* What the extension does to the page of one task tab (browser.ts): accessibility    *)
(* snapshots that mint refs, batches of actions (act), credential fills and e-mail    *)
(* code fills.  The page may navigate between any two awaits; the revision tracker    *)
(* hears of that late.  Chrome may refuse the debugger, then a page agent pinned to a *)
(* document does the work (the scripting route), and the tab may stop being the       *)
(* task's.  Documents are numbers, each has one element, and Chrome knows an element  *)
(* only while its document is loaded.  Review of consequential actions is the matter  *)
(* of StagedCommits, challenges of Challenges, downloads of Downloads.                *)
EXTENDS Naturals, Sequences

CONSTANTS MaxNavigations,  \* bound: navigations of the page
          MaxUpsets,       \* bound: the tab revoked, the debugger refused or allowed again
          MaxRequests      \* bound: operations asked for

ASSUME ActsConstants == MaxNavigations \in Nat /\ MaxUpsets \in Nat /\ MaxRequests \in Nat

Step(by, gesture) == [by |-> by, gesture |-> gesture]
\* A click, fill or press is one request; a double click or a drag is several events.
ElementSteps == {Step("ref", "single"), Step("selector", "single"), Step("ref", "multi")}
PageSteps == {Step("none", "scroll")}
LastSteps == {Step("none", "navigate")}
Batches == {<<s>> : s \in ElementSteps \cup PageSteps \cup LastSteps}
             \cup {<<s, t>> : s \in ElementSteps \cup PageSteps,
                              t \in ElementSteps \cup PageSteps \cup LastSteps}
Fields == {<<Step("ref", "single")>>, <<Step("ref", "single"), Step("ref", "single")>>}

VARIABLES loaded,     \* Chrome: the document of the tab
          untold,     \* Chrome: navigations the tracker has not heard of
          known,      \* RevisionTracker: the tab's revision and document, 0 for none
          allowed,    \* the tab is the task's, and automation is permitted
          refused,    \* Chrome refuses the debugger
          upsets,
          view,       \* the agent: its last snapshot
          op,         \* the operation under way
          reached,    \* history: the input of this operation that reached a page
          verdict,    \* the last answer, and what had been done by then
          requests

actVars == <<loaded, untold, known, allowed, refused, upsets, view, op, reached, verdict,
             requests>>
world == <<loaded, untold, known, allowed, refused, upsets>>

NoTarget == [document |-> 0, scripting |-> FALSE]
NoView == [document |-> 0, scripting |-> FALSE, revision |-> 0, read |-> {}]
Resting == [kind |-> "none", steps |-> <<>>, index |-> 0, at |-> "over", expected |-> 0,
            target |-> NoTarget, done |-> 0, read |-> {}]
NoVerdict == [kind |-> "none", outcome |-> "none", code |-> "none", done |-> 0, reached |-> 0,
              partly |-> FALSE, scripted |-> FALSE]
PageDocuments == 1..(MaxNavigations + 1)

ActsTypeOK ==
  /\ loaded \in PageDocuments /\ untold \in 0..MaxNavigations
  /\ known.revision \in Nat /\ known.document \in {0} \cup PageDocuments
  /\ {allowed, refused} \subseteq BOOLEAN /\ upsets \in 0..MaxUpsets
  /\ view.document \in {0} \cup PageDocuments /\ view.read \subseteq PageDocuments
  /\ op.kind \in {"none", "snapshot", "act", "credentials", "email"}
  /\ op.index <= Len(op.steps) /\ op.done <= Len(op.steps)
  /\ op.target.document \in {0} \cup PageDocuments
  /\ \A i \in DOMAIN reached : reached[i].document \in PageDocuments
  /\ verdict.outcome \in {"none", "completed", "commit_required", "not_started", "unknown"}
  /\ requests \in 0..MaxRequests

ActsInit ==
  /\ loaded = 1 /\ untold = 0 /\ known = [revision |-> 1, document |-> 0]
  /\ allowed = TRUE /\ refused \in BOOLEAN /\ upsets = 0
  /\ view = NoView /\ op = Resting /\ reached = <<>> /\ verdict = NoVerdict /\ requests = 0

--------------------------------
\* The page and the worker's knowledge of it

PageLeaves ==
  /\ loaded <= MaxNavigations /\ loaded' = loaded + 1 /\ untold' = untold + 1
  /\ UNCHANGED <<known, allowed, refused, upsets, view, op, reached, verdict, requests>>

\* markNavigation, when tabs.onUpdated has told the worker.
HearLoading ==
  /\ untold > 0 /\ untold' = untold - 1
  /\ known' = [revision |-> known.revision + 1, document |-> 0]
  /\ UNCHANGED <<loaded, allowed, refused, upsets, view, op, reached, verdict, requests>>

Upset ==
  /\ upsets < MaxUpsets /\ upsets' = upsets + 1
  /\ \/ allowed' = FALSE /\ UNCHANGED refused
     \/ refused' = ~refused /\ UNCHANGED allowed
  /\ UNCHANGED <<loaded, untold, known, view, op, reached, verdict, requests>>

\* observeDocument: another document than the one known is another revision.
Noted(document) ==
  [document |-> document,
   revision |-> known.revision + (IF known.document \in {0, document} THEN 0 ELSE 1)]

--------------------------------
\* Answers

PreDispatch == {"stale_ref", "stale_revision", "ownership_revoked", "invalid_request"}

\* errorOutcome, after batchStepFailure has marked a batch that had completed steps.
Outcome(code, told) ==
  IF op.kind = "act" /\ op.done > 0 THEN "unknown"
  ELSE IF told # "none" THEN told
  ELSE IF code \in PreDispatch THEN "not_started" ELSE "unknown"

Says(outcome, code) ==
  /\ verdict' = [kind |-> op.kind, outcome |-> outcome, code |-> code, done |-> op.done,
                 reached |-> Len(reached), partly |-> op.at = "second",
                 scripted |-> op.target.scripting]
  /\ op' = Resting

Fails(code, told) == Says(Outcome(code, told), code) /\ UNCHANGED <<view, reached, requests>>
Goes(at) == op' = [op EXCEPT !.at = at] /\ UNCHANGED <<view, reached, verdict, requests>>

\* A step is done: the next one, or the answer.
StepDone ==
  IF op.index = Len(op.steps)
  THEN /\ verdict' = [kind |-> op.kind, outcome |-> "completed", code |-> "none",
                      done |-> op.done + 1, reached |-> Len(reached), partly |-> FALSE,
                      scripted |-> op.target.scripting]
       /\ op' = Resting
  ELSE /\ op' = [op EXCEPT !.done = @ + 1, !.index = @ + 1, !.at = "check",
                           !.target = NoTarget]
       /\ UNCHANGED verdict

--------------------------------
\* Snapshots

Asks(kind, steps) ==
  /\ op.kind = "none" /\ requests < MaxRequests /\ requests' = requests + 1
  /\ op' = [Resting EXCEPT !.kind = kind, !.steps = steps, !.at = "enter",
                           !.index = IF steps = <<>> THEN 0 ELSE 1,
                           !.expected = view.revision]
  /\ reached' = <<>> /\ verdict' = NoVerdict
  /\ UNCHANGED <<world, view>>

StartSnapshot == Asks("snapshot", <<>>)

\* The page's revision: the debugger reads the document and observes it, the scripting
\* route takes the revision the tracker has.
Identify ==
  /\ op.kind = "snapshot" /\ op.at = "enter" /\ UNCHANGED world
  /\ \/ ~allowed /\ Fails("ownership_revoked", "none")
     \/ /\ allowed
        /\ op' = [op EXCEPT !.at = IF refused THEN "read" ELSE "observe",
                            !.expected = known.revision,
                            !.target = [document |-> IF refused THEN 0 ELSE loaded,
                                        scripting |-> refused]]
        /\ UNCHANGED <<view, reached, verdict, requests>>

ObserveDocument ==
  /\ op.kind = "snapshot" /\ op.at = "observe"
  /\ known' = Noted(op.target.document)
  /\ op' = [op EXCEPT !.at = "read", !.expected = known'.revision]
  /\ UNCHANGED <<loaded, untold, allowed, refused, upsets, view, reached, verdict, requests>>

\* The accessibility tree, and the editable fields it lacks, are two reads of the page;
\* the second may fail without harm.
ReadNodes ==
  /\ op.kind = "snapshot" /\ op.at = "read" /\ UNCHANGED world
  /\ \/ ~allowed /\ Fails("ownership_revoked", "none")
     \/ ~op.target.scripting /\ refused /\ Fails("debugger_unavailable", "not_started")
     \/ /\ allowed /\ (refused => op.target.scripting)
        /\ op' = [op EXCEPT !.at = IF op.target.scripting THEN "after" ELSE "fallback",
                            !.read = {loaded},
                            !.target.document = IF op.target.scripting THEN loaded ELSE @]
        /\ UNCHANGED <<view, reached, verdict, requests>>

ReadFallback ==
  /\ op.kind = "snapshot" /\ op.at = "fallback" /\ UNCHANGED world
  /\ op' = [op EXCEPT !.at = "after", !.read = IF allowed /\ ~refused THEN @ \cup {loaded} ELSE @]
  /\ UNCHANGED <<view, reached, verdict, requests>>

\* The refs are minted if the document, or on the scripting route the revision, is still
\* the one of the beginning.
Refused ==
  IF op.target.scripting
  THEN IF known.revision # op.expected THEN "stale_revision" ELSE "ok"
  ELSE IF ~allowed THEN "ownership_revoked"
  ELSE IF refused THEN "debugger_unavailable"
  ELSE IF loaded # op.target.document THEN "stale_revision" ELSE "ok"

MintRefs ==
  /\ op.kind = "snapshot" /\ op.at = "after"
  /\ known' = IF Refused = "stale_revision" /\ ~op.target.scripting THEN Noted(loaded) ELSE known
  /\ \/ /\ Refused = "ok"
        /\ view' = [document |-> op.target.document, scripting |-> op.target.scripting,
                    revision |-> op.expected, read |-> op.read]
        /\ Says("completed", "none") /\ UNCHANGED <<reached, requests>>
     \/ /\ Refused # "ok"
        /\ Fails(Refused, IF Refused = "debugger_unavailable" THEN "not_started" ELSE "none")
  /\ UNCHANGED <<loaded, untold, allowed, refused, upsets>>

--------------------------------
\* Batches and fills

StartAct == view # NoView /\ \E steps \in Batches : Asks("act", steps)
StartFill == view # NoView /\ \E steps \in Fields : \E kind \in {"credentials", "email"} :
                                                      Asks(kind, steps)

CurrentStep == op.steps[op.index]

Enter ==
  /\ op.kind \notin {"none", "snapshot"} /\ op.at = "enter" /\ UNCHANGED world
  /\ \/ ~allowed /\ Fails("ownership_revoked", "none")
     \/ allowed /\ known.revision # op.expected /\ Fails("stale_revision", "none")
     \/ allowed /\ known.revision = op.expected /\ Goes("check")

Check ==
  /\ op.at = "check" /\ UNCHANGED world
  /\ \/ known.revision # op.expected /\ Fails("stale_revision", "none")
     \/ /\ known.revision = op.expected
        /\ Goes(IF CurrentStep.by = "none" THEN "dispatch" ELSE "resolve")

\* Mutant: the page agent is asked in whatever document the tab shows.
FoundUnpinned(target) ==
  IF ~allowed THEN "ownership_revoked"
  ELSE IF target.scripting THEN "ok"
  ELSE IF refused THEN "debugger_unavailable"
  ELSE IF loaded # target.document THEN "stale_ref" ELSE "ok"

\* Chrome finds the element: on the route and in the document the target names.
Found(target) ==
  IF ~allowed THEN "ownership_revoked"
  ELSE IF ~target.scripting /\ refused THEN "debugger_unavailable"
  ELSE IF loaded # target.document THEN "stale_ref" ELSE "ok"

NotFound(target) ==
  /\ Found(target) # "ok"
  /\ Fails(Found(target),
           IF Found(target) = "debugger_unavailable" THEN "not_started" ELSE "none")

\* resolveTarget: a ref names the document it was minted in, a selector is resolved in
\* the document loaded now, on the route there is now.
Resolve ==
  /\ op.at = "resolve" /\ UNCHANGED world
  /\ LET target == IF CurrentStep.by = "ref"
                   THEN [document |-> view.document, scripting |-> view.scripting]
                   ELSE [document |-> loaded, scripting |-> refused]
         next == CASE op.kind = "act" -> "describe"
                   [] op.kind = "credentials" -> "dispatch"
                   [] op.kind = "email" -> IF op.index < Len(op.steps) THEN "again" ELSE "recheck"
     IN \/ NotFound(target)
        \/ /\ Found(target) = "ok"
           /\ op' = IF next = "again" THEN [op EXCEPT !.index = @ + 1, !.at = "check"]
                    ELSE [op EXCEPT !.at = next, !.target = target]
           /\ UNCHANGED <<view, reached, verdict, requests>>

\* consequence: the description of the target is what decides whether the action waits
\* for review, and refuses sensitive fields and what the route cannot do.
Describe ==
  /\ op.at = "describe" /\ UNCHANGED world
  /\ \/ NotFound(op.target)
     \/ Found(op.target) = "ok" /\ Fails("invalid_request", "none")
     \/ /\ Found(op.target) = "ok" /\ Says("commit_required", "none")
        /\ UNCHANGED <<view, reached, requests>>
     \/ Found(op.target) = "ok" /\ Goes("dispatch")

Input(document) == Append(reached, [document |-> document, by |-> CurrentStep.by])

\* callOnNode, runPageAgent or the first mouse event: one request, which finds the element
\* by its document and either refuses it or lets the input reach the page.
DispatchToElement ==
  /\ op.at = "dispatch" /\ op.kind # "email" /\ CurrentStep.by # "none" /\ UNCHANGED world
  /\ \/ NotFound(op.target)
     \/ Found(op.target) = "ok" /\ Fails("invalid_request", "none")
     \/ /\ Found(op.target) = "ok" /\ reached' = Input(loaded)
        /\ op' = [op EXCEPT !.at = IF CurrentStep.gesture = "multi" /\ ~op.target.scripting
                                   THEN "second" ELSE "reply"]
        /\ UNCHANGED <<view, verdict, requests>>

\* Scrolling the page and navigating are asked of the tab, whatever it shows.
DispatchToTab ==
  /\ op.at = "dispatch" /\ CurrentStep.by = "none" /\ UNCHANGED <<known, allowed, refused, upsets>>
  /\ \/ ~allowed /\ Fails("ownership_revoked", "none") /\ UNCHANGED <<loaded, untold>>
     \/ /\ allowed /\ reached' = Input(loaded)
        /\ IF CurrentStep.gesture = "navigate" /\ loaded <= MaxNavigations
           THEN loaded' = loaded + 1 /\ untold' = untold + 1
           ELSE UNCHANGED <<loaded, untold>>
        /\ StepDone /\ UNCHANGED <<view, requests>>

\* The rest of a gesture of several events (afterInputDispatched).
SecondEvent ==
  /\ op.at = "second" /\ UNCHANGED world
  /\ \/ /\ Found(op.target) # "ok" /\ Fails(Found(op.target), "unknown")
     \/ Found(op.target) = "ok" /\ Fails("action_failed", "unknown")
     \/ /\ Found(op.target) = "ok" /\ reached' = Input(loaded)
        /\ StepDone /\ UNCHANGED <<view, requests>>

\* The reply of the page: done, failed, or lost with the document that was to send it,
\* which callOnNode and inDocument take for an element that no longer resolves.
HearReply ==
  /\ op.at = "reply" /\ UNCHANGED world
  /\ \/ StepDone /\ UNCHANGED <<view, reached, requests>>
     \/ Fails("action_failed", "none")
     \/ loaded # op.target.document /\ Fails("stale_ref", "none")

--------------------------------
\* E-mail codes

\* Every ref is resolved; the revision and the page are checked once more.
Recheck ==
  /\ op.at = "recheck" /\ UNCHANGED world
  /\ \/ known.revision # op.expected /\ Fails("stale_revision", "not_started")
     \/ Fails("invalid_request", "not_started")
     \/ known.revision = op.expected /\ Goes("dispatch")

\* The page function checks the page and its fields around each box it writes; it writes
\* nothing, or all, or takes back what it wrote.
FillCode ==
  /\ op.kind = "email" /\ op.at = "dispatch" /\ UNCHANGED world
  /\ \/ /\ Found(op.target) # "ok" /\ Fails(Found(op.target), "not_started")
     \/ Found(op.target) = "ok" /\ Fails("invalid_request", "not_started")
     \/ /\ Found(op.target) = "ok" /\ reached' = Input(loaded)
        /\ op' = [op EXCEPT !.at = "filled"] /\ UNCHANGED <<view, verdict, requests>>

\* Its verdict; without one the code is assumed to be written, unless it was lost with
\* its document on the scripting route, which inDocument takes for a ref gone stale before.
HearFilled ==
  /\ op.at = "filled" /\ UNCHANGED world
  /\ \/ Says("completed", "none") /\ UNCHANGED <<view, reached, requests>>
     \/ Fails("action_failed", "unknown")
     \/ op.target.scripting /\ loaded # op.target.document /\ Fails("stale_ref", "none")

--------------------------------

ActsNext ==
  \/ PageLeaves \/ HearLoading \/ Upset
  \/ StartSnapshot \/ Identify \/ ObserveDocument \/ ReadNodes \/ ReadFallback
  \/ MintRefs
  \/ StartAct \/ StartFill \/ Enter \/ Check \/ Resolve \/ Describe
  \/ DispatchToElement \/ DispatchToTab \/ SecondEvent \/ HearReply
  \/ Recheck \/ FillCode \/ HearFilled

ActsSpec == ActsInit /\ [][ActsNext]_actVars

--------------------------------

\* The refs of a snapshot are bound to the one document all of its nodes were read in, so
\* an element number never names an element of another page.
RefsNameWhatWasRead == view.read \subseteq {view.document}

\* Input aimed by a ref reaches the document the agent saw when it got the ref, on either
\* route and however late the navigation is heard of.
RefsActOnTheirDocument ==
  \A i \in DOMAIN reached : reached[i].by = "ref" => reached[i].document = view.document

\* A batch that fails after a step of it was completed, or in the middle of a gesture, is
\* never answered not_started: the agent would send it again.  Neither is a code fill that
\* has written, except as the stale ref of a document lost under it on the scripting route.
EarlierInputAdmitted ==
  verdict.outcome = "not_started" =>
    /\ verdict.kind = "act" => verdict.done = 0 /\ ~verdict.partly
    /\ verdict.kind = "email" => \/ verdict.reached = 0
                                 \/ verdict.code = "stale_ref" /\ verdict.scripted

\* An operation answered not_started did not begin: none of its input reached the page
\* (docs/mcp.md:132, "The operation did not begin").
NotStartedMeansUntouched == verdict.outcome = "not_started" => verdict.reached = 0

\* A batch is refused once the document is another than the one its expected revision
\* stands for (docs/multi-agent.md:39, "The host and extension reject actions when
\* ownership, document revision, or ref epoch no longer matches").
SelectorsActOnTheSeenPage ==
  \A i \in DOMAIN reached : reached[i].by = "selector" => reached[i].document = view.document

\* Refs come from one document and act on it alone, and no batch is answered not_started
\* after an earlier action of it reached the page (snapshot, act, fillCredentials).
RefsAreCurrent ==
  ActsTypeOK /\ RefsNameWhatWasRead /\ RefsActOnTheirDocument /\ EarlierInputAdmitted

================================
