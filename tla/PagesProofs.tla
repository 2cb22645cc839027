---- MODULE PagesProofs ----
(* Proofs about the commands of a page and the events that they wait for, for any        *)
(* number of navigations, requests and interruptions: what acts on a page (PageActs),    *)
(* what its revision covers (PageSettling) and what a wait matches (PageWaits).          *)
EXTENDS PageSettling, PageActs, PageWaits, SequenceTheorems, FiniteSetTheorems, TLAPS

--------------------------------
(* PageActs: an element is named by its document, documents only go forward, and what    *)
(* is found in its document when the input is dispatched was never left                  *)

StepType == [by : {"ref", "selector", "none"}, gesture : {"single", "multi", "scroll", "navigate"}]
TargetType == [document : {0} \cup PageDocuments, scripting : BOOLEAN]
ViewType == [document : {0} \cup PageDocuments, scripting : BOOLEAN, revision : Nat, read : SUBSET PageDocuments]
OpPlaces == {"over", "enter", "observe", "read", "fallback", "after", "check", "resolve", "describe", "dispatch",
             "second", "reply", "recheck", "filled"}
OpType == [kind : {"none", "snapshot", "act", "credentials", "email"}, steps : Seq(StepType), index : Nat,
           at : OpPlaces, expected : Nat, target : TargetType, done : Nat, read : SUBSET PageDocuments]

InputType == [document : PageDocuments, by : {"ref", "selector", "none"}]

ActsData ==
  /\ loaded \in PageDocuments /\ untold \in Nat /\ untold <= loaded - 1
  /\ known \in [revision : Nat, document : {0} \cup PageDocuments]
  /\ allowed \in BOOLEAN /\ refused \in BOOLEAN /\ upsets \in 0..MaxUpsets /\ requests \in 0..MaxRequests
  /\ view \in ViewType /\ op \in OpType
  /\ reached \in Seq(InputType)
  /\ verdict.outcome \in {"none", "completed", "commit_required", "not_started", "unknown"}

\* An operation that acts is at one of its steps, and has done the ones before.
OpShape ==
  /\ op.kind = "none" => op.at = "over"
  /\ op.kind \in {"none", "snapshot"} => op.index = 0 /\ op.done = 0
  /\ op.kind \notin {"none", "snapshot"} => op.index \in 1..Len(op.steps) /\ op.done < op.index
  /\ op.kind \in {"credentials", "email"} => \A i \in 1..Len(op.steps) : op.steps[i].by = "ref"

\* A snapshot has read documents between the one it began with and the one loaded.
SnapshotReads ==
  op.kind = "snapshot" =>
    /\ DOMAIN reached = {} /\ op.at \in {"enter", "observe", "read", "fallback", "after"}
    /\ op.at = "fallback" => ~op.target.scripting
    /\ op.at # "enter" /\ ~op.target.scripting => op.target.document <= loaded
    /\ op.at \in {"fallback", "after"} /\ op.target.scripting => op.read \subseteq {op.target.document}
    /\ op.at \in {"fallback", "after"} /\ ~op.target.scripting =>
         \A d \in op.read : op.target.document <= d /\ d <= loaded

\* A step that names a ref has the document of the ref for its target.
AimsAtView ==
  op.kind \notin {"none", "snapshot"} /\ op.at \in {"describe", "dispatch", "second", "reply", "recheck", "filled"}
    /\ CurrentStep.by = "ref" => op.target.document = view.document

\* A code fill is one write.
EmailUntouched ==
  op.kind = "email" =>
    /\ op.at \in {"enter", "check", "resolve", "recheck", "dispatch", "filled"}
    /\ op.at # "filled" => DOMAIN reached = {}

OpInv == OpShape /\ SnapshotReads /\ AimsAtView /\ EmailUntouched

ActsInv == ActsData /\ OpInv /\ RefsNameWhatWasRead /\ RefsActOnTheirDocument /\ EarlierInputAdmitted

LEMMA ElementsOfSeq == ASSUME NEW S, NEW q \in Seq(S) PROVE \A i \in DOMAIN q : q[i] \in S
OBVIOUS

LEMMA ActsInvIsEnough == ActsInv => RefsAreCurrent
<1> SUFFICES ASSUME ActsInv PROVE RefsAreCurrent
  OBVIOUS
<1>1. Len(op.steps) \in Nat /\ op.index <= Len(op.steps) /\ op.done <= Len(op.steps)
  <2>1. op.steps \in Seq(StepType) /\ op.index \in Nat /\ op.done \in Nat
    BY DEF ActsInv, ActsData, OpType
  <2>2. Len(op.steps) \in Nat
    BY <2>1, LenProperties
  <2>3. QED  BY <2>1, <2>2 DEF ActsInv, OpInv, OpShape
<1>2. loaded \in PageDocuments /\ untold \in 0..MaxNavigations
  BY ActsConstants DEF ActsInv, ActsData, PageDocuments
<1>3. \A i \in DOMAIN reached : reached[i].document \in PageDocuments
  <2>1. reached \in Seq(InputType)
    BY DEF ActsInv, ActsData
  <2>2. \A i \in DOMAIN reached : reached[i] \in InputType
    BY <2>1, ElementsOfSeq
  <2>3. QED  BY <2>2 DEF InputType
<1>4. /\ known.revision \in Nat /\ known.document \in {0} \cup PageDocuments
      /\ view.document \in {0} \cup PageDocuments /\ view.read \subseteq PageDocuments
      /\ op.kind \in {"none", "snapshot", "act", "credentials", "email"}
      /\ op.target.document \in {0} \cup PageDocuments
  BY DEF ActsInv, ActsData, ViewType, OpType, TargetType
<1>5. {allowed, refused} \subseteq BOOLEAN
  BY DEF ActsInv, ActsData
<1>6. ActsTypeOK
  BY <1>1, <1>2, <1>3, <1>4, <1>5 DEF ActsInv, ActsData, ActsTypeOK
<1>7. QED  BY <1>6 DEF ActsInv, RefsAreCurrent

--------------------------------
(* Batches, and what becomes of an operation *)

LEMMA OneStep == ASSUME NEW s \in StepType PROVE <<s>> \in Seq(StepType) /\ Len(<<s>>) = 1 /\ <<s>>[1] = s
OBVIOUS

LEMMA TwoSteps ==
    ASSUME NEW s \in StepType, NEW t \in StepType
    PROVE  <<s, t>> \in Seq(StepType) /\ Len(<<s, t>>) = 2 /\ <<s, t>>[1] = s /\ <<s, t>>[2] = t
OBVIOUS

LEMMA BatchesAre == \A b \in Batches : b \in Seq(StepType) /\ Len(b) \in {1, 2}
<1>1. ElementSteps \cup PageSteps \cup LastSteps \subseteq StepType
  BY DEF ElementSteps, PageSteps, LastSteps, Step, StepType
<1>2. TAKE b \in Batches
<1>3. CASE \E s \in ElementSteps \cup PageSteps \cup LastSteps : b = <<s>>
  BY <1>1, <1>3, OneStep
<1>4. CASE \E s \in ElementSteps \cup PageSteps, t \in ElementSteps \cup PageSteps \cup LastSteps : b = <<s, t>>
  BY <1>1, <1>4, TwoSteps
<1>5. QED  BY <1>2, <1>3, <1>4 DEF Batches

LEMMA FieldsAre ==
    \A b \in Fields : b \in Seq(StepType) /\ Len(b) \in {1, 2} /\ \A i \in 1..Len(b) : b[i].by = "ref"
<1> DEFINE s == Step("ref", "single")
<1>1. s \in StepType /\ s.by = "ref"
  BY DEF Step, StepType
<1>2. <<s>> \in Seq(StepType) /\ Len(<<s>>) = 1 /\ <<s>>[1] = s
  BY <1>1, OneStep
<1>3. <<s, s>> \in Seq(StepType) /\ Len(<<s, s>>) = 2 /\ <<s, s>>[1] = s /\ <<s, s>>[2] = s
  BY <1>1, TwoSteps
<1>4. \A b \in Fields : b = <<s>> \/ b = <<s, s>>
  BY DEF Fields
<1>5. ASSUME NEW b \in Fields
      PROVE  b \in Seq(StepType) /\ Len(b) \in {1, 2} /\ \A i \in 1..Len(b) : b[i].by = "ref"
  <2>1. CASE b = <<s>>
    BY <1>1, <1>2, <2>1
  <2>2. CASE b = <<s, s>>
    BY <1>1, <1>3, <2>2
  <2>3. QED  BY <1>4, <1>5, <2>1, <2>2
<1>6. QED  BY <1>5

LEMMA RestingIs ==
    /\ Resting \in OpType /\ Resting.kind = "none" /\ Resting.at = "over" /\ Resting.index = 0 /\ Resting.done = 0
    /\ Resting.target = NoTarget /\ NoTarget \in TargetType
<1>1. NoTarget \in TargetType
  <2>1. PICK f \in BOOLEAN : f = FALSE
    BY Zenon
  <2>2. NoTarget = [document |-> 0, scripting |-> f]
    BY <2>1, Zenon DEF NoTarget
  <2>3. QED  BY <2>2 DEF TargetType
<1>2. PICK e \in Seq(StepType) : e = <<>>
  BY EmptySeq, Zenon
<1>3. Resting = [kind |-> "none", steps |-> e, index |-> 0, at |-> "over", expected |-> 0,
                 target |-> NoTarget, done |-> 0, read |-> {}]
  BY <1>2, Zenon DEF Resting
<1>4. QED  BY <1>1, <1>3 DEF OpType, OpPlaces

\* An operation that is over is none of its kinds.
LEMMA OpOver == ASSUME op' = Resting PROVE op' \in OpType /\ OpInv'
BY RestingIs DEF OpInv, OpShape, SnapshotReads, AimsAtView, EmailUntouched

\* What an answer leaves: no operation, and a verdict as bad as the input was.
LEMMA SaysIs ==
    ASSUME ActsInv, NEW outcome, NEW code, Says(outcome, code),
           outcome \in {"completed", "commit_required", "not_started", "unknown"},
           outcome = "not_started" =>
             /\ op.kind = "act" => op.done = 0 /\ op.at # "second"
             /\ op.kind = "email" => \/ DOMAIN reached = {}
                                     \/ code = "stale_ref" /\ op.target.scripting
    PROVE  /\ verdict'.outcome \in {"completed", "commit_required", "not_started", "unknown"}
           /\ EarlierInputAdmitted' /\ op' \in OpType /\ OpInv'
<1>1. PICK b : b = (op.at = "second")
  OBVIOUS
<1>2. PICK n : n = Len(reached)
  OBVIOUS
<1>10. PICK c : c = op.target.scripting
  OBVIOUS
<1>3. verdict' = [kind |-> op.kind, outcome |-> outcome, code |-> code, done |-> op.done,
                  reached |-> n, partly |-> b, scripted |-> c]
  BY <1>1, <1>2, <1>10, Zenon DEF Says
<1>4. /\ verdict'.outcome = outcome /\ verdict'.kind = op.kind /\ verdict'.done = op.done
      /\ verdict'.reached = n /\ verdict'.partly = b /\ verdict'.code = code /\ verdict'.scripted = c
  BY <1>3
<1>5. DOMAIN reached = {} => n = 0
  <2>1. reached \in Seq(InputType)
    BY DEF ActsInv, ActsData
  <2>2. Len(reached) \in Nat /\ DOMAIN reached = 1..Len(reached)
    BY <2>1, LenProperties
  <2>3. QED  BY <1>2, <2>2
<1>6. op.at # "second" => ~b
  BY <1>1, Zenon
<1>11. op.target.scripting => c
  BY <1>10, Zenon
<1>7. EarlierInputAdmitted'
  BY <1>4, <1>5, <1>6, <1>11 DEF EarlierInputAdmitted
<1>8. op' = Resting
  BY DEF Says
<1>9. QED  BY <1>4, <1>7, <1>8, OpOver

LEMMA FailsIs ==
    ASSUME ActsInv, NEW code, NEW told \in {"none", "not_started", "unknown"}, Fails(code, told),
           op.at \in {"second", "filled"} => told = "unknown"
    PROVE  /\ verdict'.outcome \in {"completed", "commit_required", "not_started", "unknown"}
           /\ EarlierInputAdmitted' /\ op' \in OpType /\ OpInv'
           /\ UNCHANGED <<view, reached, requests>>
<1>1. Says(Outcome(code, told), code) /\ UNCHANGED <<view, reached, requests>>
  BY DEF Fails
<1>2. op.done \in Nat
  BY DEF ActsInv, ActsData, OpType
<1>3. /\ Outcome(code, told) \in {"not_started", "unknown"}
      /\ op.kind = "act" /\ Outcome(code, told) = "not_started" => op.done = 0
      /\ told = "unknown" => Outcome(code, told) = "unknown"
  BY <1>2 DEF Outcome
<1>4. op.kind = "email" /\ op.at # "filled" => DOMAIN reached = {}
  BY DEF ActsInv, OpInv, EmailUntouched
<1>5. QED  BY <1>1, <1>3, <1>4, SaysIs

\* The world may be another, the refs and what they reached are what they were.
LEMMA RefsKept ==
    ASSUME ActsInv, UNCHANGED <<view, reached, allowed, refused, upsets, requests>>,
           loaded' \in PageDocuments, untold' \in Nat, untold' <= loaded' - 1,
           known' \in [revision : Nat, document : {0} \cup PageDocuments],
           verdict'.outcome \in {"none", "completed", "commit_required", "not_started", "unknown"},
           EarlierInputAdmitted', op' \in OpType, OpInv'
    PROVE  ActsInv'
<1>1. ActsData'
  BY DEF ActsInv, ActsData
<1>2. RefsNameWhatWasRead' /\ RefsActOnTheirDocument'
  BY DEF ActsInv, RefsNameWhatWasRead, RefsActOnTheirDocument
<1>3. QED  BY <1>1, <1>2 DEF ActsInv

LEMMA WorldKept ==
    ASSUME ActsInv, UNCHANGED world, UNCHANGED <<view, reached, requests>>,
           verdict'.outcome \in {"none", "completed", "commit_required", "not_started", "unknown"},
           EarlierInputAdmitted', op' \in OpType, OpInv'
    PROVE  ActsInv'
<1>1. UNCHANGED <<loaded, untold, known, allowed, refused, upsets>>
  BY DEF world
<1>2. /\ loaded \in PageDocuments /\ untold \in Nat /\ untold <= loaded - 1
      /\ known \in [revision : Nat, document : {0} \cup PageDocuments]
  BY DEF ActsInv, ActsData
<1>3. QED  BY <1>1, <1>2, RefsKept

\* An operation fails where nothing else changes.
LEMMA FailsInPlace ==
    ASSUME ActsInv, UNCHANGED world, NEW code, NEW told \in {"none", "not_started", "unknown"},
           Fails(code, told), op.at \in {"second", "filled"} => told = "unknown"
    PROVE  ActsInv'
BY FailsIs, WorldKept

\* An operation goes to its next await.
LEMMA GoesIs ==
    ASSUME ActsInv, NEW a \in OpPlaces, op' = [op EXCEPT !.at = a]
    PROVE  /\ op' \in OpType /\ op'.at = a
           /\ op'.kind = op.kind /\ op'.steps = op.steps /\ op'.index = op.index /\ op'.done = op.done
           /\ op'.target = op.target /\ op'.read = op.read /\ op'.expected = op.expected
<1>1. op \in OpType
  BY DEF ActsInv, ActsData
<1>2. QED  BY <1>1 DEF OpType

LEMMA GoesInPlace ==
    ASSUME ActsInv, UNCHANGED world, NEW a \in OpPlaces, Goes(a),
           op.kind \notin {"none", "snapshot"},
           op.kind = "email" => a \in {"enter", "check", "resolve", "recheck", "dispatch"} /\ op.at # "filled",
           a \in {"describe", "dispatch", "second", "reply", "recheck", "filled"} =>
             \/ op.at \in {"describe", "dispatch", "second", "reply", "recheck", "filled"}
             \/ CurrentStep.by # "ref"
    PROVE  ActsInv'
<1>1. op' = [op EXCEPT !.at = a] /\ UNCHANGED <<view, reached, verdict, requests>>
  BY DEF Goes
<1>2. /\ op' \in OpType /\ op'.at = a
      /\ op'.kind = op.kind /\ op'.steps = op.steps /\ op'.index = op.index /\ op'.done = op.done
      /\ op'.target = op.target
  BY <1>1, GoesIs
<1>3. OpShape' /\ SnapshotReads'
  BY <1>2 DEF ActsInv, OpInv, OpShape, SnapshotReads
<1>4. AimsAtView' /\ EmailUntouched'
  BY <1>1, <1>2 DEF ActsInv, OpInv, AimsAtView, EmailUntouched, CurrentStep
<1>5. QED  BY <1>1, <1>2, <1>3, <1>4, WorldKept DEF OpInv, ActsInv, ActsData, EarlierInputAdmitted

--------------------------------
(* The parts of an action: the next step, an input *)

LEMMA DocumentsAreNumbers ==
    PageDocuments \subseteq Nat /\ (\A d \in PageDocuments : 1 <= d) /\ (\A d \in {0} \cup PageDocuments : d \in Nat)
BY ActsConstants DEF PageDocuments

LEMMA OpTyped ==
    ASSUME ActsInv
    PROVE  /\ op.kind \in {"none", "snapshot", "act", "credentials", "email"} /\ op.at \in OpPlaces
           /\ op.steps \in Seq(StepType) /\ op.index \in Nat /\ op.done \in Nat /\ op.expected \in Nat
           /\ op.target \in TargetType /\ op.read \in SUBSET PageDocuments
           /\ Len(op.steps) \in Nat
<1>1. op \in OpType
  BY DEF ActsInv, ActsData
<1>2. op.steps \in Seq(StepType)
  BY <1>1 DEF OpType
<1>3. QED  BY <1>1, <1>2, LenProperties DEF OpType

LEMMA CurrentStepTyped ==
    ASSUME ActsInv, op.kind \notin {"none", "snapshot"}
    PROVE  /\ CurrentStep \in StepType /\ op.index \in 1..Len(op.steps) /\ op.done < op.index
           /\ op.kind \in {"credentials", "email"} => CurrentStep.by = "ref"
<1>1. /\ op.index \in 1..Len(op.steps) /\ op.done < op.index
      /\ op.kind \in {"credentials", "email"} => \A i \in 1..Len(op.steps) : op.steps[i].by = "ref"
  BY DEF ActsInv, OpInv, OpShape
<1>2. op.steps \in Seq(StepType) /\ Len(op.steps) \in Nat
  BY OpTyped
<1>3. op.steps[op.index] \in StepType
  BY <1>1, <1>2, ElementOfSeq
<1>4. QED  BY <1>1, <1>3 DEF CurrentStep

\* A completed step leads to the answer or to the check of the next step.
LEMMA StepDoneIs ==
    ASSUME ActsInv, StepDone, op.kind \in {"act", "credentials"}
    PROVE  /\ verdict'.outcome \in {"none", "completed", "commit_required", "not_started", "unknown"}
           /\ EarlierInputAdmitted' /\ op' \in OpType /\ OpInv'
<1>1. op \in OpType
  BY DEF ActsInv, ActsData
<1>2. /\ op.index \in Nat /\ op.done \in Nat /\ Len(op.steps) \in Nat
      /\ op.index \in 1..Len(op.steps) /\ op.done < op.index
  BY OpTyped, CurrentStepTyped
<1>3. CASE op.index = Len(op.steps)
  <2>1. op' = Resting /\ verdict'.outcome = "completed"
    <3>1. PICK b : b = FALSE
      OBVIOUS
    <3>2. PICK n : n = Len(reached)
      OBVIOUS
    <3>5. PICK c : c = op.target.scripting
      OBVIOUS
    <3>3. /\ verdict' = [kind |-> op.kind, outcome |-> "completed", code |-> "none",
                         done |-> op.done + 1, reached |-> n, partly |-> b, scripted |-> c]
          /\ op' = Resting
      BY <1>3, <3>1, <3>2, <3>5, Zenon DEF StepDone
    <3>4. QED  BY <3>3
  <2>2. QED  BY <2>1, OpOver DEF EarlierInputAdmitted
<1>4. CASE op.index # Len(op.steps)
  <2>1. /\ op' = [op EXCEPT !.done = @ + 1, !.index = @ + 1, !.at = "check", !.target = NoTarget]
        /\ verdict' = verdict
    BY <1>4 DEF StepDone
  <2>2. /\ op' \in OpType /\ op'.at = "check" /\ op'.kind = op.kind /\ op'.steps = op.steps
        /\ op'.index = op.index + 1 /\ op'.done = op.done + 1
    <3>1. PICK n \in Nat, i \in Nat : n = op.done + 1 /\ i = op.index + 1
      BY <1>2
    <3>2. NoTarget \in TargetType
      BY RestingIs
    <3>3. op' = [op EXCEPT !.done = n, !.index = i, !.at = "check", !.target = NoTarget]
      BY <2>1, <3>1
    <3>4. op' = [kind |-> op.kind, steps |-> op.steps, index |-> i, at |-> "check", expected |-> op.expected,
                 target |-> NoTarget, done |-> n, read |-> op.read]
      BY <1>1, <3>3 DEF OpType
    <3>5. op' \in OpType
      BY <3>2, <3>4, OpTyped DEF OpType, OpPlaces
    <3>6. QED  BY <3>1, <3>4, <3>5
  <2>3. OpShape'
    <3>1. op.kind \in {"credentials", "email"} => \A i \in 1..Len(op.steps) : op.steps[i].by = "ref"
      BY DEF ActsInv, OpInv, OpShape
    <3>2. op'.index \in 1..Len(op.steps) /\ op'.done < op'.index
      BY <1>2, <1>4, <2>2
    <3>3. QED  BY <2>2, <3>1, <3>2 DEF OpShape
  <2>4. SnapshotReads' /\ AimsAtView' /\ EmailUntouched'
    BY <2>2 DEF SnapshotReads, AimsAtView, EmailUntouched
  <2>5. QED  BY <2>1, <2>2, <2>3, <2>4 DEF ActsInv, ActsData, OpInv, EarlierInputAdmitted
<1>5. QED  BY <1>3, <1>4

\* One more input: aimed by a ref, it reached the document of the ref.
LEMMA InputIs ==
    ASSUME ActsInv, op.kind \notin {"none", "snapshot"}, NEW d \in PageDocuments, reached' = Input(d),
           view' = view, CurrentStep.by = "ref" => d = view.document
    PROVE  reached' \in Seq(InputType) /\ RefsActOnTheirDocument'
<1>1. PICK x \in InputType : x = [document |-> d, by |-> CurrentStep.by]
  BY CurrentStepTyped DEF StepType, InputType
<1>2. reached \in Seq(InputType)
  BY DEF ActsInv, ActsData
<1>3. reached' = Append(reached, x)
  BY <1>1, Zenon DEF Input
<1>4. /\ reached' \in Seq(InputType) /\ Len(reached) \in Nat /\ DOMAIN reached = 1..Len(reached)
      /\ DOMAIN reached' = 1..(Len(reached) + 1)
      /\ \A i \in 1..Len(reached) : reached'[i] = reached[i]
      /\ reached'[Len(reached) + 1] = x
  BY <1>2, <1>3, AppendProperties, LenProperties
<1>5. x.by = "ref" => x.document = view.document
  BY <1>1
<1>6. ASSUME NEW i \in DOMAIN reached', reached'[i].by = "ref" PROVE reached'[i].document = view'.document
  <2>1. CASE i \in 1..Len(reached)
    BY <1>4, <1>6, <2>1 DEF ActsInv, RefsActOnTheirDocument
  <2>2. CASE i = Len(reached) + 1
    BY <1>4, <1>5, <1>6, <2>2
  <2>3. QED  BY <1>4, <2>1, <2>2
<1>7. QED  BY <1>4, <1>6 DEF RefsActOnTheirDocument

LEMMA InputKept ==
    ASSUME ActsInv, UNCHANGED <<known, allowed, refused, upsets, view, requests>>,
           loaded' \in PageDocuments, untold' \in Nat, untold' <= loaded' - 1,
           reached' \in Seq(InputType), RefsActOnTheirDocument',
           verdict'.outcome \in {"none", "completed", "commit_required", "not_started", "unknown"},
           EarlierInputAdmitted', op' \in OpType, OpInv'
    PROVE  ActsInv'
<1>1. ActsData'
  BY DEF ActsInv, ActsData
<1>2. QED  BY <1>1 DEF ActsInv, RefsNameWhatWasRead

--------------------------------
(* The page and the worker's knowledge of it *)

\* A page that leaves goes to a later document: what was read before is still before it.
LEMMA PageLeavesStep == ASSUME ActsInv, PageLeaves PROVE ActsInv'
<1>1. /\ loaded \in PageDocuments /\ untold \in Nat /\ untold <= loaded - 1
      /\ known \in [revision : Nat, document : {0} \cup PageDocuments]
  BY DEF ActsInv, ActsData
<1>2. /\ loaded <= MaxNavigations /\ loaded' = loaded + 1 /\ untold' = untold + 1
      /\ UNCHANGED <<known, allowed, refused, upsets, view, op, reached, verdict, requests>>
  BY DEF PageLeaves
<1>3. loaded' \in PageDocuments /\ untold' \in Nat /\ untold' <= loaded' - 1
  BY <1>1, <1>2, ActsConstants DEF PageDocuments
<1>4. SnapshotReads'
  <2>1. op.read \subseteq Nat /\ op.target.document \in Nat /\ loaded \in Nat /\ loaded' \in Nat
    <3>1. op.read \subseteq PageDocuments /\ op.target \in TargetType
      BY OpTyped
    <3>2. op.target.document \in {0} \cup PageDocuments
      BY <3>1 DEF TargetType
    <3>3. op.read \subseteq Nat
      BY <3>1, DocumentsAreNumbers
    <3>4. op.target.document \in Nat /\ loaded \in Nat /\ loaded' \in Nat
      BY <1>1, <1>3, <3>2, DocumentsAreNumbers
    <3>5. QED  BY <3>3, <3>4
  <2>2. SnapshotReads
    BY DEF ActsInv, OpInv
  <2>3. QED  BY <1>2, <2>1, <2>2 DEF SnapshotReads
<1>5. OpShape' /\ AimsAtView' /\ EmailUntouched'
  BY <1>2 DEF ActsInv, OpInv, OpShape, AimsAtView, EmailUntouched, CurrentStep
<1>6. /\ verdict'.outcome \in {"none", "completed", "commit_required", "not_started", "unknown"}
      /\ EarlierInputAdmitted' /\ op' \in OpType
  BY <1>2 DEF ActsInv, ActsData, EarlierInputAdmitted
<1>7. QED  BY <1>1, <1>2, <1>3, <1>4, <1>5, <1>6, RefsKept DEF OpInv

LEMMA OpUnchanged ==
    ASSUME ActsInv, UNCHANGED <<loaded, view, op, reached, verdict>>
    PROVE  /\ verdict'.outcome \in {"none", "completed", "commit_required", "not_started", "unknown"}
           /\ EarlierInputAdmitted' /\ op' \in OpType /\ OpInv'
<1>1. OpShape' /\ SnapshotReads'
  BY DEF ActsInv, OpInv, OpShape, SnapshotReads
<1>2. AimsAtView' /\ EmailUntouched'
  BY DEF ActsInv, OpInv, AimsAtView, EmailUntouched, CurrentStep
<1>3. QED  BY <1>1, <1>2 DEF ActsInv, ActsData, OpInv, EarlierInputAdmitted

LEMMA HearLoadingStep == ASSUME ActsInv, HearLoading PROVE ActsInv'
<1>1. /\ loaded \in PageDocuments /\ untold \in Nat /\ untold <= loaded - 1
      /\ known.revision \in Nat
  BY DEF ActsInv, ActsData
<1>2. /\ untold > 0 /\ untold' = untold - 1 /\ known' = [revision |-> known.revision + 1, document |-> 0]
      /\ UNCHANGED <<loaded, allowed, refused, upsets, view, op, reached, verdict, requests>>
  BY DEF HearLoading
<1>3. /\ loaded' \in PageDocuments /\ untold' \in Nat /\ untold' <= loaded' - 1
      /\ known' \in [revision : Nat, document : {0} \cup PageDocuments]
  BY <1>1, <1>2, DocumentsAreNumbers
<1>4. QED  BY <1>2, <1>3, OpUnchanged, RefsKept

LEMMA UpsetStep == ASSUME ActsInv, Upset PROVE ActsInv'
<1>1. /\ upsets < MaxUpsets /\ upsets' = upsets + 1
      /\ UNCHANGED <<loaded, untold, known, view, op, reached, verdict, requests>>
  BY DEF Upset
<1>2. allowed' \in BOOLEAN /\ refused' \in BOOLEAN
  BY Zenon DEF Upset, ActsInv, ActsData
<1>3. upsets' \in 0..MaxUpsets
  BY <1>1, ActsConstants DEF ActsInv, ActsData
<1>4. ActsData'
  BY <1>1, <1>2, <1>3 DEF ActsInv, ActsData
<1>5. RefsNameWhatWasRead' /\ RefsActOnTheirDocument'
  BY <1>1 DEF ActsInv, RefsNameWhatWasRead, RefsActOnTheirDocument
<1>6. QED  BY <1>1, <1>4, <1>5, OpUnchanged DEF ActsInv

--------------------------------
(* Operations asked for *)

LEMMA AsksIs ==
    ASSUME ActsInv, NEW kind \in {"snapshot", "act", "credentials", "email"}, NEW steps \in Seq(StepType),
           Asks(kind, steps), NEW i \in {0, 1}, i = (IF steps = <<>> THEN 0 ELSE 1),
           kind = "snapshot" => i = 0, kind # "snapshot" => i \in 1..Len(steps),
           kind \in {"credentials", "email"} => \A j \in 1..Len(steps) : steps[j].by = "ref"
    PROVE  ActsInv'
<1>1. /\ op.kind = "none" /\ requests < MaxRequests /\ requests' = requests + 1
      /\ verdict' = NoVerdict /\ UNCHANGED <<loaded, untold, known, allowed, refused, upsets, view>>
  BY Zenon DEF Asks, world
<1>2. PICK q \in Seq(InputType) : q = <<>> /\ DOMAIN q = {}
  <2>1. /\ <<>> \in Seq(InputType) /\ DOMAIN <<>> = {}
    BY EmptySeq
  <2>2. QED  BY <2>1, Zenon
<1>3. reached' = q
  BY <1>2, Zenon DEF Asks
<1>4. op' = [Resting EXCEPT !.kind = kind, !.steps = steps, !.at = "enter", !.index = i,
                            !.expected = view.revision]
  BY Zenon DEF Asks
<1>5. /\ Resting \in OpType /\ Resting.target = NoTarget /\ Resting.done = 0
  BY RestingIs
<1>6. view \in ViewType /\ view.revision \in Nat
  BY DEF ActsInv, ActsData, ViewType
<1>7. op' = [kind |-> kind, steps |-> steps, index |-> i, at |-> "enter", expected |-> view.revision,
             target |-> Resting.target, done |-> Resting.done, read |-> Resting.read]
  BY <1>4, <1>5 DEF OpType
<1>8. op' \in OpType
  BY <1>5, <1>6, <1>7 DEF OpType, OpPlaces
<1>9. /\ op'.kind = kind /\ op'.steps = steps /\ op'.index = i /\ op'.done = 0 /\ op'.at = "enter"
  BY <1>5, <1>7
<1>10. OpShape'
  BY <1>9 DEF OpShape
<1>11. SnapshotReads' /\ AimsAtView' /\ EmailUntouched'
  BY <1>2, <1>3, <1>9 DEF SnapshotReads, AimsAtView, EmailUntouched
<1>12. verdict'.outcome = "none"
  <2>1. PICK b : b = FALSE
    OBVIOUS
  <2>2. verdict' = [kind |-> "none", outcome |-> "none", code |-> "none", done |-> 0, reached |-> 0,
                    partly |-> b, scripted |-> b]
    BY <1>1, <2>1, Zenon DEF NoVerdict
  <2>3. QED  BY <2>2
<1>13. requests' \in 0..MaxRequests
  BY <1>1, ActsConstants DEF ActsInv, ActsData
<1>14. ActsData'
  BY <1>1, <1>3, <1>8, <1>12, <1>13 DEF ActsInv, ActsData
<1>15. RefsNameWhatWasRead' /\ RefsActOnTheirDocument' /\ EarlierInputAdmitted'
  BY <1>1, <1>2, <1>3, <1>12 DEF ActsInv, RefsNameWhatWasRead, RefsActOnTheirDocument, EarlierInputAdmitted
<1>16. QED  BY <1>10, <1>11, <1>14, <1>15 DEF ActsInv, OpInv

LEMMA StartSnapshotStep == ASSUME ActsInv, StartSnapshot PROVE ActsInv'
<1>1. PICK e \in Seq(StepType) : e = <<>>
  BY EmptySeq, Zenon
<1>2. PICK i \in {0, 1} : i = 0 /\ i = (IF e = <<>> THEN 0 ELSE 1)
  BY <1>1, Zenon
<1>3. Asks("snapshot", e)
  BY <1>1, Zenon DEF StartSnapshot
<1>4. QED  BY <1>2, <1>3, AsksIs

LEMMA SomeSteps ==
    ASSUME NEW b \in Seq(StepType), Len(b) \in {1, 2}
    PROVE  \E i \in {0, 1} : i = 1 /\ i = (IF b = <<>> THEN 0 ELSE 1) /\ i \in 1..Len(b)
<1>1. b # <<>>
  BY EmptySeq
<1>2. 1 \in 1..Len(b)
  OBVIOUS
<1>3. QED  BY <1>1, <1>2, Zenon

LEMMA StartActStep == ASSUME ActsInv, StartAct PROVE ActsInv'
<1>1. PICK b \in Batches : Asks("act", b)
  BY Zenon DEF StartAct
<1>2. b \in Seq(StepType) /\ Len(b) \in {1, 2}
  BY BatchesAre
<1>3. PICK i \in {0, 1} : i = 1 /\ i = (IF b = <<>> THEN 0 ELSE 1) /\ i \in 1..Len(b)
  BY <1>2, SomeSteps
<1>4. QED  BY <1>1, <1>2, <1>3, AsksIs

LEMMA StartFillStep == ASSUME ActsInv, StartFill PROVE ActsInv'
<1>1. PICK b \in Fields, kind \in {"credentials", "email"} : Asks(kind, b)
  BY Zenon DEF StartFill
<1>2. b \in Seq(StepType) /\ Len(b) \in {1, 2} /\ \A j \in 1..Len(b) : b[j].by = "ref"
  BY FieldsAre
<1>3. PICK i \in {0, 1} : i = 1 /\ i = (IF b = <<>> THEN 0 ELSE 1) /\ i \in 1..Len(b)
  BY <1>2, SomeSteps
<1>4. QED  BY <1>1, <1>2, <1>3, AsksIs

--------------------------------
(* Snapshots *)

ReadOn(a, r, t, s) == [op EXCEPT !.at = a, !.expected = r, !.target = t, !.read = s]

\* A snapshot only changes itself until it is over.
LEMMA SnapshotOp ==
    ASSUME ActsInv, op.kind = "snapshot",
           NEW a \in {"observe", "read", "fallback", "after"}, NEW r \in Nat, NEW t \in TargetType,
           NEW s \in SUBSET PageDocuments, loaded' = loaded, reached' = reached,
           op' = ReadOn(a, r, t, s),
           a = "fallback" => ~t.scripting,
           ~t.scripting => t.document <= loaded,
           a \in {"fallback", "after"} /\ t.scripting => s \subseteq {t.document},
           a \in {"fallback", "after"} /\ ~t.scripting => \A d \in s : t.document <= d /\ d <= loaded
    PROVE  op' \in OpType /\ OpInv'
<1>1. op \in OpType
  BY DEF ActsInv, ActsData
<1>2. op' = [kind |-> op.kind, steps |-> op.steps, index |-> op.index, at |-> a, expected |-> r,
             target |-> t, done |-> op.done, read |-> s]
  BY <1>1 DEF OpType, ReadOn
<1>3. op' \in OpType
  BY <1>2, OpTyped DEF OpType, OpPlaces
<1>4. /\ op'.kind = "snapshot" /\ op'.index = op.index /\ op'.done = op.done /\ op'.at = a
      /\ op'.target = t /\ op'.read = s
  BY <1>2
<1>5. op.index = 0 /\ op.done = 0 /\ DOMAIN reached = {}
  BY DEF ActsInv, OpInv, OpShape, SnapshotReads
<1>6. OpShape' /\ AimsAtView' /\ EmailUntouched'
  BY <1>4, <1>5 DEF OpShape, AimsAtView, EmailUntouched
<1>7. SnapshotReads'
  BY <1>4, <1>5 DEF SnapshotReads
<1>8. QED  BY <1>3, <1>6, <1>7 DEF OpInv

LEMMA SnapshotIs ==
    ASSUME ActsInv
    PROVE  /\ loaded \in PageDocuments /\ loaded \in Nat /\ op.target.document \in {0} \cup PageDocuments
           /\ op.target.document \in Nat /\ op.target.scripting \in BOOLEAN
           /\ op.read \in SUBSET PageDocuments /\ op.expected \in Nat /\ op.target \in TargetType
           /\ known.revision \in Nat /\ known.document \in {0} \cup PageDocuments
           /\ view.document \in {0} \cup PageDocuments /\ view.scripting \in BOOLEAN /\ view.revision \in Nat
<1>1. op.target \in TargetType /\ op.read \in SUBSET PageDocuments /\ op.expected \in Nat
  BY OpTyped
<1>2. op.target.document \in {0} \cup PageDocuments /\ op.target.scripting \in BOOLEAN
  BY <1>1 DEF TargetType
<1>3. loaded \in PageDocuments /\ known.revision \in Nat /\ known.document \in {0} \cup PageDocuments
  BY DEF ActsInv, ActsData
<1>4. view.document \in {0} \cup PageDocuments /\ view.scripting \in BOOLEAN /\ view.revision \in Nat
  BY DEF ActsInv, ActsData, ViewType
<1>5. loaded \in Nat /\ op.target.document \in Nat
  BY <1>2, <1>3, DocumentsAreNumbers
<1>6. QED  BY <1>1, <1>2, <1>3, <1>4, <1>5

\* An operation that has no place past the dispatch fails as it is.
LEMMA FailsEarly ==
    ASSUME ActsInv, UNCHANGED world, NEW code, NEW told \in {"none", "not_started", "unknown"},
           Fails(code, told), op.at \notin {"second", "filled"}
    PROVE  ActsInv'
BY FailsInPlace

LEMMA IdentifyStep == ASSUME ActsInv, Identify PROVE ActsInv'
<1>1. op.kind = "snapshot" /\ op.at = "enter" /\ UNCHANGED world
  BY DEF Identify
<1>2. CASE ~allowed /\ Fails("ownership_revoked", "none")
  BY <1>1, <1>2, FailsEarly
<1>3. CASE /\ op' = [op EXCEPT !.at = IF refused THEN "read" ELSE "observe", !.expected = known.revision,
                               !.target = [document |-> IF refused THEN 0 ELSE loaded,
                                           scripting |-> refused]]
           /\ UNCHANGED <<view, reached, verdict, requests>>
  <2>1. PICK a \in {"observe", "read", "fallback", "after"} :
          a = (IF refused THEN "read" ELSE "observe") /\ a \in {"observe", "read"}
    OBVIOUS
  <2>2. PICK d \in {0} \cup PageDocuments : d = (IF refused THEN 0 ELSE loaded) /\ (~refused => d = loaded)
    BY SnapshotIs
  <2>3. refused \in BOOLEAN
    BY DEF ActsInv, ActsData
  <2>4. PICK t \in TargetType : t = [document |-> d, scripting |-> refused]
    BY <2>3 DEF TargetType
  <2>5. op' = [op EXCEPT !.at = a, !.expected = known.revision, !.target = t]
    BY <1>3, <2>1, <2>2, <2>4, Zenon
  <2>6. op \in OpType
    BY DEF ActsInv, ActsData
  <2>7. op' = ReadOn(a, known.revision, t, op.read)
    BY <2>5, <2>6 DEF OpType, ReadOn
  <2>8. ~t.scripting => t.document <= loaded
    BY <2>2, <2>4, SnapshotIs
  <2>9. loaded' = loaded
    BY <1>1 DEF world
  <2>10. op' \in OpType /\ OpInv'
    BY <1>1, <1>3, <2>1, <2>7, <2>8, <2>9, SnapshotIs, SnapshotOp
  <2>11. QED  BY <1>1, <1>3, <2>10, WorldKept DEF ActsInv, ActsData, EarlierInputAdmitted
<1>4. QED  BY <1>2, <1>3 DEF Identify

LEMMA NotedIs ==
    ASSUME ActsInv, NEW d \in {0} \cup PageDocuments
    PROVE  Noted(d) \in [revision : Nat, document : {0} \cup PageDocuments] /\ Noted(d).revision \in Nat
<1>1. known.revision \in Nat
  BY SnapshotIs
<1>2. PICK n \in Nat : n = known.revision + (IF known.document \in {0, d} THEN 0 ELSE 1)
  BY <1>1
<1>3. Noted(d) = [document |-> d, revision |-> n]
  BY <1>2, Zenon DEF Noted
<1>4. QED  BY <1>3

LEMMA ObserveDocumentStep == ASSUME ActsInv, ObserveDocument PROVE ActsInv'
<1>1. /\ op.kind = "snapshot" /\ op.at = "observe" /\ known' = Noted(op.target.document)
      /\ op' = [op EXCEPT !.at = "read", !.expected = known'.revision]
      /\ UNCHANGED <<loaded, untold, allowed, refused, upsets, view, reached, verdict, requests>>
  BY DEF ObserveDocument
<1>2. known' \in [revision : Nat, document : {0} \cup PageDocuments] /\ known'.revision \in Nat
  BY <1>1, SnapshotIs, NotedIs
<1>3. op \in OpType
  BY DEF ActsInv, ActsData
<1>4. op' = ReadOn("read", known'.revision, op.target, op.read)
  BY <1>1, <1>3 DEF OpType, ReadOn
<1>5. ~op.target.scripting => op.target.document <= loaded
  BY <1>1 DEF ActsInv, OpInv, SnapshotReads
<1>6. op' \in OpType /\ OpInv'
  BY <1>1, <1>2, <1>4, <1>5, SnapshotIs, SnapshotOp
<1>7. QED  BY <1>1, <1>2, <1>6, RefsKept DEF ActsInv, ActsData, EarlierInputAdmitted

LEMMA ReadNodesStep == ASSUME ActsInv, ReadNodes PROVE ActsInv'
<1>1. op.kind = "snapshot" /\ op.at = "read" /\ UNCHANGED world /\ loaded' = loaded
  BY DEF ReadNodes, world
<1>2. CASE ~allowed /\ Fails("ownership_revoked", "none")
  BY <1>1, <1>2, FailsEarly
<1>3. CASE ~op.target.scripting /\ refused /\ Fails("debugger_unavailable", "not_started")
  BY <1>1, <1>3, FailsEarly
<1>4. CASE /\ op' = [op EXCEPT !.at = IF op.target.scripting THEN "after" ELSE "fallback",
                               !.read = {loaded},
                               !.target.document = IF op.target.scripting THEN loaded ELSE @]
           /\ UNCHANGED <<view, reached, verdict, requests>>
  <2>1. PICK a \in {"observe", "read", "fallback", "after"} :
          /\ a = (IF op.target.scripting THEN "after" ELSE "fallback")
          /\ a = "fallback" => ~op.target.scripting
    OBVIOUS
  <2>2. PICK d \in {0} \cup PageDocuments :
          /\ d = (IF op.target.scripting THEN loaded ELSE op.target.document)
          /\ op.target.scripting => d = loaded
          /\ ~op.target.scripting => d = op.target.document
    BY SnapshotIs
  <2>3. PICK t \in TargetType : t = [document |-> d, scripting |-> op.target.scripting]
    BY SnapshotIs DEF TargetType
  <2>4. t = [op.target EXCEPT !.document = d]
    BY <2>3, SnapshotIs DEF TargetType
  <2>5. op' = [op EXCEPT !.at = a, !.read = {loaded}, !.target = t]
    <3>1. op' = [op EXCEPT !.at = a, !.read = {loaded}, !.target.document = d]
      BY <1>4, <2>1, <2>2, Zenon
    <3>2. QED  BY <2>4, <3>1
  <2>6. op \in OpType
    BY DEF ActsInv, ActsData
  <2>7. op' = ReadOn(a, op.expected, t, {loaded})
    BY <2>5, <2>6 DEF OpType, ReadOn
  <2>8. ~op.target.scripting => op.target.document <= loaded
    BY <1>1 DEF ActsInv, OpInv, SnapshotReads
  <2>9. /\ t.scripting = op.target.scripting /\ t.document = d
    BY <2>3
  <2>10. op' \in OpType /\ OpInv'
    BY <1>1, <1>4, <2>1, <2>2, <2>7, <2>8, <2>9, SnapshotIs, SnapshotOp
  <2>11. QED  BY <1>1, <1>4, <2>10, WorldKept DEF ActsInv, ActsData, EarlierInputAdmitted
<1>5. QED  BY <1>2, <1>3, <1>4 DEF ReadNodes

LEMMA ReadFallbackStep == ASSUME ActsInv, ReadFallback PROVE ActsInv'
<1>1. /\ op.kind = "snapshot" /\ op.at = "fallback" /\ UNCHANGED world /\ loaded' = loaded
      /\ op' = [op EXCEPT !.at = "after", !.read = IF allowed /\ ~refused THEN op.read \cup {loaded} ELSE op.read]
      /\ UNCHANGED <<view, reached, verdict, requests>>
  BY DEF ReadFallback, world
<1>2. PICK s : s = (IF allowed /\ ~refused THEN op.read \cup {loaded} ELSE op.read)
  OBVIOUS
<1>3. s \in SUBSET PageDocuments /\ s \subseteq op.read \cup {loaded}
  BY <1>2, SnapshotIs
<1>4. /\ ~op.target.scripting /\ op.target.document <= loaded
      /\ \A d \in op.read : op.target.document <= d /\ d <= loaded
  BY <1>1 DEF ActsInv, OpInv, SnapshotReads
<1>5. op \in OpType
  BY DEF ActsInv, ActsData
<1>6. op' = ReadOn("after", op.expected, op.target, s)
  <2>1. op' = [op EXCEPT !.at = "after", !.read = s]
    BY <1>1, <1>2, Zenon
  <2>2. QED  BY <1>5, <2>1 DEF OpType, ReadOn
<1>7. \A d \in s : op.target.document <= d /\ d <= loaded
  BY <1>3, <1>4, SnapshotIs
<1>8. op' \in OpType /\ OpInv'
  BY <1>1, <1>3, <1>4, <1>6, <1>7, SnapshotIs, SnapshotOp
<1>9. QED  BY <1>1, <1>8, WorldKept DEF ActsInv, ActsData, EarlierInputAdmitted

\* The refs are minted where the document is still the one of the beginning, and what was
\* read between the two readings of it is that document.
LEMMA MintRefsStep == ASSUME ActsInv, MintRefs PROVE ActsInv'
<1>1. /\ op.kind = "snapshot" /\ op.at = "after"
      /\ UNCHANGED <<loaded, untold, allowed, refused, upsets>>
  BY DEF MintRefs
<1>2. known' \in [revision : Nat, document : {0} \cup PageDocuments]
  <2>1. known' = Noted(loaded) \/ known' = known
    BY Zenon DEF MintRefs
  <2>2. known \in [revision : Nat, document : {0} \cup PageDocuments]
    BY DEF ActsInv, ActsData
  <2>3. QED  BY <2>1, <2>2, SnapshotIs, NotedIs
<1>3. /\ loaded' \in PageDocuments /\ untold' \in Nat /\ untold' <= loaded' - 1
  BY <1>1 DEF ActsInv, ActsData
<1>4. ASSUME NEW told \in {"none", "not_started", "unknown"}, Fails(Refused, told) PROVE ActsInv'
  BY <1>1, <1>2, <1>3, <1>4, FailsIs, RefsKept
<1>5. CASE Refused # "ok"
  <2>1. PICK told \in {"none", "not_started", "unknown"} :
          told = (IF Refused = "debugger_unavailable" THEN "not_started" ELSE "none")
    OBVIOUS
  <2>2. Fails(Refused, told)
    BY <1>5, <2>1, Zenon DEF MintRefs
  <2>3. QED  BY <1>4, <2>2
<1>6. CASE Refused = "ok"
  <2>1. /\ view' = [document |-> op.target.document, scripting |-> op.target.scripting,
                    revision |-> op.expected, read |-> op.read]
        /\ Says("completed", "none") /\ UNCHANGED <<reached, requests>>
    BY <1>6, Zenon DEF MintRefs
  <2>2. op.read \subseteq {op.target.document}
    <3>1. CASE op.target.scripting
      BY <1>1, <3>1 DEF ActsInv, OpInv, SnapshotReads
    <3>2. CASE ~op.target.scripting
      <4>1. loaded = op.target.document
        BY <1>6, <3>2 DEF Refused
      <4>2. \A d \in op.read : op.target.document <= d /\ d <= loaded
        BY <1>1, <3>2 DEF ActsInv, OpInv, SnapshotReads
      <4>3. op.read \subseteq Nat /\ loaded \in Nat
        BY SnapshotIs, DocumentsAreNumbers
      <4>4. QED  BY <4>1, <4>2, <4>3
    <3>3. QED  BY <3>1, <3>2
  <2>3. view' \in ViewType /\ view'.read = op.read /\ view'.document = op.target.document
    BY <2>1, SnapshotIs DEF ViewType
  <2>4. /\ verdict'.outcome \in {"completed", "commit_required", "not_started", "unknown"}
        /\ EarlierInputAdmitted' /\ op' \in OpType /\ OpInv'
    <3>1. Says("completed", "none")
      BY <2>1
    <3>2. QED  BY <3>1, SaysIs
  <2>5. RefsNameWhatWasRead'
    BY <2>2, <2>3 DEF RefsNameWhatWasRead
  <2>6. RefsActOnTheirDocument'
    BY <1>1, <2>1 DEF ActsInv, OpInv, SnapshotReads, RefsActOnTheirDocument
  <2>7. ActsData'
    BY <1>1, <1>2, <1>3, <2>1, <2>3, <2>4 DEF ActsInv, ActsData
  <2>8. QED  BY <2>4, <2>5, <2>6, <2>7 DEF ActsInv
<1>7. QED  BY <1>5, <1>6

--------------------------------
(* Batches and fills *)

LEMMA EnterStep == ASSUME ActsInv, Enter PROVE ActsInv'
<1>1. op.kind \notin {"none", "snapshot"} /\ op.at = "enter" /\ UNCHANGED world
  BY DEF Enter
<1>2. CASE Fails("ownership_revoked", "none") \/ Fails("stale_revision", "none")
  BY <1>1, <1>2, FailsEarly
<1>3. CASE Goes("check")
  BY <1>1, <1>3, GoesInPlace DEF OpPlaces
<1>4. QED  BY <1>2, <1>3 DEF Enter

\* What acts is past asking and reading.
LEMMA ActsAt ==
    ASSUME ActsInv, op.at \in {"check", "resolve", "describe", "dispatch", "second", "reply", "recheck", "filled"}
    PROVE  op.kind \in {"act", "credentials", "email"}
BY OpTyped DEF ActsInv, OpInv, OpShape, SnapshotReads

LEMMA CheckStep == ASSUME ActsInv, Check PROVE ActsInv'
<1>1. op.at = "check" /\ UNCHANGED world
  BY DEF Check
<1>2. op.kind \in {"act", "credentials", "email"}
  BY <1>1, ActsAt
<1>3. CASE Fails("stale_revision", "none")
  BY <1>1, <1>3, FailsEarly
<1>4. CASE Goes(IF CurrentStep.by = "none" THEN "dispatch" ELSE "resolve")
  <2>1. CASE CurrentStep.by = "none"
    BY <1>1, <1>2, <1>4, <2>1, GoesInPlace DEF OpPlaces
  <2>2. CASE CurrentStep.by # "none"
    BY <1>1, <1>2, <1>4, <2>2, GoesInPlace DEF OpPlaces
  <2>3. QED  BY <2>1, <2>2
<1>5. QED  BY <1>3, <1>4 DEF Check

LEMMA NotFoundEarly ==
    ASSUME ActsInv, UNCHANGED world, NEW t, NotFound(t), op.at \notin {"second", "filled"}
    PROVE  ActsInv'
<1>1. PICK told \in {"none", "not_started", "unknown"} :
        told = (IF Found(t) = "debugger_unavailable" THEN "not_started" ELSE "none")
  OBVIOUS
<1>2. Fails(Found(t), told)
  BY <1>1, Zenon DEF NotFound
<1>3. QED  BY <1>2, FailsEarly

LEMMA FoundIs == ASSUME NEW t, Found(t) = "ok" PROVE loaded = t.document
BY DEF Found

\* The target of a ref is its document.
LEMMA ResolveStep == ASSUME ActsInv, Resolve PROVE ActsInv'
<1>1. op.at = "resolve" /\ UNCHANGED world
  BY DEF Resolve
<1>2. op.kind \in {"act", "credentials", "email"}
  BY <1>1, ActsAt
<1> DEFINE target == IF CurrentStep.by = "ref"
                     THEN [document |-> view.document, scripting |-> view.scripting]
                     ELSE [document |-> loaded, scripting |-> refused]
           next == CASE op.kind = "act" -> "describe"
                     [] op.kind = "credentials" -> "dispatch"
                     [] op.kind = "email" -> IF op.index < Len(op.steps) THEN "again" ELSE "recheck"
<1>3. /\ op.kind = "act" => next = "describe"
      /\ op.kind = "credentials" => next = "dispatch"
      /\ op.kind = "email" /\ op.index < Len(op.steps) => next = "again"
      /\ op.kind = "email" /\ ~(op.index < Len(op.steps)) => next = "recheck"
  BY <1>2
<1>4. target \in TargetType /\ (CurrentStep.by = "ref" => target.document = view.document)
  <2>1. refused \in BOOLEAN
    BY DEF ActsInv, ActsData
  <2>2. CASE CurrentStep.by = "ref"
    BY <2>2, SnapshotIs DEF TargetType
  <2>3. CASE CurrentStep.by # "ref"
    BY <2>1, <2>3, SnapshotIs DEF TargetType
  <2>4. QED  BY <2>2, <2>3
<1>5. op \in OpType /\ op.index \in 1..Len(op.steps) /\ op.done < op.index /\ Len(op.steps) \in Nat
      /\ op.done \in Nat /\ op.index \in Nat
  BY <1>2, OpTyped, CurrentStepTyped DEF ActsInv, ActsData
<1>6. CASE NotFound(target)
  <2>1. PICK t : t = target
    OBVIOUS
  <2>2. NotFound(t)
    BY <1>6, <2>1
  <2>3. QED  BY <1>1, <2>2, NotFoundEarly
<1>7. CASE /\ op' = (IF next = "again" THEN [op EXCEPT !.index = @ + 1, !.at = "check"]
                     ELSE [op EXCEPT !.at = next, !.target = target])
           /\ UNCHANGED <<view, reached, verdict, requests>>
  <2>1. PICK t \in TargetType : t = target /\ (CurrentStep.by = "ref" => t.document = view.document)
    BY <1>4
  <2>2. CASE op.kind = "email" /\ op.index < Len(op.steps)
    <3>1. PICK i \in Nat : i = op.index + 1
      BY <1>5
    <3>2. op' = [op EXCEPT !.index = i, !.at = "check"]
      BY <1>3, <1>7, <2>2, <3>1
    <3>3. /\ op' \in OpType /\ op'.at = "check" /\ op'.kind = op.kind /\ op'.steps = op.steps
          /\ op'.index = i /\ op'.done = op.done
      BY <1>5, <3>2 DEF OpType, OpPlaces
    <3>4. op'.index \in 1..Len(op.steps) /\ op'.done < op'.index
      <4>1. i \in 1..Len(op.steps) /\ op.done < i
        BY <1>5, <2>2, <3>1
      <4>2. QED  BY <3>3, <4>1
    <3>5. OpShape'
      <4>1. \A j \in 1..Len(op.steps) : op.steps[j].by = "ref"
        BY <2>2 DEF ActsInv, OpInv, OpShape
      <4>2. QED  BY <2>2, <3>3, <3>4, <4>1 DEF OpShape
    <3>6. SnapshotReads' /\ AimsAtView' /\ EmailUntouched'
      <4>1. op.at # "filled" /\ op'.kind = "email"
        BY <1>1, <2>2, <3>3
      <4>2. DOMAIN reached = {}
        BY <2>2, <4>1 DEF ActsInv, OpInv, EmailUntouched
      <4>3. QED  BY <1>7, <3>3, <4>1, <4>2 DEF SnapshotReads, AimsAtView, EmailUntouched
    <3>7. QED  BY <1>1, <1>7, <3>3, <3>5, <3>6, WorldKept DEF OpInv, ActsInv, ActsData, EarlierInputAdmitted
  <2>3. CASE ~(op.kind = "email" /\ op.index < Len(op.steps))
    <3>1. PICK a \in {"describe", "dispatch", "recheck"} :
            a = next /\ (op.kind = "email" => a = "recheck")
      BY <1>2, <1>3, <2>3
    <3>2. op' = [op EXCEPT !.at = a, !.target = t]
      BY <1>7, <2>1, <3>1
    <3>3. /\ op' \in OpType /\ op'.at = a /\ op'.kind = op.kind /\ op'.steps = op.steps
          /\ op'.index = op.index /\ op'.done = op.done /\ op'.target = t
      BY <1>5, <3>2 DEF OpType, OpPlaces
    <3>4. OpShape' /\ SnapshotReads'
      BY <1>2, <3>3 DEF ActsInv, OpInv, OpShape, SnapshotReads
    <3>5. AimsAtView'
      BY <1>7, <2>1, <3>3 DEF AimsAtView, CurrentStep
    <3>6. EmailUntouched'
      BY <1>1, <1>7, <3>1, <3>3 DEF ActsInv, OpInv, EmailUntouched
    <3>7. QED  BY <1>1, <1>7, <3>3, <3>4, <3>5, <3>6, WorldKept DEF OpInv, ActsInv, ActsData, EarlierInputAdmitted
  <2>4. QED  BY <2>2, <2>3
<1>8. QED  BY <1>6, <1>7, Zenon DEF Resolve

LEMMA DescribeStep == ASSUME ActsInv, Describe PROVE ActsInv'
<1>1. op.at = "describe" /\ UNCHANGED world
  BY DEF Describe
<1>2. op.kind \in {"act", "credentials", "email"} /\ op.kind # "email"
  BY <1>1, ActsAt DEF ActsInv, OpInv, EmailUntouched
<1>3. CASE NotFound(op.target)
  BY <1>1, <1>3, NotFoundEarly
<1>4. CASE Fails("invalid_request", "none")
  BY <1>1, <1>4, FailsEarly
<1>5. CASE Says("commit_required", "none") /\ UNCHANGED <<view, reached, requests>>
  BY <1>1, <1>5, SaysIs, WorldKept
<1>6. CASE Goes("dispatch")
  BY <1>1, <1>2, <1>6, GoesInPlace DEF OpPlaces
<1>7. QED  BY <1>3, <1>4, <1>5, <1>6 DEF Describe

--------------------------------
(* Input *)

LEMMA TargetIsView ==
    ASSUME ActsInv, op.at \in {"dispatch", "second", "filled"}, op.kind # "none", CurrentStep.by = "ref",
           Found(op.target) = "ok"
    PROVE  loaded = view.document
<1>1. op.kind \in {"act", "credentials", "email"}
  BY ActsAt
<1>2. op.target.document = view.document
  BY <1>1 DEF ActsInv, OpInv, AimsAtView
<1>3. QED  BY <1>2, FoundIs

\* The input reached the page, and its operation goes to its next await.
LEMMA InputGoes ==
    ASSUME ActsInv, UNCHANGED world, NEW a \in {"second", "reply", "filled"},
           op.at \in {"dispatch", "second"}, op.kind # "none",
           Found(op.target) = "ok", reached' = Input(loaded), op' = [op EXCEPT !.at = a],
           UNCHANGED <<view, verdict, requests>>, op.kind = "email" => a = "filled"
    PROVE  ActsInv'
<1>1. op.kind \in {"act", "credentials", "email"}
  BY ActsAt
<1>2. reached' \in Seq(InputType) /\ RefsActOnTheirDocument'
  BY <1>1, SnapshotIs, TargetIsView, InputIs
<1>3. /\ op' \in OpType /\ op'.at = a
      /\ op'.kind = op.kind /\ op'.steps = op.steps /\ op'.index = op.index /\ op'.done = op.done
      /\ op'.target = op.target
  BY GoesIs DEF OpPlaces
<1>4. OpShape' /\ SnapshotReads'
  BY <1>1, <1>3 DEF ActsInv, OpInv, OpShape, SnapshotReads
<1>5. AimsAtView' /\ EmailUntouched'
  BY <1>1, <1>3 DEF ActsInv, OpInv, AimsAtView, EmailUntouched, CurrentStep
<1>6. /\ UNCHANGED <<loaded, untold, known, allowed, refused, upsets>>
      /\ loaded \in PageDocuments /\ untold \in Nat /\ untold <= loaded - 1
  BY DEF world, ActsInv, ActsData
<1>7. /\ verdict'.outcome \in {"none", "completed", "commit_required", "not_started", "unknown"}
      /\ EarlierInputAdmitted'
  BY DEF ActsInv, ActsData, EarlierInputAdmitted
<1>8. QED  BY <1>2, <1>3, <1>4, <1>5, <1>6, <1>7, InputKept DEF OpInv

LEMMA DispatchToElementStep == ASSUME ActsInv, DispatchToElement PROVE ActsInv'
<1>1. op.at = "dispatch" /\ op.kind # "email" /\ UNCHANGED world
  BY DEF DispatchToElement
<1>2. op.kind \in {"act", "credentials", "email"} /\ op.kind # "none"
  BY <1>1, ActsAt
<1>3. CASE NotFound(op.target)
  BY <1>1, <1>3, NotFoundEarly
<1>4. CASE Fails("invalid_request", "none")
  BY <1>1, <1>4, FailsEarly
<1>5. CASE /\ Found(op.target) = "ok" /\ reached' = Input(loaded)
           /\ op' = [op EXCEPT !.at = IF CurrentStep.gesture = "multi" /\ ~op.target.scripting
                                      THEN "second" ELSE "reply"]
           /\ UNCHANGED <<view, verdict, requests>>
  <2>1. PICK a \in {"second", "reply", "filled"} :
          a = (IF CurrentStep.gesture = "multi" /\ ~op.target.scripting THEN "second" ELSE "reply")
    OBVIOUS
  <2>2. op' = [op EXCEPT !.at = a]
    BY <1>5, <2>1, Zenon
  <2>3. QED  BY <1>1, <1>2, <1>5, <2>2, InputGoes
<1>6. QED  BY <1>3, <1>4, <1>5 DEF DispatchToElement

\* What is asked of the tab is aimed by no ref.
LEMMA DispatchToTabStep == ASSUME ActsInv, DispatchToTab PROVE ActsInv'
<1>1. op.at = "dispatch" /\ CurrentStep.by = "none" /\ UNCHANGED <<known, allowed, refused, upsets>>
  BY DEF DispatchToTab
<1>2. op.kind \in {"act", "credentials", "email"}
  BY <1>1, ActsAt
<1>3. op.kind = "act"
  BY <1>1, <1>2, CurrentStepTyped
<1>4. loaded \in PageDocuments /\ untold \in Nat /\ untold <= loaded - 1
  BY DEF ActsInv, ActsData
<1>5. CASE ~allowed /\ Fails("ownership_revoked", "none") /\ UNCHANGED <<loaded, untold>>
  <2>1. UNCHANGED world
    BY <1>1, <1>5 DEF world
  <2>2. QED  BY <1>1, <1>5, <2>1, FailsEarly
<1>6. CASE /\ reached' = Input(loaded)
           /\ IF CurrentStep.gesture = "navigate" /\ loaded <= MaxNavigations
              THEN loaded' = loaded + 1 /\ untold' = untold + 1
              ELSE UNCHANGED <<loaded, untold>>
           /\ StepDone /\ UNCHANGED <<view, requests>>
  <2>1. reached' \in Seq(InputType) /\ RefsActOnTheirDocument'
    BY <1>1, <1>2, <1>4, <1>6, InputIs
  <2>2. loaded' \in PageDocuments /\ untold' \in Nat /\ untold' <= loaded' - 1
    BY <1>4, <1>6, ActsConstants DEF PageDocuments
  <2>3. /\ verdict'.outcome \in {"none", "completed", "commit_required", "not_started", "unknown"}
        /\ EarlierInputAdmitted' /\ op' \in OpType /\ OpInv'
    BY <1>3, <1>6, StepDoneIs
  <2>4. QED  BY <1>1, <1>6, <2>1, <2>2, <2>3, InputKept
<1>7. QED  BY <1>5, <1>6 DEF DispatchToTab

LEMMA SecondEventStep == ASSUME ActsInv, SecondEvent PROVE ActsInv'
<1>1. op.at = "second" /\ UNCHANGED world
  BY DEF SecondEvent
<1>2. op.kind \in {"act", "credentials"}
  BY <1>1, ActsAt DEF ActsInv, OpInv, EmailUntouched
<1>3. ASSUME NEW code, Fails(code, "unknown") PROVE ActsInv'
  BY <1>1, <1>3, FailsInPlace
<1>4. CASE Found(op.target) = "ok" /\ reached' = Input(loaded) /\ StepDone /\ UNCHANGED <<view, requests>>
  <2>1. reached' \in Seq(InputType) /\ RefsActOnTheirDocument'
    BY <1>1, <1>2, <1>4, SnapshotIs, TargetIsView, InputIs
  <2>2. /\ verdict'.outcome \in {"none", "completed", "commit_required", "not_started", "unknown"}
        /\ EarlierInputAdmitted' /\ op' \in OpType /\ OpInv'
    BY <1>2, <1>4, StepDoneIs
  <2>3. /\ UNCHANGED <<loaded, untold, known, allowed, refused, upsets>>
        /\ loaded \in PageDocuments /\ untold \in Nat /\ untold <= loaded - 1
    BY <1>1 DEF world, ActsInv, ActsData
  <2>4. QED  BY <1>4, <2>1, <2>2, <2>3, InputKept
<1>5. QED  BY <1>3, <1>4 DEF SecondEvent

LEMMA HearReplyStep == ASSUME ActsInv, HearReply PROVE ActsInv'
<1>1. op.at = "reply" /\ UNCHANGED world
  BY DEF HearReply
<1>2. op.kind \in {"act", "credentials"}
  BY <1>1, ActsAt DEF ActsInv, OpInv, EmailUntouched
<1>3. CASE Fails("action_failed", "none") \/ Fails("stale_ref", "none")
  BY <1>1, <1>3, FailsEarly
<1>4. CASE StepDone /\ UNCHANGED <<view, reached, requests>>
  BY <1>1, <1>2, <1>4, StepDoneIs, WorldKept
<1>5. QED  BY <1>3, <1>4 DEF HearReply

LEMMA RecheckStep == ASSUME ActsInv, Recheck PROVE ActsInv'
<1>1. op.at = "recheck" /\ UNCHANGED world
  BY DEF Recheck
<1>2. op.kind \in {"act", "credentials", "email"}
  BY <1>1, ActsAt
<1>3. CASE Fails("stale_revision", "not_started") \/ Fails("invalid_request", "not_started")
  BY <1>1, <1>3, FailsEarly
<1>4. CASE Goes("dispatch")
  BY <1>1, <1>2, <1>4, GoesInPlace DEF OpPlaces
<1>5. QED  BY <1>3, <1>4 DEF Recheck

LEMMA FillCodeStep == ASSUME ActsInv, FillCode PROVE ActsInv'
<1>1. op.kind = "email" /\ op.at = "dispatch" /\ UNCHANGED world
  BY DEF FillCode
<1>2. ASSUME NEW code, Fails(code, "not_started") PROVE ActsInv'
  BY <1>1, <1>2, FailsEarly
<1>3. CASE /\ Found(op.target) = "ok" /\ reached' = Input(loaded)
           /\ op' = [op EXCEPT !.at = "filled"] /\ UNCHANGED <<view, verdict, requests>>
  BY <1>1, <1>3, InputGoes
<1>4. QED  BY <1>2, <1>3 DEF FillCode

LEMMA HearFilledStep == ASSUME ActsInv, HearFilled PROVE ActsInv'
<1>1. op.at = "filled" /\ UNCHANGED world
  BY DEF HearFilled
<1>2. CASE Fails("action_failed", "unknown")
  BY <1>1, <1>2, FailsInPlace
<1>3. CASE Says("completed", "none") /\ UNCHANGED <<view, reached, requests>>
  BY <1>1, <1>3, SaysIs, WorldKept
<1>4. CASE op.target.scripting /\ Fails("stale_ref", "none")
  <2>1. /\ Says(Outcome("stale_ref", "none"), "stale_ref") /\ UNCHANGED <<view, reached, requests>>
        /\ Outcome("stale_ref", "none") \in {"not_started", "unknown"}
        /\ op.kind = "act" /\ Outcome("stale_ref", "none") = "not_started" => op.done = 0
    BY <1>4 DEF Fails, Outcome, ActsInv, ActsData, OpType
  <2>2. QED  BY <1>1, <1>4, <2>1, SaysIs, WorldKept
<1>5. QED  BY <1>2, <1>3, <1>4 DEF HearFilled

--------------------------------
(* The theorem *)

LEMMA ActsInvHoldsFirst == ActsInit => ActsInv
<1> SUFFICES ASSUME ActsInit PROVE ActsInv
  OBVIOUS
<1>1. /\ loaded = 1 /\ untold = 0 /\ known = [revision |-> 1, document |-> 0]
      /\ upsets = 0 /\ view = NoView /\ op = Resting /\ requests = 0 /\ verdict = NoVerdict
  BY Zenon DEF ActsInit
<1>2. allowed \in BOOLEAN /\ refused \in BOOLEAN
  BY Zenon DEF ActsInit
<1>3. PICK q \in Seq(InputType) : q = <<>> /\ DOMAIN q = {}
  <2>1. <<>> \in Seq(InputType) /\ DOMAIN <<>> = {}
    BY EmptySeq
  <2>2. QED  BY <2>1, Zenon
<1>4. reached = q
  BY <1>3, Zenon DEF ActsInit
<1>5. verdict.outcome = "none"
  <2>1. PICK b : b = FALSE
    OBVIOUS
  <2>2. verdict = [kind |-> "none", outcome |-> "none", code |-> "none", done |-> 0, reached |-> 0,
                   partly |-> b, scripted |-> b]
    BY <1>1, <2>1, Zenon DEF NoVerdict
  <2>3. QED  BY <2>2
<1>6. view \in ViewType /\ view.read = {} /\ view.document = 0
  <2>1. PICK f \in BOOLEAN : f = FALSE
    BY Zenon
  <2>2. view = [document |-> 0, scripting |-> f, revision |-> 0, read |-> {}]
    BY <1>1, <2>1, Zenon DEF NoView
  <2>3. QED  BY <2>2 DEF ViewType
<1>7. op \in OpType /\ OpInv
  BY <1>1, RestingIs DEF OpInv, OpShape, SnapshotReads, AimsAtView, EmailUntouched
<1>8. loaded \in PageDocuments /\ upsets \in 0..MaxUpsets /\ requests \in 0..MaxRequests
  BY <1>1, ActsConstants DEF PageDocuments
<1>9. ActsData
  BY <1>1, <1>2, <1>3, <1>4, <1>5, <1>6, <1>7, <1>8 DEF ActsData
<1>10. RefsNameWhatWasRead /\ RefsActOnTheirDocument /\ EarlierInputAdmitted
  BY <1>3, <1>4, <1>5, <1>6 DEF RefsNameWhatWasRead, RefsActOnTheirDocument, EarlierInputAdmitted
<1>11. QED  BY <1>7, <1>9, <1>10 DEF ActsInv

LEMMA ActsInvIsKept == ActsInv /\ [ActsNext]_actVars => ActsInv'
<1> SUFFICES ASSUME ActsInv, [ActsNext]_actVars PROVE ActsInv'
  OBVIOUS
<1>1. CASE ActsNext
  BY <1>1, PageLeavesStep, HearLoadingStep, UpsetStep, StartSnapshotStep, IdentifyStep, ObserveDocumentStep,
     ReadNodesStep, ReadFallbackStep, MintRefsStep, StartActStep, StartFillStep, EnterStep, CheckStep,
     ResolveStep, DescribeStep, DispatchToElementStep, DispatchToTabStep, SecondEventStep, HearReplyStep,
     RecheckStep, FillCodeStep, HearFilledStep, Zenon DEF ActsNext
<1>2. CASE UNCHANGED actVars
  <2>1. UNCHANGED <<loaded, untold, known, allowed, refused, upsets, view, op, reached, verdict, requests>>
    BY <1>2 DEF actVars
  <2>2. ActsData'
    BY <2>1 DEF ActsInv, ActsData
  <2>3. RefsNameWhatWasRead' /\ RefsActOnTheirDocument'
    BY <2>1 DEF ActsInv, RefsNameWhatWasRead, RefsActOnTheirDocument
  <2>4. QED  BY <2>1, <2>2, <2>3, OpUnchanged DEF ActsInv
<1>3. QED  BY <1>1, <1>2

\* However often the page navigates between the awaits of a command and however late the
\* worker hears of it, a snapshot mints its refs from one document (captureSnapshot), the
\* input of act and of fillCredentials that a ref aims reaches that document and no other
\* (resolveTarget, runPageAgent), and a batch that fails after a step of it was completed
\* (batchStepFailure) is never answered not_started; a code fill that wrote is so only as
\* the stale ref that inDocument makes of a lost document on the scripting route.
THEOREM PageCommandsActOnWhatWasSeen == ActsSpec => []RefsAreCurrent
<1>1. ActsSpec => []ActsInv
  BY ActsInvHoldsFirst, ActsInvIsKept, PTL DEF ActsSpec
<1>2. QED  BY <1>1, ActsInvIsEnough, PTL

--------------------------------
(* PageSettling: the events of a tab come in the order in which Chrome dispatched them,   *)
(* so what is heard of the end of a load, or of the tab's, is the last of it              *)

OpeningPlaces == {"idle", "granting", "settling", "barrier", "describing", "answered", "not_started",
                  "unknown"}
ActingPlaces == {"idle", "begun", "draining", "looking", "waiting", "draining_again", "observing",
                 "answered", "unchanged"}
OpeningType == [at : OpeningPlaces, mode : {"create", "adopt"}, released : BOOLEAN, passed : BOOLEAN,
                late : BOOLEAN, revision : Nat]
ActingType == [at : ActingPlaces, started : BOOLEAN, loaded : BOOLEAN, passed : BOOLEAN, late : BOOLEAN,
               quiet : BOOLEAN, starts : Nat, waited : BOOLEAN, revision : Nat]

Has(seq, e) == \E i \in DOMAIN seq : seq[i] = e
InQueue(e) == Has(eventQueue, e)
InChrome(e) == Has(chromeEvents, e)
Coming(e) == InQueue(e) \/ InChrome(e)

\* An f that comes after an e.
InOrder(seq, e, f) == \E i, j \in DOMAIN seq : i < j /\ seq[i] = e /\ seq[j] = f
Follows(e, f) == \/ InOrder(eventQueue, e, f) \/ InOrder(chromeEvents, e, f)
                 \/ (InQueue(e) /\ InChrome(f))

CountOf(seq, y) == Cardinality({i \in DOMAIN seq : seq[i] = y})
CountIn(seq) == CountOf(seq, "loading")
Granted == opening.at \notin {"idle", "granting"}

PageTyped ==
  /\ PageTypeOK /\ opening \in OpeningType /\ acting \in ActingType
  /\ acting.at # "idle" => opening.at = "answered"
  /\ ~Granted => ~owned /\ revision = 0
  /\ page.present /\ page.load = "none" => ~page.waits

\* A navigation is marked once.
RevisionCounted ==
  revision + CountIn(eventQueue) + CountIn(chromeEvents) + (IF page.load = "started" THEN 1 ELSE 0)
    <= page.starts + (IF Granted THEN 1 ELSE 0)

RemovedLast ==
  /\ page.present => ~Coming("removed") /\ handling # "removed"
  /\ \A e \in Events : ~Follows("removed", e) /\ (handling = "removed" => ~Coming(e))
  /\ ~page.present => page.load = "none"
  /\ ~page.present /\ opening.at # "idle" =>
       \/ Coming("removed")
       \/ (~processed /\ handling # "complete" /\ ~Coming("complete"))

\* What Chrome dispatches of the first navigation after the b-th of a page that was quiet.
OneLoad(b) ==
  /\ page.starts >= b
  /\ page.starts = b =>
       page.load = "none" /\ ~Coming("loading") /\ ~Coming("complete") /\ handling # "complete"
  /\ page.starts = b + 1 =>
       /\ page.load = "started" => ~Coming("loading") /\ ~page.waits
       /\ page.load # "none" => ~Coming("complete") /\ handling # "complete"
       /\ ~Follows("complete", "loading")
       /\ handling = "complete" => ~Coming("loading")

NoMoreLoads(b) == page.starts = b + 1 /\ page.load # "started" /\ ~Coming("loading")

OpenIsSettled ==
  opening.mode = "create" =>
    /\ OneLoad(0)
    /\ opening.at = "idle" => /\ ~page.present /\ page.starts = 0 /\ ~page.waits
                              /\ ~Coming("removed") /\ handling # "removed" /\ ~opening.released
    /\ opening.at # "idle" => page.starts >= 1
    /\ page.starts <= 1 =>
         /\ processed => NoMoreLoads(0)
         /\ opening.released => NoMoreLoads(0) \/ ~page.present
         /\ opening.at = "barrier" /\ ~opening.late => NoMoreLoads(0) \/ ~page.present
         /\ opening.at = "answered" /\ ~opening.late =>
              NoMoreLoads(0) /\ revision = opening.revision

\* A removal was heard before the barrier under way was queued.
HeardBefore == ~acting.passed /\ InQueue("removed") /\ ~InOrder(eventQueue, "act", "removed")

ActBarriers ==
  ~acting.late =>
    /\ acting.at \in {"idle", "begun", "waiting"} => ~InQueue("act")
    /\ acting.at \in {"draining", "draining_again"} =>
         ~InOrder(eventQueue, "act", "act") /\ (acting.passed => ~InQueue("act"))

ActSettled(b) ==
  /\ OneLoad(b)
  /\ page.starts <= b + 1 =>
       /\ acting.loaded =>
            NoMoreLoads(b) \/ (~page.present /\ (~owned \/ InQueue("removed")))
       /\ acting.waited /\ ~acting.late =>
            /\ acting.at = "draining_again" =>
                 NoMoreLoads(b) \/ (~page.present /\ (~owned \/ HeardBefore))
            /\ acting.at = "observing" => NoMoreLoads(b) \/ ~owned
            /\ acting.at = "answered" => NoMoreLoads(b) /\ revision = acting.revision
ActIsSettled ==
  \A b \in Nat : acting.at # "idle" /\ acting.quiet /\ acting.starts = b => ActSettled(b)

SettlingInv ==
  PageTyped /\ RevisionCounted /\ RemovedLast /\ OpenIsSettled /\ ActBarriers /\ ActIsSettled

--------------------------------
\* Queues

LEMMA AppendHas ==
  ASSUME NEW S, NEW seq \in Seq(S), NEW x \in S
  PROVE  /\ Append(seq, x) \in Seq(S)
         /\ \A e : Has(Append(seq, x), e) <=> Has(seq, e) \/ x = e
         /\ \A e, f : InOrder(Append(seq, x), e, f) <=> \/ InOrder(seq, e, f)
                                                        \/ x = f /\ Has(seq, e)
  <1> DEFINE more == Append(seq, x)
  <1>1. /\ more \in Seq(S) /\ Len(seq) \in Nat /\ Len(more) = Len(seq) + 1
        /\ DOMAIN seq = 1 .. Len(seq) /\ DOMAIN more = 1 .. (Len(seq) + 1)
        /\ \A i \in DOMAIN seq : more[i] = seq[i]
        /\ more[Len(seq) + 1] = x
    OBVIOUS
  <1>2. /\ \A i \in DOMAIN seq : i \in DOMAIN more /\ i < Len(seq) + 1
        /\ Len(seq) + 1 \in DOMAIN more
        /\ \A i \in DOMAIN more : i \in DOMAIN seq \/ i = Len(seq) + 1
        /\ \A i, j \in DOMAIN more : i < j => i \in DOMAIN seq
    BY <1>1
  <1> HIDE DEF more
  <1>3. \A e : Has(more, e) <=> Has(seq, e) \/ x = e
    BY <1>1, <1>2 DEF Has
  <1>4. ASSUME NEW e, NEW f
        PROVE  InOrder(more, e, f) <=> InOrder(seq, e, f) \/ (x = f /\ Has(seq, e))
    <2>1. ASSUME InOrder(more, e, f) PROVE InOrder(seq, e, f) \/ (x = f /\ Has(seq, e))
      <3>1. PICK i, j \in DOMAIN more : i < j /\ more[i] = e /\ more[j] = f BY <2>1 DEF InOrder
      <3>2. i \in DOMAIN seq /\ seq[i] = e BY <1>1, <1>2, <3>1
      <3>3. CASE j \in DOMAIN seq BY <1>1, <3>1, <3>2, <3>3 DEF InOrder
      <3>4. CASE j = Len(seq) + 1 BY <1>1, <3>1, <3>2, <3>4 DEF Has
      <3> QED
        BY <1>2, <3>3, <3>4
    <2>2. ASSUME InOrder(seq, e, f) PROVE InOrder(more, e, f)
      BY <1>1, <1>2, <2>2 DEF InOrder
    <2>3. ASSUME x = f, Has(seq, e) PROVE InOrder(more, e, f)
      BY <1>1, <1>2, <2>3 DEF InOrder, Has
    <2> QED
      BY <2>1, <2>2, <2>3
  <1> QED
    BY <1>1, <1>3, <1>4 DEF more

LEMMA TailHas ==
  ASSUME NEW S, NEW seq \in Seq(S), seq # <<>>
  PROVE  /\ Tail(seq) \in Seq(S) /\ Head(seq) \in S
         /\ \A e : Has(seq, e) <=> Head(seq) = e \/ Has(Tail(seq), e)
         /\ \A e, f : InOrder(Tail(seq), e, f) => InOrder(seq, e, f)
         /\ \A f : Has(Tail(seq), f) => InOrder(seq, Head(seq), f)
  <1> DEFINE rest == Tail(seq)
  <1>1. /\ rest \in Seq(S) /\ Head(seq) = seq[1] /\ Head(seq) \in S /\ Len(seq) \in Nat \ {0}
        /\ DOMAIN seq = 1 .. Len(seq) /\ DOMAIN rest = 1 .. (Len(seq) - 1)
        /\ \A i \in DOMAIN rest : rest[i] = seq[i + 1]
    OBVIOUS
  <1>2. /\ 1 \in DOMAIN seq /\ \A i \in DOMAIN rest : i + 1 \in DOMAIN seq /\ 1 < i + 1
        /\ \A i \in DOMAIN seq : i = 1 \/ (i - 1 \in DOMAIN rest /\ (i - 1) + 1 = i)
        /\ \A i, j \in DOMAIN rest : i < j => i + 1 < j + 1
    BY <1>1
  <1> HIDE DEF rest
  <1>3. ASSUME NEW e PROVE Has(seq, e) <=> Head(seq) = e \/ Has(rest, e)
    <2>1. ASSUME Has(seq, e), Head(seq) # e PROVE Has(rest, e)
      <3>1. PICK i \in DOMAIN seq : seq[i] = e BY <2>1 DEF Has
      <3>2. i - 1 \in DOMAIN rest /\ rest[i - 1] = e BY <1>1, <1>2, <2>1, <3>1
      <3> QED
        BY <3>2 DEF Has
    <2>2. ASSUME Has(rest, e) PROVE Has(seq, e) BY <1>1, <1>2, <2>2 DEF Has
    <2>3. ASSUME Head(seq) = e PROVE Has(seq, e) BY <1>1, <1>2, <2>3 DEF Has
    <2> QED
      BY <2>1, <2>2, <2>3
  <1>4. \A e, f : InOrder(rest, e, f) => InOrder(seq, e, f)
    BY <1>1, <1>2 DEF InOrder
  <1>5. \A f : Has(rest, f) => InOrder(seq, Head(seq), f)
    BY <1>1, <1>2 DEF InOrder, Has
  <1> QED
    BY <1>1, <1>3, <1>4, <1>5 DEF rest

LEMMA CountOfFinite ==
  ASSUME NEW S, NEW seq \in Seq(S), NEW y
  PROVE  IsFiniteSet({i \in DOMAIN seq : seq[i] = y}) /\ CountOf(seq, y) \in Nat
  <1>1. DOMAIN seq = 1 .. Len(seq) /\ Len(seq) \in Nat OBVIOUS
  <1>2. IsFiniteSet(1 .. Len(seq)) BY <1>1, FS_Interval
  <1>3. IsFiniteSet({i \in DOMAIN seq : seq[i] = y}) BY <1>1, <1>2, FS_Subset
  <1> QED
    BY <1>3, FS_CardinalityType DEF CountOf

LEMMA AppendCountsOf ==
  ASSUME NEW S, NEW seq \in Seq(S), NEW x \in S, NEW y
  PROVE  CountOf(Append(seq, x), y) = CountOf(seq, y) + IF x = y THEN 1 ELSE 0
  <1> DEFINE more == Append(seq, x)
             C(s) == {i \in DOMAIN s : s[i] = y}
  <1>1. /\ Len(seq) \in Nat /\ DOMAIN seq = 1 .. Len(seq) /\ DOMAIN more = 1 .. (Len(seq) + 1)
        /\ \A i \in DOMAIN seq : more[i] = seq[i]
        /\ more[Len(seq) + 1] = x
    OBVIOUS
  <1>2. /\ Len(seq) + 1 \in DOMAIN more /\ Len(seq) + 1 \notin DOMAIN seq
        /\ DOMAIN more = DOMAIN seq \cup {Len(seq) + 1}
    BY <1>1
  <1>3. IsFiniteSet(C(seq)) /\ CountOf(seq, y) \in Nat BY CountOfFinite
  <1>4. CASE x = y
    <2>1. C(more) = C(seq) \cup {Len(seq) + 1} /\ Len(seq) + 1 \notin C(seq)
      BY <1>1, <1>2, <1>4
    <2>2. Cardinality(C(more)) = Cardinality(C(seq)) + 1 BY <1>3, <2>1, FS_AddElement
    <2> QED
      BY <1>4, <2>2 DEF CountOf
  <1>5. CASE x # y
    <2>1. C(more) = C(seq) BY <1>1, <1>2, <1>5
    <2>2. CountOf(more, y) = CountOf(seq, y) BY <2>1 DEF CountOf
    <2> QED
      BY <1>3, <1>5, <2>2
  <1> QED
    BY <1>4, <1>5

LEMMA TailCountsOf ==
  ASSUME NEW S, NEW seq \in Seq(S), seq # <<>>, NEW y
  PROVE  CountOf(seq, y) = CountOf(Tail(seq), y) + IF Head(seq) = y THEN 1 ELSE 0
  <1> DEFINE rest == Tail(seq)
             C(s) == {i \in DOMAIN s : s[i] = y}
             later == {i \in C(seq) : i # 1}
             back == [i \in later |-> i - 1]
  <1>1. /\ rest \in Seq(S) /\ Head(seq) = seq[1] /\ Len(seq) \in Nat \ {0}
        /\ DOMAIN seq = 1 .. Len(seq) /\ DOMAIN rest = 1 .. (Len(seq) - 1)
        /\ \A i \in DOMAIN rest : rest[i] = seq[i + 1]
    OBVIOUS
  <1>2. /\ 1 \in DOMAIN seq
        /\ \A i \in DOMAIN rest : i + 1 \in DOMAIN seq /\ i + 1 # 1 /\ (i + 1) - 1 = i
        /\ \A i \in DOMAIN seq : i # 1 => i - 1 \in DOMAIN rest /\ (i - 1) + 1 = i
        /\ \A i, j \in DOMAIN seq : i - 1 = j - 1 => i = j
    BY <1>1
  <1>3. IsFiniteSet(C(seq)) /\ CountOf(seq, y) \in Nat /\ IsFiniteSet(C(rest)) /\ CountOf(rest, y) \in Nat
    BY <1>1, CountOfFinite
  <1>4. IsFiniteSet(later) BY <1>3, FS_Subset
  <1>5. back \in Bijection(later, C(rest))
    <2>1. \A i \in later : i - 1 \in C(rest) BY <1>1, <1>2
    <2>2. \A k \in C(rest) : k + 1 \in later /\ back[k + 1] = k BY <1>1, <1>2
    <2>3. back \in [later -> C(rest)] BY <2>1
    <2>4. \A i, j \in later : back[i] = back[j] => i = j BY <1>2
    <2> QED
      BY <2>2, <2>3, <2>4 DEF Bijection, Injection, Surjection, IsInjective
  <1>6. Cardinality(later) = Cardinality(C(rest))
    <2>1. ExistsBijection(later, C(rest)) BY <1>5 DEF ExistsBijection
    <2> HIDE DEF later, C
    <2> QED
      BY <1>4, <2>1, FS_Bijection
  <1>7. CASE Head(seq) = y
    <2>1. C(seq) = later \cup {1} /\ 1 \notin later BY <1>1, <1>2, <1>7
    <2>2. Cardinality(C(seq)) = Cardinality(later) + 1 BY <1>4, <2>1, FS_AddElement
    <2> QED
      BY <1>6, <1>7, <2>2 DEF CountOf
  <1>8. CASE Head(seq) # y
    <2>1. C(seq) = later BY <1>1, <1>2, <1>8
    <2>2. CountOf(seq, y) = CountOf(rest, y) BY <1>6, <2>1 DEF CountOf
    <2> QED
      BY <1>3, <1>8, <2>2
  <1> QED
    BY <1>7, <1>8

LEMMA CountFinite ==
  ASSUME NEW S, NEW seq \in Seq(S)
  PROVE  CountIn(seq) \in Nat
  BY CountOfFinite DEF CountIn

LEMMA AppendCounts ==
  ASSUME NEW S, NEW seq \in Seq(S), NEW x \in S
  PROVE  CountIn(Append(seq, x)) = CountIn(seq) + IF x = "loading" THEN 1 ELSE 0
  BY AppendCountsOf DEF CountIn

LEMMA TailCounts ==
  ASSUME NEW S, NEW seq \in Seq(S), seq # <<>>
  PROVE  CountIn(seq) = CountIn(Tail(seq)) + IF Head(seq) = "loading" THEN 1 ELSE 0
  BY TailCountsOf DEF CountIn

LEMMA QueueTypes ==
  ASSUME PageTyped
  PROVE  /\ eventQueue \in Seq(Events \cup Barriers) /\ chromeEvents \in Seq(Events)
         /\ CountIn(eventQueue) \in Nat /\ CountIn(chromeEvents) \in Nat
  BY CountFinite DEF PageTyped, PageTypeOK

LEMMA PageFields ==
  ASSUME PageTyped
  PROVE  /\ page.present \in BOOLEAN /\ page.load \in {"none", "started", "committed"}
         /\ page.waits \in BOOLEAN /\ page.dialog \in BOOLEAN
         /\ page.starts \in Nat /\ page.starts <= MaxStarts /\ page.starts \in 0 .. MaxStarts
         /\ page = [present |-> page.present, load |-> page.load, waits |-> page.waits,
                    dialog |-> page.dialog, starts |-> page.starts]
         /\ revision \in Nat
  BY SettlingConstants DEF PageTyped, PageTypeOK

\* What a step of the page, of the listeners and of the queue does to what is coming.
Queues == <<eventQueue, chromeEvents>>
Dispatched(x) == chromeEvents' = Append(chromeEvents, x) /\ eventQueue' = eventQueue
Taken == eventQueue # <<>> /\ eventQueue' = Tail(eventQueue) /\ chromeEvents' = chromeEvents
Joined(x) == eventQueue' = Append(eventQueue, x) /\ chromeEvents' = chromeEvents

LEMMA QueuesStay ==
  ASSUME UNCHANGED Queues
  PROVE  /\ \A e : (InQueue(e)' <=> InQueue(e)) /\ (Coming(e)' <=> Coming(e))
         /\ \A e, f : (Follows(e, f)' <=> Follows(e, f))
         /\ eventQueue' = eventQueue /\ chromeEvents' = chromeEvents
         /\ \A e, f : InOrder(eventQueue', e, f) <=> InOrder(eventQueue, e, f)
  BY DEF Queues, InQueue, InChrome, Coming, Follows

LEMMA DispatchedIs ==
  ASSUME PageTyped, NEW x \in Events, Dispatched(x)
  PROVE  /\ chromeEvents' \in Seq(Events) /\ eventQueue' = eventQueue
         /\ \A e : (InQueue(e)' <=> InQueue(e)) /\ (Coming(e)' <=> Coming(e) \/ x = e)
         /\ \A e, f : Follows(e, f)' => Follows(e, f) \/ (x = f /\ Coming(e))
         /\ CountIn(chromeEvents') = CountIn(chromeEvents) + IF x = "loading" THEN 1 ELSE 0
  <1>1. /\ chromeEvents \in Seq(Events) /\ chromeEvents' = Append(chromeEvents, x)
        /\ eventQueue' = eventQueue
    BY QueueTypes DEF Dispatched
  <1>2. /\ Append(chromeEvents, x) \in Seq(Events)
        /\ \A e : Has(Append(chromeEvents, x), e) <=> Has(chromeEvents, e) \/ x = e
        /\ \A e, f : InOrder(Append(chromeEvents, x), e, f) <=>
             \/ InOrder(chromeEvents, e, f)
             \/ x = f /\ Has(chromeEvents, e)
    BY <1>1, AppendHas
  <1>3. CountIn(Append(chromeEvents, x)) = CountIn(chromeEvents) + IF x = "loading" THEN 1 ELSE 0
    BY <1>1, AppendCounts
  <1> QED
    BY <1>1, <1>2, <1>3 DEF InQueue, InChrome, Coming, Follows

LEMMA DeliveredIs ==
  ASSUME PageTyped, chromeEvents # <<>>, chromeEvents' = Tail(chromeEvents),
         eventQueue' = Append(eventQueue, Head(chromeEvents))
  PROVE  /\ chromeEvents' \in Seq(Events) /\ eventQueue' \in Seq(Events \cup Barriers)
         /\ Head(chromeEvents) \in Events /\ InChrome(Head(chromeEvents))
         /\ \A e : InQueue(e)' <=> InQueue(e) \/ Head(chromeEvents) = e
         /\ \A e : Coming(e)' <=> Coming(e)
         /\ \A e, f : Follows(e, f)' => Follows(e, f)
         /\ \A e, f : InOrder(eventQueue', e, f) =>
              InOrder(eventQueue, e, f) \/ (Head(chromeEvents) = f /\ InQueue(e))
         /\ CountIn(eventQueue') + CountIn(chromeEvents') = CountIn(eventQueue) + CountIn(chromeEvents)
  <1> DEFINE x == Head(chromeEvents)
             more == Append(eventQueue, x)
             rest == Tail(chromeEvents)
  <1>1. /\ chromeEvents \in Seq(Events) /\ eventQueue \in Seq(Events \cup Barriers)
        /\ CountIn(eventQueue) \in Nat /\ CountIn(chromeEvents) \in Nat
    BY QueueTypes
  <1>2. /\ rest \in Seq(Events) /\ x \in Events /\ x \in Events \cup Barriers
        /\ \A e : Has(chromeEvents, e) <=> x = e \/ Has(rest, e)
        /\ \A e, f : InOrder(rest, e, f) => InOrder(chromeEvents, e, f)
        /\ \A f : Has(rest, f) => InOrder(chromeEvents, x, f)
    BY <1>1, TailHas
  <1>3. /\ more \in Seq(Events \cup Barriers)
        /\ \A e : Has(more, e) <=> Has(eventQueue, e) \/ x = e
        /\ \A e, f : InOrder(more, e, f) <=> InOrder(eventQueue, e, f) \/ (x = f /\ Has(eventQueue, e))
    BY <1>1, <1>2, AppendHas
  <1>4. /\ CountIn(more) = CountIn(eventQueue) + IF x = "loading" THEN 1 ELSE 0
        /\ CountIn(chromeEvents) = CountIn(rest) + IF x = "loading" THEN 1 ELSE 0
        /\ CountIn(rest) \in Nat /\ CountIn(more) \in Nat
    BY <1>1, <1>2, <1>3, AppendCounts, TailCounts, CountFinite
  <1>5. CountIn(more) + CountIn(rest) = CountIn(eventQueue) + CountIn(chromeEvents)
    BY <1>1, <1>4
  <1>6. eventQueue' = more /\ chromeEvents' = rest OBVIOUS
  <1> HIDE DEF more, rest, x
  <1>7. \A e : Coming(e)' <=> Coming(e)
    BY <1>2, <1>3, <1>6 DEF Coming, InQueue, InChrome
  <1>8. \A e, f : Follows(e, f)' => Follows(e, f)
    BY <1>2, <1>3, <1>6 DEF Follows, InQueue, InChrome
  <1>9. \A e : InQueue(e)' <=> InQueue(e) \/ x = e
    BY <1>3, <1>6 DEF InQueue
  <1>10. \A e, f : InOrder(eventQueue', e, f) => InOrder(eventQueue, e, f) \/ (x = f /\ InQueue(e))
    BY <1>3, <1>6 DEF InQueue
  <1>11. InChrome(x) BY <1>2 DEF InChrome
  <1> QED
    BY <1>2, <1>3, <1>5, <1>6, <1>7, <1>8, <1>9, <1>10, <1>11 DEF x

LEMMA TakenIs ==
  ASSUME PageTyped, Taken
  PROVE  /\ eventQueue' \in Seq(Events \cup Barriers) /\ chromeEvents' = chromeEvents
         /\ Head(eventQueue) \in Events \cup Barriers
         /\ \A e : InQueue(e) <=> Head(eventQueue) = e \/ InQueue(e)'
         /\ \A e : Coming(e) <=> Head(eventQueue) = e \/ Coming(e)'
         /\ \A e, f : Follows(e, f)' => Follows(e, f)
         /\ \A f : Coming(f)' => Follows(Head(eventQueue), f)
         /\ \A e, f : InOrder(eventQueue', e, f) => InOrder(eventQueue, e, f)
         /\ \A f : InQueue(f)' => InOrder(eventQueue, Head(eventQueue), f)
         /\ CountIn(eventQueue) = CountIn(eventQueue') + IF Head(eventQueue) = "loading" THEN 1 ELSE 0
         /\ CountIn(eventQueue') \in Nat
  <1> DEFINE x == Head(eventQueue)
             rest == Tail(eventQueue)
  <1>1. /\ eventQueue \in Seq(Events \cup Barriers) /\ eventQueue # <<>>
        /\ eventQueue' = rest /\ chromeEvents' = chromeEvents
    BY QueueTypes DEF Taken
  <1>2. /\ rest \in Seq(Events \cup Barriers) /\ x \in Events \cup Barriers
        /\ \A e : Has(eventQueue, e) <=> x = e \/ Has(rest, e)
        /\ \A e, f : InOrder(rest, e, f) => InOrder(eventQueue, e, f)
        /\ \A f : Has(rest, f) => InOrder(eventQueue, x, f)
    BY <1>1, TailHas
  <1>3. /\ CountIn(eventQueue) = CountIn(rest) + IF x = "loading" THEN 1 ELSE 0
        /\ CountIn(rest) \in Nat
    BY <1>1, <1>2, TailCounts, CountFinite
  <1> HIDE DEF x, rest
  <1>4. Has(eventQueue, x) BY <1>2
  <1>5. \A e : /\ InQueue(e) <=> x = e \/ InQueue(e)'
               /\ Coming(e) <=> x = e \/ Coming(e)'
    BY <1>1, <1>2 DEF Coming, InQueue, InChrome
  <1>6. \A e, f : Follows(e, f)' => Follows(e, f)
    BY <1>1, <1>2 DEF Follows, InQueue, InChrome
  <1>7. \A f : Coming(f)' => Follows(x, f)
    BY <1>1, <1>2, <1>4 DEF Coming, Follows, InQueue, InChrome
  <1>8. \A f : InQueue(f)' => InOrder(eventQueue, x, f)
    BY <1>1, <1>2 DEF InQueue
  <1> QED
    BY <1>1, <1>2, <1>3, <1>5, <1>6, <1>7, <1>8 DEF x

LEMMA JoinedIs ==
  ASSUME PageTyped, NEW x \in Barriers, Joined(x)
  PROVE  /\ eventQueue' \in Seq(Events \cup Barriers) /\ chromeEvents' = chromeEvents
         /\ \A e : InQueue(e)' <=> InQueue(e) \/ x = e
         /\ \A e \in Events : (InQueue(e)' <=> InQueue(e)) /\ (Coming(e)' <=> Coming(e))
         /\ \A e, f \in Events : Follows(e, f)' <=> Follows(e, f)
         /\ \A e, f : InOrder(eventQueue', e, f) <=> InOrder(eventQueue, e, f) \/ (x = f /\ InQueue(e))
         /\ CountIn(eventQueue') = CountIn(eventQueue)
  <1> DEFINE more == Append(eventQueue, x)
  <1>1. /\ eventQueue \in Seq(Events \cup Barriers) /\ x \in Events \cup Barriers
        /\ eventQueue' = more /\ chromeEvents' = chromeEvents /\ CountIn(eventQueue) \in Nat
    BY QueueTypes DEF Joined
  <1>2. /\ more \in Seq(Events \cup Barriers)
        /\ \A e : Has(more, e) <=> Has(eventQueue, e) \/ x = e
        /\ \A e, f : InOrder(more, e, f) <=> InOrder(eventQueue, e, f) \/ (x = f /\ Has(eventQueue, e))
    BY <1>1, AppendHas
  <1>3. x \notin Events BY DEF Events, Barriers
  <1>4. CountIn(more) = CountIn(eventQueue) + IF x = "loading" THEN 1 ELSE 0
    BY <1>1, AppendCounts
  <1>5. CountIn(more) = CountIn(eventQueue) BY <1>1, <1>3, <1>4 DEF Events
  <1> HIDE DEF more
  <1>6. \A e \in Events : x # e BY <1>3
  <1> QED
    BY <1>1, <1>2, <1>5, <1>6 DEF InQueue, InChrome, Coming, Follows

--------------------------------
\* What a step leaves as it is

SameEvents ==
  /\ \A e \in Events : (InQueue(e)' <=> InQueue(e)) /\ (Coming(e)' <=> Coming(e))
  /\ \A e, f \in Events : Follows(e, f)' <=> Follows(e, f)
World == <<page, handling, processed>>

LEMMA SameQueues ==
  ASSUME UNCHANGED Queues
  PROVE  SameEvents
  BY QueuesStay DEF SameEvents

LEMMA WorldStays ==
  ASSUME UNCHANGED World, SameEvents
  PROVE  /\ \A b \in Nat : (OneLoad(b)' <=> OneLoad(b)) /\ (NoMoreLoads(b)' <=> NoMoreLoads(b))
         /\ RemovedLast /\ (opening'.at = "idle" <=> opening.at = "idle") => RemovedLast'
  <1>1. page' = page /\ handling' = handling /\ processed' = processed BY DEF World
  <1>2. {"loading", "complete", "removed"} = Events BY DEF Events
  <1> QED
    BY <1>1, <1>2 DEF SameEvents, OneLoad, NoMoreLoads, RemovedLast

\* browser_open has not changed.
LEMMA OpenStays ==
  ASSUME OpenIsSettled, UNCHANGED World, SameEvents, opening' = opening, revision' = revision
  PROVE  OpenIsSettled'
  <1>1. \A b \in Nat : (OneLoad(b)' <=> OneLoad(b)) /\ (NoMoreLoads(b)' <=> NoMoreLoads(b))
    BY WorldStays
  <1>2. page' = page /\ processed' = processed /\ handling' = handling BY DEF World
  <1>3. 0 \in Nat /\ (Coming("removed")' <=> Coming("removed")) BY DEF SameEvents, Events
  <1> QED
    BY <1>1, <1>2, <1>3 DEF OpenIsSettled

\* browser_act has not begun.
LEMMA ActAwaits ==
  ASSUME ActBarriers, acting.at = "idle", acting' = acting, InQueue("act")' => InQueue("act")
  PROVE  ActBarriers' /\ ActIsSettled'
  BY DEF ActBarriers, ActIsSettled

--------------------------------
\* browser_open

LEMMA OpenCreatesKeeps ==
  ASSUME SettlingInv, OpenCreates
  PROVE  SettlingInv'
  <1>1. /\ opening.at = "idle" /\ opening' = [opening EXCEPT !.at = "granting"]
        /\ chromeEvents' = chromeEvents /\ eventQueue' = eventQueue /\ handling' = handling
        /\ owned' = owned /\ revision' = revision /\ processed' = processed /\ acting' = acting
        /\ page' = IF opening.mode = "create" THEN [Starting EXCEPT !.present = TRUE] ELSE page
        /\ opening.mode = "adopt" => page.present
        /\ opening.mode = "create" => page.starts < MaxStarts
    BY DEF OpenCreates, PageTyped, SettlingInv, OpeningType
  <1>2. opening \in OpeningType /\ acting.at = "idle"
    BY <1>1 DEF SettlingInv, PageTyped
  <1>3. /\ opening' \in OpeningType /\ opening'.at = "granting" /\ opening'.mode = opening.mode
        /\ opening'.released = opening.released /\ opening'.late = opening.late
    BY <1>1, <1>2 DEF OpeningType, OpeningPlaces
  <1>4. /\ SameEvents /\ \A e : Coming(e)' <=> Coming(e)
        /\ \A e : InQueue(e)' <=> InQueue(e)
    BY <1>1, SameQueues, QueuesStay DEF Queues
  <1>5. ActBarriers' /\ ActIsSettled'
    BY <1>1, <1>2, <1>4, ActAwaits DEF SettlingInv
  <1>6. CASE opening.mode = "create"
    <2>1. /\ page.load = "none" /\ page.starts = 0 /\ ~page.waits /\ ~page.present
          /\ ~Coming("loading") /\ ~Coming("complete") /\ handling # "complete"
      BY <1>1, <1>6 DEF SettlingInv, OpenIsSettled, OneLoad
    <2>2. /\ page'.present /\ page'.load = "started" /\ page'.starts = 1 /\ ~page'.waits
          /\ page' \in [present : BOOLEAN, load : {"none", "started", "committed"}, waits : BOOLEAN,
                        dialog : BOOLEAN, starts : 0..MaxStarts]
      <3>1. page' = [page EXCEPT !.load = "started", !.starts = page.starts + 1, !.present = TRUE]
        BY <1>1, <1>6 DEF Starting
      <3>2. page' = [present |-> TRUE, load |-> "started", waits |-> page.waits,
                     dialog |-> page.dialog, starts |-> page.starts + 1]
        BY <3>1, PageFields DEF SettlingInv
      <3>3. /\ 1 \in 0 .. MaxStarts /\ page.starts + 1 = 1
            /\ page.waits \in BOOLEAN /\ page.dialog \in BOOLEAN
        BY <1>1, <1>6, <2>1, SettlingConstants, PageFields DEF SettlingInv
      <3> QED
        BY <2>1, <3>2, <3>3
    <2>3. PageTyped'
      BY <1>1, <1>2, <1>3, <2>2 DEF SettlingInv, PageTyped, PageTypeOK, Granted, OpeningType
    <2>4. RevisionCounted'
      <3>1. revision = 0 BY <1>1 DEF SettlingInv, PageTyped, Granted
      <3>2. CountIn(eventQueue) \in Nat /\ CountIn(chromeEvents) \in Nat
        BY QueueTypes DEF SettlingInv
      <3> QED
        BY <1>1, <1>3, <2>1, <2>2, <3>1, <3>2 DEF SettlingInv, RevisionCounted, Granted
    <2>5. RemovedLast'
      <3>1. \A e \in Events : ~Follows("removed", e)' /\ (handling' = "removed" => ~Coming(e)')
        BY <1>1, <1>4 DEF SettlingInv, RemovedLast, SameEvents, Events
      <3>2. ~Coming("removed") /\ handling # "removed"
        BY <1>1, <1>6 DEF SettlingInv, OpenIsSettled
      <3> QED
        BY <1>1, <1>4, <2>2, <3>1, <3>2 DEF RemovedLast
    <2>6. OpenIsSettled'
      <3>1. ~Follows("complete", "loading")'
        BY <1>4, <2>1 DEF SameEvents, Follows, Coming, InQueue, InChrome, InOrder, Has, Events
      <3>2. OneLoad(0)'
        BY <1>1, <1>4, <2>1, <2>2, <3>1 DEF OneLoad
      <3>3. ~opening.released /\ ~processed
        BY <1>1, <1>6, <2>1 DEF SettlingInv, OpenIsSettled, NoMoreLoads
      <3> QED
        BY <1>1, <1>3, <2>2, <3>2, <3>3 DEF OpenIsSettled
    <2> QED
      BY <1>5, <2>3, <2>4, <2>5, <2>6 DEF SettlingInv
  <1>7. CASE opening.mode # "create"
    <2>1. page' = page /\ page.present BY <1>1, <1>2, <1>7 DEF OpeningType
    <2>2. PageTyped'
      BY <1>1, <1>2, <1>3, <2>1 DEF SettlingInv, PageTyped, PageTypeOK, Granted, OpeningType
    <2>3. RevisionCounted' BY <1>1, <1>3, <2>1 DEF SettlingInv, RevisionCounted, Granted
    <2>4. RemovedLast' BY <1>1, <1>4, <2>1 DEF SettlingInv, RemovedLast, SameEvents, Events
    <2>5. OpenIsSettled' BY <1>3, <1>7 DEF OpenIsSettled
    <2> QED
      BY <1>5, <2>2, <2>3, <2>4, <2>5 DEF SettlingInv
  <1> QED
    BY <1>6, <1>7

\* A command goes on where the page and what is coming of it stay.
LEMMA CommandGoes ==
  ASSUME SettlingInv, UNCHANGED World, UNCHANGED <<owned, revision>>, SameEvents,
         eventQueue' \in Seq(Events \cup Barriers), chromeEvents' = chromeEvents,
         CountIn(eventQueue') = CountIn(eventQueue),
         opening' \in OpeningType, acting' \in ActingType,
         Granted' <=> Granted, opening'.at = "idle" <=> opening.at = "idle",
         acting'.at # "idle" => opening'.at = "answered"
  PROVE  PageTyped' /\ RevisionCounted' /\ RemovedLast'
  <1>1. /\ page' = page /\ handling' = handling /\ processed' = processed
        /\ owned' = owned /\ revision' = revision
    BY DEF World
  <1>2. opening'.at \in OpeningPlaces /\ acting'.at \in ActingPlaces
    BY DEF OpeningType, ActingType
  <1>3. PageTyped'
    BY <1>1, <1>2 DEF SettlingInv, PageTyped, PageTypeOK, OpeningPlaces, ActingPlaces
  <1>4. RevisionCounted' BY <1>1 DEF SettlingInv, RevisionCounted
  <1>5. RemovedLast' BY WorldStays DEF SettlingInv
  <1> QED
    BY <1>3, <1>4, <1>5

LEMMA OpenGrantsKeeps ==
  ASSUME SettlingInv, OpenGrants
  PROVE  SettlingInv'
  <1>1. /\ opening.at = "granting" /\ UNCHANGED Queues /\ UNCHANGED World /\ acting' = acting
        /\ page' = page /\ handling' = handling /\ processed' = processed
        /\ chromeEvents' = chromeEvents /\ eventQueue' = eventQueue
    BY DEF OpenGrants, Queues, World
  <1>2. opening \in OpeningType /\ acting.at = "idle" /\ revision = 0 /\ ~owned /\ ~Granted
    BY <1>1 DEF SettlingInv, PageTyped, Granted
  <1>3. /\ opening' \in OpeningType /\ opening'.at \in {"settling", "unknown"}
        /\ opening'.mode = opening.mode
        /\ opening'.released => opening.released
        /\ revision' \in {0, 1} /\ owned' \in BOOLEAN
    BY <1>1, <1>2 DEF OpenGrants, OpeningType, OpeningPlaces, SettlingInv, PageTyped, PageTypeOK
  <1>4. SameEvents /\ (\A e : InQueue(e)' <=> InQueue(e))
    BY <1>1, SameQueues, QueuesStay
  <1>5. ActBarriers' /\ ActIsSettled'
    BY <1>1, <1>2, <1>4, ActAwaits DEF SettlingInv
  <1>6. Granted' BY <1>3 DEF Granted
  <1>7. PageTyped'
    <2>1. revision' \in 0 .. (MaxStarts + 1) BY <1>3, SettlingConstants
    <2> QED
      BY <1>1, <1>2, <1>3, <1>6, <2>1 DEF SettlingInv, PageTyped, PageTypeOK
  <1>8. RevisionCounted'
    <2>1. CountIn(eventQueue) \in Nat /\ CountIn(chromeEvents) \in Nat /\ page.starts \in Nat
      BY QueueTypes, PageFields DEF SettlingInv
    <2> QED
      BY <1>1, <1>2, <1>3, <1>6, <2>1 DEF SettlingInv, RevisionCounted
  <1>9. RemovedLast' BY <1>1, <1>3, <1>4, WorldStays DEF SettlingInv
  <1>10. OpenIsSettled'
    <2>1. \A b \in Nat : (OneLoad(b)' <=> OneLoad(b)) /\ (NoMoreLoads(b)' <=> NoMoreLoads(b))
      BY <1>1, <1>4, WorldStays
    <2>2. 0 \in Nat OBVIOUS
    <2> QED
      BY <1>1, <1>3, <2>1, <2>2 DEF SettlingInv, OpenIsSettled
  <1> QED
    BY <1>5, <1>7, <1>8, <1>9, <1>10 DEF SettlingInv

LEMMA OpenSettlesKeeps ==
  ASSUME SettlingInv, OpenSettles
  PROVE  SettlingInv'
  <1>1. /\ opening.at = "settling" /\ (Unsettled => opening.released \/ opening.late)
        /\ opening' = [opening EXCEPT !.at = "barrier", !.passed = opening.late]
        /\ Joined("open") /\ UNCHANGED World /\ acting' = acting /\ owned' = owned
        /\ revision' = revision /\ page' = page /\ processed' = processed
    BY DEF OpenSettles, Joined, World
  <1>2. opening \in OpeningType /\ acting \in ActingType /\ acting.at = "idle"
    BY <1>1 DEF SettlingInv, PageTyped
  <1>3. /\ opening' \in OpeningType /\ opening'.at = "barrier" /\ opening'.mode = opening.mode
        /\ opening'.released = opening.released /\ opening'.late = opening.late
    BY <1>1, <1>2 DEF OpeningType, OpeningPlaces
  <1>4. /\ eventQueue' \in Seq(Events \cup Barriers) /\ chromeEvents' = chromeEvents
        /\ \A e : InQueue(e)' <=> InQueue(e) \/ "open" = e
        /\ SameEvents /\ CountIn(eventQueue') = CountIn(eventQueue)
    BY <1>1, JoinedIs DEF SettlingInv, SameEvents, Barriers
  <1>5. ActBarriers' /\ ActIsSettled'
    BY <1>1, <1>2, <1>4, ActAwaits DEF SettlingInv
  <1>6. PageTyped' /\ RevisionCounted' /\ RemovedLast'
    BY <1>1, <1>2, <1>3, <1>4, CommandGoes DEF Granted
  <1>7. OpenIsSettled'
    <2>1. /\ \A b \in Nat : (OneLoad(b)' <=> OneLoad(b)) /\ (NoMoreLoads(b)' <=> NoMoreLoads(b))
          /\ 0 \in Nat
      BY <1>1, <1>4, WorldStays
    <2> QED
      BY <1>1, <1>3, <2>1 DEF SettlingInv, OpenIsSettled, Unsettled
  <1> QED
    BY <1>5, <1>6, <1>7 DEF SettlingInv

LEMMA OpenDeadlineKeeps ==
  ASSUME SettlingInv, OpenDeadline
  PROVE  SettlingInv'
  <1>1. /\ opening.at \in {"settling", "barrier"}
        /\ opening' = [opening EXCEPT !.late = TRUE, !.passed = (opening.at = "barrier")]
        /\ UNCHANGED Queues /\ UNCHANGED World /\ acting' = acting /\ owned' = owned
        /\ revision' = revision /\ page' = page /\ processed' = processed
        /\ chromeEvents' = chromeEvents /\ eventQueue' = eventQueue
    BY DEF OpenDeadline, Queues, World
  <1>2. /\ opening \in OpeningType /\ acting \in ActingType /\ acting.at = "idle"
        /\ eventQueue \in Seq(Events \cup Barriers)
    BY <1>1, QueueTypes DEF SettlingInv, PageTyped
  <1>3. /\ opening' \in OpeningType /\ opening'.at = opening.at /\ opening'.mode = opening.mode
        /\ opening'.released = opening.released /\ opening'.late
    BY <1>1, <1>2 DEF OpeningType
  <1>4. SameEvents /\ (\A e : InQueue(e)' <=> InQueue(e))
    BY <1>1, SameQueues, QueuesStay
  <1>5. ActBarriers' /\ ActIsSettled'
    BY <1>1, <1>2, <1>4, ActAwaits DEF SettlingInv
  <1>6. PageTyped' /\ RevisionCounted' /\ RemovedLast'
    BY <1>1, <1>2, <1>3, <1>4, CommandGoes DEF Granted
  <1>7. OpenIsSettled'
    <2>1. /\ \A b \in Nat : (OneLoad(b)' <=> OneLoad(b)) /\ (NoMoreLoads(b)' <=> NoMoreLoads(b))
          /\ 0 \in Nat
      BY <1>1, <1>4, WorldStays
    <2> QED
      BY <1>1, <1>3, <2>1 DEF SettlingInv, OpenIsSettled
  <1> QED
    BY <1>5, <1>6, <1>7 DEF SettlingInv

LEMMA OpenAnswersKeeps ==
  ASSUME SettlingInv, OpenAnswers
  PROVE  SettlingInv'
  <1>1. /\ opening.at = "barrier" /\ opening.passed
        /\ opening' = IF page.present /\ owned
                      THEN [opening EXCEPT !.at = "answered", !.revision = revision]
                      ELSE [opening EXCEPT !.at = "not_started"]
        /\ UNCHANGED Queues /\ UNCHANGED World /\ acting' = acting /\ owned' = owned
        /\ revision' = revision /\ page' = page /\ processed' = processed
        /\ chromeEvents' = chromeEvents /\ eventQueue' = eventQueue
    BY DEF OpenAnswers, Queues, World
  <1>2. /\ opening \in OpeningType /\ acting \in ActingType /\ acting.at = "idle"
        /\ eventQueue \in Seq(Events \cup Barriers) /\ revision \in Nat
    BY <1>1, QueueTypes, PageFields DEF SettlingInv, PageTyped
  <1>3. /\ opening' \in OpeningType /\ opening'.at \in {"answered", "not_started"}
        /\ opening'.mode = opening.mode
        /\ opening'.released = opening.released /\ opening'.late = opening.late
        /\ opening'.at = "answered" => page.present /\ opening'.revision = revision
    BY <1>1, <1>2 DEF OpeningType, OpeningPlaces
  <1>4. SameEvents /\ (\A e : InQueue(e)' <=> InQueue(e))
    BY <1>1, SameQueues, QueuesStay
  <1>5. ActBarriers' /\ ActIsSettled'
    BY <1>1, <1>2, <1>4, ActAwaits DEF SettlingInv
  <1>6. PageTyped' /\ RevisionCounted' /\ RemovedLast'
    BY <1>1, <1>2, <1>3, <1>4, CommandGoes DEF Granted
  <1>7. OpenIsSettled'
    <2>1. /\ \A b \in Nat : (OneLoad(b)' <=> OneLoad(b)) /\ (NoMoreLoads(b)' <=> NoMoreLoads(b))
          /\ 0 \in Nat
      BY <1>1, <1>4, WorldStays
    <2> QED
      BY <1>1, <1>3, <2>1 DEF SettlingInv, OpenIsSettled
  <1> QED
    BY <1>5, <1>6, <1>7 DEF SettlingInv

--------------------------------
\* A navigation starts

LEMMA StartsIs ==
  ASSUME SettlingInv, page' = Starting, page.present, page.starts < MaxStarts, SameEvents,
         UNCHANGED <<handling, processed, owned, revision, opening>>
  PROVE  /\ page' \in [present : BOOLEAN, load : {"none", "started", "committed"}, waits : BOOLEAN,
                       dialog : BOOLEAN, starts : 0..MaxStarts]
         /\ page'.present /\ page'.load = "started" /\ page'.starts = page.starts + 1
         /\ \A b \in Nat : OneLoad(b) => OneLoad(b)'
         /\ RemovedLast' /\ OpenIsSettled'
  <1>1. /\ page.present \in BOOLEAN /\ page.load \in {"none", "started", "committed"}
        /\ page.waits \in BOOLEAN /\ page.dialog \in BOOLEAN /\ page.starts \in Nat
        /\ page.starts + 1 \in 0 .. MaxStarts
        /\ page = [present |-> page.present, load |-> page.load, waits |-> page.waits,
                   dialog |-> page.dialog, starts |-> page.starts]
    BY PageFields, SettlingConstants DEF SettlingInv
  <1>2. page' = [present |-> page.present, load |-> "started", waits |-> page.waits,
                 dialog |-> page.dialog, starts |-> page.starts + 1]
    BY <1>1 DEF Starting
  <1>3. /\ page' \in [present : BOOLEAN, load : {"none", "started", "committed"}, waits : BOOLEAN,
                      dialog : BOOLEAN, starts : 0..MaxStarts]
        /\ page'.present /\ page'.load = "started" /\ page'.starts = page.starts + 1
        /\ page'.waits = page.waits
    BY <1>1, <1>2
  <1>4. /\ \A e \in {"loading", "complete", "removed"} : Coming(e)' <=> Coming(e)
        /\ \A e, f \in {"loading", "complete", "removed"} : Follows(e, f)' <=> Follows(e, f)
    BY DEF SameEvents, Events
  <1>5. ASSUME NEW b \in Nat, OneLoad(b) PROVE OneLoad(b)'
    <2>1. page.load = "none" => ~page.waits
      BY DEF SettlingInv, PageTyped
    <2>2. CASE page.starts = b
      <3>1. ~Follows("complete", "loading")
        <4>1. ~Coming("complete") BY <1>5, <2>2 DEF OneLoad
        <4> QED
          BY <4>1 DEF Follows, Coming, InOrder, InQueue, InChrome, Has
      <3> QED
        BY <1>1, <1>3, <1>4, <1>5, <2>1, <2>2, <3>1 DEF OneLoad
    <2>3. CASE page.starts # b
      BY <1>1, <1>3, <1>5, <2>3 DEF OneLoad
    <2> QED
      BY <2>2, <2>3
  <1>6. RemovedLast'
    BY <1>3, <1>4 DEF SettlingInv, RemovedLast, Events
  <1>7. OpenIsSettled'
    <2>1. ASSUME opening.mode = "create"
          PROVE  OneLoad(0) /\ opening.at # "idle" /\ page.starts >= 1
      BY <2>1 DEF SettlingInv, OpenIsSettled
    <2>2. 0 \in Nat OBVIOUS
    <2> QED
      BY <1>1, <1>3, <1>5, <2>1, <2>2 DEF OpenIsSettled
  <1> QED
    BY <1>3, <1>5, <1>6, <1>7

\* No load can have been heard of that is still to begin.
LEMMA StartsUnsettled ==
  ASSUME SettlingInv, page' = Starting, page.present, page.starts < MaxStarts, SameEvents,
         UNCHANGED <<handling, processed, owned, revision, opening, acting>>
  PROVE  ActIsSettled'
  <1>1. /\ page'.present /\ page'.starts = page.starts + 1 /\ page.starts \in Nat
        /\ \A b \in Nat : OneLoad(b) => OneLoad(b)'
    BY StartsIs, PageFields DEF SettlingInv
  <1>2. ASSUME NEW b \in Nat, acting.at # "idle", acting.quiet, acting.starts = b
        PROVE  ActSettled(b)'
    <2>1. ActSettled(b) BY <1>2 DEF SettlingInv, ActIsSettled
    <2>2. OneLoad(b)' BY <1>1, <2>1 DEF ActSettled
    <2>3. CASE page.starts = b
      <3>1. ~NoMoreLoads(b) BY <2>3 DEF NoMoreLoads
      <3> QED
        BY <1>1, <2>1, <2>2, <2>3, <3>1 DEF ActSettled
    <2>4. CASE page.starts # b
      <3>1. page'.starts > b + 1 BY <1>1, <2>1, <2>4 DEF ActSettled, OneLoad
      <3> QED
        BY <1>1, <2>2, <3>1 DEF ActSettled
    <2> QED
      BY <2>3, <2>4
  <1> QED
    BY <1>2 DEF ActIsSettled

--------------------------------
\* browser_act

LEMMA ActBeginsKeeps ==
  ASSUME SettlingInv, ActBegins
  PROVE  SettlingInv'
  <1>1. /\ acting.at = "idle" /\ opening.at = "answered"
        /\ acting' = [acting EXCEPT !.at = "begun", !.started = FALSE, !.loaded = FALSE,
                        !.quiet = Quiescent /\ page.load = "none", !.starts = page.starts]
        /\ UNCHANGED Queues /\ UNCHANGED World /\ opening' = opening /\ owned' = owned
        /\ revision' = revision /\ chromeEvents' = chromeEvents /\ eventQueue' = eventQueue
    BY DEF ActBegins, Queues, World
  <1>2. /\ opening \in OpeningType /\ acting \in ActingType /\ page.starts \in Nat
        /\ eventQueue \in Seq(Events \cup Barriers)
    BY QueueTypes, PageFields DEF SettlingInv, PageTyped
  <1>3. /\ acting' \in ActingType /\ acting'.at = "begun" /\ ~acting'.loaded
        /\ acting'.starts = page.starts /\ acting'.late = acting.late
        /\ acting'.quiet => Quiescent /\ page.load = "none"
    BY <1>1, <1>2 DEF ActingType, ActingPlaces, Quiescent
  <1>4. SameEvents /\ (\A e : InQueue(e)' <=> InQueue(e))
    BY <1>1, SameQueues, QueuesStay
  <1>5. PageTyped' /\ RevisionCounted' /\ RemovedLast'
    BY <1>1, <1>2, <1>3, <1>4, CommandGoes DEF Granted
  <1>6. OpenIsSettled' BY <1>1, <1>4, OpenStays DEF SettlingInv
  <1>7. ActBarriers' BY <1>1, <1>3, <1>4 DEF SettlingInv, ActBarriers
  <1>8. ActIsSettled'
    <2>1. ASSUME Quiescent, page.load = "none", NEW b \in Nat, page.starts = b PROVE OneLoad(b)'
      <3>1. \A e : ~Coming(e)
        BY <2>1 DEF Quiescent, Coming, InQueue, InChrome, Has
      <3>2. OneLoad(b) BY <2>1, <3>1 DEF Quiescent, OneLoad
      <3> QED
        BY <1>1, <1>4, <3>2, WorldStays
    <2> QED
      BY <1>3, <2>1 DEF ActIsSettled, ActSettled
  <1> QED
    BY <1>5, <1>6, <1>7, <1>8 DEF SettlingInv

LEMMA ActNavigatesKeeps ==
  ASSUME SettlingInv, ActNavigates
  PROVE  SettlingInv'
  <1>1. /\ acting.at = "begun" /\ page.present
        /\ (page' = Starting /\ page.starts < MaxStarts) \/ page' = page
        /\ acting' = [acting EXCEPT !.at = "draining", !.passed = FALSE]
        /\ Joined("act") /\ opening' = opening /\ owned' = owned
        /\ revision' = revision /\ handling' = handling /\ processed' = processed
    BY DEF ActNavigates, Joined
  <1>2. /\ opening \in OpeningType /\ acting \in ActingType
    BY DEF SettlingInv, PageTyped
  <1>3. /\ acting' \in ActingType /\ acting'.at = "draining" /\ ~acting'.passed
        /\ acting'.loaded = acting.loaded
        /\ acting'.starts = acting.starts /\ acting'.late = acting.late
        /\ acting'.quiet = acting.quiet
    BY <1>1, <1>2 DEF ActingType, ActingPlaces
  <1>4. /\ eventQueue' \in Seq(Events \cup Barriers) /\ chromeEvents' = chromeEvents
        /\ \A e : InQueue(e)' <=> InQueue(e) \/ "act" = e
        /\ \A e, f : InOrder(eventQueue', e, f) <=>
             InOrder(eventQueue, e, f) \/ ("act" = f /\ InQueue(e))
        /\ SameEvents /\ CountIn(eventQueue') = CountIn(eventQueue)
    BY <1>1, JoinedIs DEF SettlingInv, SameEvents, Barriers
  <1>5. ActBarriers'
    <2>1. ~acting.late => ~InQueue("act") BY <1>1 DEF SettlingInv, ActBarriers
    <2>2. ~InQueue("act") => ~InOrder(eventQueue, "act", "act")
      BY DEF InQueue, InOrder, Has
    <2> QED
      BY <1>3, <1>4, <2>1, <2>2 DEF ActBarriers
  <1>6. CASE page' = page
    <2>1. UNCHANGED World BY <1>1, <1>6 DEF World
    <2>2. PageTyped' /\ RevisionCounted' /\ RemovedLast'
      BY <1>1, <1>2, <1>3, <1>4, <2>1, CommandGoes DEF Granted, SettlingInv, PageTyped
    <2>3. OpenIsSettled' BY <1>1, <1>4, <2>1, OpenStays DEF SettlingInv
    <2>4. \A b \in Nat : (OneLoad(b)' <=> OneLoad(b)) /\ (NoMoreLoads(b)' <=> NoMoreLoads(b))
      BY <1>4, <2>1, WorldStays
    <2>5. ActIsSettled'
      <3>1. InQueue("removed")' <=> InQueue("removed") BY <1>4
      <3> QED
        BY <1>1, <1>3, <1>6, <2>4, <3>1 DEF SettlingInv, ActIsSettled, ActSettled
    <2> QED
      BY <1>5, <2>2, <2>3, <2>5 DEF SettlingInv
  <1>7. CASE page' = Starting /\ page.starts < MaxStarts
    <2>1. /\ page' \in [present : BOOLEAN, load : {"none", "started", "committed"}, waits : BOOLEAN,
                        dialog : BOOLEAN, starts : 0..MaxStarts]
          /\ page'.present /\ page'.load = "started" /\ page'.starts = page.starts + 1
          /\ \A b \in Nat : OneLoad(b) => OneLoad(b)'
          /\ RemovedLast' /\ OpenIsSettled'
      BY <1>1, <1>4, <1>7, StartsIs
    <2>2. PageTyped'
      BY <1>1, <1>2, <1>3, <1>4, <2>1
      DEF SettlingInv, PageTyped, PageTypeOK, Granted, ActingType, ActingPlaces
    <2>3. RevisionCounted'
      BY <1>1, <1>4, <2>1, QueueTypes, PageFields DEF SettlingInv, RevisionCounted, Granted
    <2>4. ActIsSettled'
      <3>1. ASSUME NEW b \in Nat, acting.quiet, acting.starts = b PROVE ActSettled(b)'
        <4>1. ActSettled(b) BY <1>1, <3>1 DEF SettlingInv, ActIsSettled
        <4>2. OneLoad(b)' BY <2>1, <4>1 DEF ActSettled
        <4>3. page'.starts <= b + 1 => page.starts = b
          BY <2>1, <4>1, PageFields DEF SettlingInv, ActSettled, OneLoad
        <4>4. page.starts = b => ~acting.loaded
          BY <1>1, <4>1 DEF ActSettled, NoMoreLoads
        <4> QED
          BY <1>3, <4>2, <4>3, <4>4 DEF ActSettled
      <3> QED
        BY <1>3, <3>1 DEF ActIsSettled
    <2> QED
      BY <1>5, <2>1, <2>2, <2>3, <2>4 DEF SettlingInv
  <1> QED
    BY <1>1, <1>6, <1>7

\* The page and its events stay.
LEMMA ActGoes ==
  ASSUME SettlingInv, UNCHANGED World, UNCHANGED <<opening, owned, revision>>, SameEvents,
         acting.at # "idle",
         eventQueue' \in Seq(Events \cup Barriers), chromeEvents' = chromeEvents,
         CountIn(eventQueue') = CountIn(eventQueue), acting' \in ActingType
  PROVE  PageTyped' /\ RevisionCounted' /\ RemovedLast' /\ OpenIsSettled'
  <1>1. opening.at = "answered" /\ opening \in OpeningType /\ opening' = opening
    BY DEF SettlingInv, PageTyped
  <1>2. PageTyped' /\ RevisionCounted' /\ RemovedLast'
    BY <1>1, CommandGoes DEF Granted
  <1>3. OpenIsSettled' BY OpenStays DEF SettlingInv
  <1> QED
    BY <1>2, <1>3

LEMMA ActStopsKeeps ==
  ASSUME SettlingInv, ActStops
  PROVE  SettlingInv'
  <1>1. /\ acting.at = "begun" /\ acting' = [acting EXCEPT !.at = "unchanged"]
        /\ UNCHANGED Queues /\ UNCHANGED World /\ opening' = opening /\ owned' = owned
        /\ revision' = revision /\ chromeEvents' = chromeEvents /\ eventQueue' = eventQueue
        /\ page' = page
    BY DEF ActStops, Queues, World
  <1>2. /\ acting \in ActingType /\ eventQueue \in Seq(Events \cup Barriers)
    BY QueueTypes DEF SettlingInv, PageTyped
  <1>3. /\ acting' \in ActingType /\ acting'.at = "unchanged" /\ acting'.loaded = acting.loaded
        /\ acting'.starts = acting.starts /\ acting'.quiet = acting.quiet
    BY <1>1, <1>2 DEF ActingType, ActingPlaces
  <1>4. SameEvents /\ (\A e : InQueue(e)' <=> InQueue(e))
    BY <1>1, SameQueues, QueuesStay
  <1>5. PageTyped' /\ RevisionCounted' /\ RemovedLast' /\ OpenIsSettled'
    BY <1>1, <1>2, <1>3, <1>4, ActGoes
  <1>6. ActBarriers' BY <1>3 DEF ActBarriers
  <1>7. ActIsSettled'
    <2>1. \A b \in Nat : (OneLoad(b)' <=> OneLoad(b)) /\ (NoMoreLoads(b)' <=> NoMoreLoads(b))
      BY <1>1, <1>4, WorldStays
    <2> QED
      BY <1>1, <1>3, <1>4, <2>1 DEF SettlingInv, ActIsSettled, ActSettled
  <1> QED
    BY <1>5, <1>6, <1>7 DEF SettlingInv

LEMMA ActLooksKeeps ==
  ASSUME SettlingInv, ActLooks
  PROVE  SettlingInv'
  <1>1. /\ acting.at = "draining" /\ (acting.passed \/ acting.late)
        /\ acting' = [acting EXCEPT !.at = IF UnderWay THEN "waiting" ELSE "observing",
                        !.waited = UnderWay]
        /\ UNCHANGED Queues /\ UNCHANGED World /\ opening' = opening /\ owned' = owned
        /\ revision' = revision /\ chromeEvents' = chromeEvents /\ eventQueue' = eventQueue
        /\ page' = page
    BY DEF ActLooks, Queues, World
  <1>2. /\ acting \in ActingType /\ eventQueue \in Seq(Events \cup Barriers)
        /\ page.present \in BOOLEAN
    BY QueueTypes, PageFields DEF SettlingInv, PageTyped
  <1>3. /\ acting' \in ActingType /\ acting'.at \in {"waiting", "observing"}
        /\ acting'.at = "observing" => ~acting'.waited
        /\ acting'.loaded = acting.loaded /\ acting'.late = acting.late
        /\ acting'.starts = acting.starts /\ acting'.quiet = acting.quiet
    <2>1. UnderWay \in BOOLEAN BY <1>2 DEF UnderWay, ActingType
    <2> QED
      BY <1>1, <1>2, <2>1 DEF ActingType, ActingPlaces
  <1>4. SameEvents /\ (\A e : InQueue(e)' <=> InQueue(e))
    BY <1>1, SameQueues, QueuesStay
  <1>5. PageTyped' /\ RevisionCounted' /\ RemovedLast' /\ OpenIsSettled'
    BY <1>1, <1>2, <1>3, <1>4, ActGoes
  <1>6. ActBarriers' BY <1>1, <1>3, <1>4 DEF SettlingInv, ActBarriers
  <1>7. ActIsSettled'
    <2>1. \A b \in Nat : (OneLoad(b)' <=> OneLoad(b)) /\ (NoMoreLoads(b)' <=> NoMoreLoads(b))
      BY <1>1, <1>4, WorldStays
    <2> QED
      BY <1>1, <1>3, <1>4, <2>1 DEF SettlingInv, ActIsSettled, ActSettled
  <1> QED
    BY <1>5, <1>6, <1>7 DEF SettlingInv

LEMMA ActWaitedKeeps ==
  ASSUME SettlingInv, ActWaited
  PROVE  SettlingInv'
  <1>1. /\ acting.at = "waiting"
        /\ acting' = [acting EXCEPT !.at = "draining_again", !.passed = FALSE,
                        !.waited = acting.loaded]
        /\ Joined("act") /\ UNCHANGED World /\ opening' = opening /\ owned' = owned
        /\ revision' = revision /\ page' = page
    BY DEF ActWaited, Joined, World
  <1>2. /\ acting \in ActingType BY DEF SettlingInv, PageTyped
  <1>3. /\ acting' \in ActingType /\ acting'.at = "draining_again" /\ ~acting'.passed
        /\ acting'.waited = acting.loaded
        /\ acting'.loaded = acting.loaded /\ acting'.late = acting.late
        /\ acting'.starts = acting.starts /\ acting'.quiet = acting.quiet
    BY <1>1, <1>2 DEF ActingType, ActingPlaces
  <1>4. /\ eventQueue' \in Seq(Events \cup Barriers) /\ chromeEvents' = chromeEvents
        /\ \A e : InQueue(e)' <=> InQueue(e) \/ "act" = e
        /\ \A e, f : InOrder(eventQueue', e, f) <=>
             InOrder(eventQueue, e, f) \/ ("act" = f /\ InQueue(e))
        /\ SameEvents /\ CountIn(eventQueue') = CountIn(eventQueue)
    BY <1>1, JoinedIs DEF SettlingInv, SameEvents, Barriers
  <1>5. PageTyped' /\ RevisionCounted' /\ RemovedLast' /\ OpenIsSettled'
    BY <1>1, <1>2, <1>3, <1>4, ActGoes
  <1>6. ~acting.late => /\ ~InQueue("act") /\ \A f : ~InOrder(eventQueue, "act", f)
    <2>1. ~acting.late => ~InQueue("act") BY <1>1 DEF SettlingInv, ActBarriers
    <2> QED
      BY <2>1 DEF InQueue, InOrder, Has
  <1>7. ActBarriers' BY <1>3, <1>4, <1>6 DEF ActBarriers
  <1>8. ActIsSettled'
    <2>1. \A b \in Nat : (OneLoad(b)' <=> OneLoad(b)) /\ (NoMoreLoads(b)' <=> NoMoreLoads(b))
      BY <1>1, <1>4, WorldStays
    <2>2. /\ InQueue("removed")' <=> InQueue("removed")
          /\ ~acting.late /\ InQueue("removed") => HeardBefore'
      BY <1>3, <1>4, <1>6 DEF HeardBefore
    <2>3. ASSUME NEW b \in Nat, acting.quiet, acting.starts = b PROVE ActSettled(b)'
      <3>1. ActSettled(b) BY <1>1, <2>3 DEF SettlingInv, ActIsSettled
      <3> QED
        BY <1>1, <1>3, <2>1, <2>2, <3>1 DEF ActSettled
    <2> QED
      BY <1>3, <2>3 DEF ActIsSettled
  <1> QED
    BY <1>5, <1>7, <1>8 DEF SettlingInv

LEMMA ActDrainedKeeps ==
  ASSUME SettlingInv, ActDrained
  PROVE  SettlingInv'
  <1>1. /\ acting.at = "draining_again" /\ (acting.passed \/ acting.late)
        /\ acting' = [acting EXCEPT !.at = "observing"]
        /\ UNCHANGED Queues /\ UNCHANGED World /\ opening' = opening /\ owned' = owned
        /\ revision' = revision /\ chromeEvents' = chromeEvents /\ eventQueue' = eventQueue
        /\ page' = page
    BY DEF ActDrained, Queues, World
  <1>2. /\ acting \in ActingType /\ eventQueue \in Seq(Events \cup Barriers)
    BY QueueTypes DEF SettlingInv, PageTyped
  <1>3. /\ acting' \in ActingType /\ acting'.at = "observing" /\ acting'.loaded = acting.loaded
        /\ acting'.late = acting.late /\ acting'.waited = acting.waited
        /\ acting'.starts = acting.starts /\ acting'.quiet = acting.quiet
    BY <1>1, <1>2 DEF ActingType, ActingPlaces
  <1>4. SameEvents /\ (\A e : InQueue(e)' <=> InQueue(e))
    BY <1>1, SameQueues, QueuesStay
  <1>5. PageTyped' /\ RevisionCounted' /\ RemovedLast' /\ OpenIsSettled'
    BY <1>1, <1>2, <1>3, <1>4, ActGoes
  <1>6. ActBarriers' BY <1>3 DEF ActBarriers
  <1>7. ActIsSettled'
    <2>1. \A b \in Nat : (OneLoad(b)' <=> OneLoad(b)) /\ (NoMoreLoads(b)' <=> NoMoreLoads(b))
      BY <1>1, <1>4, WorldStays
    <2>2. HeardBefore => acting.late BY <1>1 DEF HeardBefore
    <2> QED
      BY <1>1, <1>3, <1>4, <2>1, <2>2 DEF SettlingInv, ActIsSettled, ActSettled
  <1> QED
    BY <1>5, <1>6, <1>7 DEF SettlingInv

LEMMA ActDeadlineKeeps ==
  ASSUME SettlingInv, ActDeadline
  PROVE  SettlingInv'
  <1>1. /\ acting.at # "idle" /\ acting' = [acting EXCEPT !.late = TRUE]
        /\ UNCHANGED Queues /\ UNCHANGED World /\ opening' = opening /\ owned' = owned
        /\ revision' = revision /\ chromeEvents' = chromeEvents /\ eventQueue' = eventQueue
        /\ page' = page
    BY DEF ActDeadline, Queues, World
  <1>2. /\ acting \in ActingType /\ eventQueue \in Seq(Events \cup Barriers)
    BY QueueTypes DEF SettlingInv, PageTyped
  <1>3. /\ acting' \in ActingType /\ acting'.at = acting.at /\ acting'.loaded = acting.loaded
        /\ acting'.late /\ acting'.starts = acting.starts /\ acting'.quiet = acting.quiet
    BY <1>1, <1>2 DEF ActingType
  <1>4. SameEvents /\ (\A e : InQueue(e)' <=> InQueue(e))
    BY <1>1, SameQueues, QueuesStay
  <1>5. PageTyped' /\ RevisionCounted' /\ RemovedLast' /\ OpenIsSettled'
    BY <1>1, <1>2, <1>3, <1>4, ActGoes
  <1>6. ActBarriers' BY <1>3 DEF ActBarriers
  <1>7. ActIsSettled'
    <2>1. \A b \in Nat : (OneLoad(b)' <=> OneLoad(b)) /\ (NoMoreLoads(b)' <=> NoMoreLoads(b))
      BY <1>1, <1>4, WorldStays
    <2> QED
      BY <1>1, <1>3, <1>4, <2>1 DEF SettlingInv, ActIsSettled, ActSettled
  <1> QED
    BY <1>5, <1>6, <1>7 DEF SettlingInv

LEMMA ActObservesKeeps ==
  ASSUME SettlingInv, ActObserves
  PROVE  SettlingInv'
  <1>1. /\ acting.at = "observing"
        /\ acting' = IF owned THEN [acting EXCEPT !.at = "answered", !.revision = revision]
                     ELSE [acting EXCEPT !.at = "unchanged"]
        /\ UNCHANGED Queues /\ UNCHANGED World /\ opening' = opening /\ owned' = owned
        /\ revision' = revision /\ chromeEvents' = chromeEvents /\ eventQueue' = eventQueue
        /\ page' = page
    BY DEF ActObserves, Queues, World
  <1>2. /\ acting \in ActingType /\ eventQueue \in Seq(Events \cup Barriers) /\ revision \in Nat
    BY QueueTypes, PageFields DEF SettlingInv, PageTyped
  <1>3. /\ acting' \in ActingType /\ acting'.at \in {"answered", "unchanged"}
        /\ acting'.at = "answered" => owned /\ acting'.revision = revision
        /\ acting'.loaded = acting.loaded
        /\ acting'.late = acting.late /\ acting'.waited = acting.waited
        /\ acting'.starts = acting.starts /\ acting'.quiet = acting.quiet
    BY <1>1, <1>2 DEF ActingType, ActingPlaces
  <1>4. SameEvents /\ (\A e : InQueue(e)' <=> InQueue(e))
    BY <1>1, SameQueues, QueuesStay
  <1>5. PageTyped' /\ RevisionCounted' /\ RemovedLast' /\ OpenIsSettled'
    BY <1>1, <1>2, <1>3, <1>4, ActGoes
  <1>6. ActBarriers' BY <1>3 DEF ActBarriers
  <1>7. ActIsSettled'
    <2>1. \A b \in Nat : (OneLoad(b)' <=> OneLoad(b)) /\ (NoMoreLoads(b)' <=> NoMoreLoads(b))
      BY <1>1, <1>4, WorldStays
    <2> QED
      BY <1>1, <1>3, <1>4, <2>1 DEF SettlingInv, ActIsSettled, ActSettled
  <1> QED
    BY <1>5, <1>6, <1>7 DEF SettlingInv

--------------------------------
\* The page

LEMMA PageStartsKeeps ==
  ASSUME SettlingInv, PageStarts
  PROVE  SettlingInv'
  <1>1. /\ page.present /\ page.starts < MaxStarts /\ page' = Starting /\ UNCHANGED Queues
        /\ chromeEvents' = chromeEvents /\ eventQueue' = eventQueue /\ handling' = handling
        /\ owned' = owned /\ revision' = revision /\ processed' = processed
        /\ opening' = opening /\ acting' = acting
    BY DEF PageStarts, Queues
  <1>2. SameEvents BY <1>1, SameQueues
  <1>3. /\ page' \in [present : BOOLEAN, load : {"none", "started", "committed"}, waits : BOOLEAN,
                      dialog : BOOLEAN, starts : 0..MaxStarts]
        /\ page'.present /\ page'.load = "started" /\ page'.starts = page.starts + 1
        /\ RemovedLast' /\ OpenIsSettled'
    BY <1>1, <1>2, StartsIs
  <1>4. ActIsSettled' BY <1>1, <1>2, StartsUnsettled
  <1>5. ActBarriers' BY <1>1 DEF SettlingInv, ActBarriers, InQueue
  <1>6. PageTyped' BY <1>1, <1>3 DEF SettlingInv, PageTyped, PageTypeOK, Granted
  <1>7. RevisionCounted'
    BY <1>1, <1>3, QueueTypes, PageFields DEF SettlingInv, RevisionCounted, Granted
  <1> QED
    BY <1>3, <1>4, <1>5, <1>6, <1>7 DEF SettlingInv

\* The page goes on with what it has begun.
LEMMA LoadGoes ==
  ASSUME SettlingInv, UNCHANGED <<eventQueue, handling, owned, revision, processed, opening, acting>>,
         page.present, page'.starts = page.starts, page'.load = "none" => ~page'.waits \/ ~page'.present,
         page' \in [present : BOOLEAN, load : {"none", "started", "committed"}, waits : BOOLEAN,
                    dialog : BOOLEAN, starts : 0..MaxStarts],
         chromeEvents' \in Seq(Events),
         \A b \in Nat : OneLoad(b) => OneLoad(b)',
         \A b \in Nat : NoMoreLoads(b) => NoMoreLoads(b)'
  PROVE  PageTyped' /\ OpenIsSettled' /\ ActBarriers' /\ ActIsSettled'
  <1>1. PageTyped' BY DEF SettlingInv, PageTyped, PageTypeOK, Granted
  <1>2. OpenIsSettled'
    <2>1. 0 \in Nat OBVIOUS
    <2> QED
      BY <2>1 DEF SettlingInv, OpenIsSettled
  <1>3. ActBarriers' BY DEF SettlingInv, ActBarriers, InQueue
  <1>4. ActIsSettled'
    <2>1. ASSUME NEW b \in Nat, acting.at # "idle", acting.quiet, acting.starts = b
          PROVE  ActSettled(b)'
      <3>1. ActSettled(b) BY <2>1 DEF SettlingInv, ActIsSettled
      <3> QED
        BY <3>1 DEF ActSettled
    <2> QED
      BY <2>1 DEF ActIsSettled
  <1> QED
    BY <1>1, <1>2, <1>3, <1>4

LEMMA PageCommitsKeeps ==
  ASSUME SettlingInv, PageCommits
  PROVE  SettlingInv'
  <1>1. /\ page.present /\ page.load = "started" /\ Dispatched("loading")
        /\ page' = [page EXCEPT !.load = "committed", !.waits = TRUE]
        /\ eventQueue' = eventQueue /\ handling' = handling
        /\ owned' = owned /\ revision' = revision /\ processed' = processed
        /\ opening' = opening /\ acting' = acting
    BY DEF PageCommits, Dispatched
  <1>2. /\ page' \in [present : BOOLEAN, load : {"none", "started", "committed"}, waits : BOOLEAN,
                      dialog : BOOLEAN, starts : 0..MaxStarts]
        /\ page'.present /\ page'.load = "committed" /\ page'.starts = page.starts
    <2>1. page \in [present : BOOLEAN, load : {"none", "started", "committed"}, waits : BOOLEAN,
                    dialog : BOOLEAN, starts : 0..MaxStarts]
      BY DEF SettlingInv, PageTyped, PageTypeOK
    <2> QED
      BY <1>1, <2>1
  <1>3. /\ chromeEvents' \in Seq(Events)
        /\ \A e : Coming(e)' <=> Coming(e) \/ "loading" = e
        /\ \A e, f : Follows(e, f)' => Follows(e, f) \/ ("loading" = f /\ Coming(e))
        /\ CountIn(chromeEvents') = CountIn(chromeEvents) + 1
    BY <1>1, DispatchedIs DEF SettlingInv, Events
  <1>4. ASSUME NEW b \in Nat, OneLoad(b) PROVE OneLoad(b)'
    <2>1. page.starts # b /\ page.starts \in Nat BY <1>1, <1>4, PageFields DEF OneLoad, SettlingInv
    <2> QED
      BY <1>1, <1>2, <1>3, <1>4, <2>1 DEF OneLoad
  <1>5. \A b \in Nat : NoMoreLoads(b) => NoMoreLoads(b)' BY <1>1 DEF NoMoreLoads
  <1>6. PageTyped' /\ OpenIsSettled' /\ ActBarriers' /\ ActIsSettled'
    BY <1>1, <1>2, <1>3, <1>4, <1>5, LoadGoes
  <1>7. RevisionCounted'
    BY <1>1, <1>2, <1>3, QueueTypes, PageFields DEF SettlingInv, RevisionCounted, Granted
  <1>8. RemovedLast'
    <2>1. ~Coming("removed") /\ handling # "removed" BY <1>1 DEF SettlingInv, RemovedLast
    <2> QED
      BY <1>1, <1>2, <1>3, <2>1 DEF SettlingInv, RemovedLast
  <1> QED
    BY <1>6, <1>7, <1>8 DEF SettlingInv

LEMMA PageStopsKeeps ==
  ASSUME SettlingInv, PageStops
  PROVE  SettlingInv'
  <1>1. /\ page.present /\ page.load # "none"
        /\ page' = [page EXCEPT !.load = "none", !.waits = FALSE]
        /\ Dispatched("complete") \/ UNCHANGED Queues
        /\ eventQueue' = eventQueue /\ handling' = handling
        /\ owned' = owned /\ revision' = revision /\ processed' = processed
        /\ opening' = opening /\ acting' = acting
    BY DEF PageStops, Dispatched, Queues
  <1>2. /\ page' \in [present : BOOLEAN, load : {"none", "started", "committed"}, waits : BOOLEAN,
                      dialog : BOOLEAN, starts : 0..MaxStarts]
        /\ page'.present /\ page'.load = "none" /\ ~page'.waits /\ page'.starts = page.starts
    <2>1. page \in [present : BOOLEAN, load : {"none", "started", "committed"}, waits : BOOLEAN,
                    dialog : BOOLEAN, starts : 0..MaxStarts]
      BY DEF SettlingInv, PageTyped, PageTypeOK
    <2> QED
      BY <1>1, <2>1
  <1>3. /\ chromeEvents' \in Seq(Events)
        /\ \A e : Coming(e)' => Coming(e) \/ "complete" = e
        /\ \A e, f : Follows(e, f)' => Follows(e, f) \/ ("complete" = f /\ Coming(e))
        /\ CountIn(chromeEvents') = CountIn(chromeEvents)
    <2>1. CASE Dispatched("complete")
      <3>1. "complete" \in Events /\ CountIn(chromeEvents) \in Nat
        BY QueueTypes DEF Events, SettlingInv
      <3> QED
        BY <2>1, <3>1, DispatchedIs DEF SettlingInv
    <2>2. CASE UNCHANGED Queues BY <2>2, QueuesStay, QueueTypes DEF SettlingInv
    <2> QED
      BY <1>1, <2>1, <2>2
  <1>4. ASSUME NEW b \in Nat, OneLoad(b) PROVE OneLoad(b)'
    <2>1. page.starts # b /\ page.starts \in Nat BY <1>1, <1>4, PageFields DEF OneLoad, SettlingInv
    <2> QED
      BY <1>1, <1>2, <1>3, <1>4, <2>1 DEF OneLoad
  <1>5. \A b \in Nat : NoMoreLoads(b) => NoMoreLoads(b)' BY <1>2, <1>3 DEF NoMoreLoads
  <1>6. PageTyped' /\ OpenIsSettled' /\ ActBarriers' /\ ActIsSettled'
    BY <1>1, <1>2, <1>3, <1>4, <1>5, LoadGoes
  <1>7. RevisionCounted'
    BY <1>1, <1>2, <1>3, QueueTypes, PageFields DEF SettlingInv, RevisionCounted, Granted
  <1>8. RemovedLast'
    <2>1. ~Coming("removed") /\ handling # "removed" BY <1>1 DEF SettlingInv, RemovedLast
    <2> QED
      BY <1>1, <1>2, <1>3, <2>1 DEF SettlingInv, RemovedLast
  <1> QED
    BY <1>6, <1>7, <1>8 DEF SettlingInv

LEMMA PageAsksKeeps ==
  ASSUME SettlingInv, PageAsks
  PROVE  SettlingInv'
  <1>1. /\ page.present /\ page.load = "started" /\ page' = [page EXCEPT !.dialog = ~@]
        /\ UNCHANGED Queues /\ chromeEvents' = chromeEvents
        /\ eventQueue' = eventQueue /\ handling' = handling
        /\ owned' = owned /\ revision' = revision /\ processed' = processed
        /\ opening' = opening /\ acting' = acting
    BY DEF PageAsks, Queues
  <1>2. /\ page' \in [present : BOOLEAN, load : {"none", "started", "committed"}, waits : BOOLEAN,
                      dialog : BOOLEAN, starts : 0..MaxStarts]
        /\ page'.present = page.present /\ page'.load = page.load /\ page'.waits = page.waits
        /\ page'.starts = page.starts
    <2>1. page \in [present : BOOLEAN, load : {"none", "started", "committed"}, waits : BOOLEAN,
                    dialog : BOOLEAN, starts : 0..MaxStarts]
      BY DEF SettlingInv, PageTyped, PageTypeOK
    <2> QED
      BY <1>1, <2>1
  <1>3. /\ chromeEvents \in Seq(Events) /\ \A e : Coming(e)' <=> Coming(e)
        /\ \A e, f : Follows(e, f)' <=> Follows(e, f)
    BY <1>1, QueuesStay, QueueTypes DEF SettlingInv
  <1>4. \A b \in Nat : OneLoad(b) => OneLoad(b)' BY <1>1, <1>2, <1>3 DEF OneLoad
  <1>5. \A b \in Nat : NoMoreLoads(b) => NoMoreLoads(b)' BY <1>2, <1>3 DEF NoMoreLoads
  <1>6. PageTyped' /\ OpenIsSettled' /\ ActBarriers' /\ ActIsSettled'
    BY <1>1, <1>2, <1>3, <1>4, <1>5, LoadGoes
  <1>7. RevisionCounted' BY <1>1, <1>2 DEF SettlingInv, RevisionCounted, Granted
  <1>8. RemovedLast' BY <1>1, <1>2, <1>3 DEF SettlingInv, RemovedLast
  <1> QED
    BY <1>6, <1>7, <1>8 DEF SettlingInv

LEMMA UserClosesKeeps ==
  ASSUME SettlingInv, UserCloses
  PROVE  SettlingInv'
  <1>1. /\ page.present /\ Dispatched("removed")
        /\ page' = [page EXCEPT !.present = FALSE, !.load = "none", !.dialog = FALSE]
        /\ eventQueue' = eventQueue /\ handling' = handling
        /\ owned' = owned /\ revision' = revision /\ processed' = processed
        /\ opening' = opening /\ acting' = acting
    BY DEF UserCloses, Dispatched
  <1>2. /\ page' \in [present : BOOLEAN, load : {"none", "started", "committed"}, waits : BOOLEAN,
                      dialog : BOOLEAN, starts : 0..MaxStarts]
        /\ ~page'.present /\ page'.load = "none" /\ page'.starts = page.starts
    <2>1. page \in [present : BOOLEAN, load : {"none", "started", "committed"}, waits : BOOLEAN,
                    dialog : BOOLEAN, starts : 0..MaxStarts]
      BY DEF SettlingInv, PageTyped, PageTypeOK
    <2> QED
      BY <1>1, <2>1
  <1>3. /\ chromeEvents' \in Seq(Events)
        /\ \A e : Coming(e)' <=> Coming(e) \/ "removed" = e
        /\ \A e, f : Follows(e, f)' => Follows(e, f) \/ ("removed" = f /\ Coming(e))
        /\ CountIn(chromeEvents') = CountIn(chromeEvents)
    <2>1. "removed" \in Events /\ CountIn(chromeEvents) \in Nat
      BY QueueTypes DEF Events, SettlingInv
    <2> QED
      BY <1>1, <2>1, DispatchedIs DEF SettlingInv
  <1>4. ASSUME NEW b \in Nat, OneLoad(b) PROVE OneLoad(b)'
    BY <1>1, <1>2, <1>3, <1>4 DEF OneLoad
  <1>5. \A b \in Nat : NoMoreLoads(b) => NoMoreLoads(b)' BY <1>2, <1>3 DEF NoMoreLoads
  <1>6. PageTyped' /\ OpenIsSettled' /\ ActBarriers' /\ ActIsSettled'
    BY <1>1, <1>2, <1>3, <1>4, <1>5, LoadGoes
  <1>7. RevisionCounted'
    BY <1>1, <1>2, <1>3, QueueTypes, PageFields DEF SettlingInv, RevisionCounted, Granted
  <1>8. RemovedLast'
    <2>1. ~Coming("removed") /\ handling # "removed" BY <1>1 DEF SettlingInv, RemovedLast
    <2> QED
      BY <1>1, <1>2, <1>3, <2>1 DEF SettlingInv, RemovedLast
  <1> QED
    BY <1>6, <1>7, <1>8 DEF SettlingInv

--------------------------------
\* The tab events

LEMMA DeliverKeeps ==
  ASSUME SettlingInv, Deliver
  PROVE  SettlingInv'
  <1> DEFINE x == Head(chromeEvents)
  <1>1. /\ chromeEvents # <<>> /\ chromeEvents' = Tail(chromeEvents)
        /\ eventQueue' = Append(eventQueue, Head(chromeEvents))
        /\ opening' = IF x = "removed" THEN [opening EXCEPT !.released = TRUE] ELSE opening
        /\ acting' = IF x = "removed" THEN [acting EXCEPT !.loaded = TRUE] ELSE acting
        /\ page' = page /\ handling' = handling /\ owned' = owned /\ revision' = revision
        /\ processed' = processed
    BY DEF Deliver, OnRemovedReleases
  <1>2. /\ chromeEvents' \in Seq(Events) /\ eventQueue' \in Seq(Events \cup Barriers)
        /\ x \in Events /\ InChrome(x)
        /\ \A e : InQueue(e)' <=> InQueue(e) \/ x = e
        /\ \A e : Coming(e)' <=> Coming(e)
        /\ \A e, f : Follows(e, f)' => Follows(e, f)
        /\ \A e, f : InOrder(eventQueue', e, f) => InOrder(eventQueue, e, f) \/ (x = f /\ InQueue(e))
        /\ CountIn(eventQueue') + CountIn(chromeEvents') = CountIn(eventQueue) + CountIn(chromeEvents)
    BY <1>1, DeliveredIs DEF SettlingInv
  <1>3. opening \in OpeningType /\ acting \in ActingType BY DEF SettlingInv, PageTyped
  <1> HIDE DEF x
  <1>4. /\ opening' \in OpeningType /\ opening'.at = opening.at /\ opening'.mode = opening.mode
        /\ opening'.late = opening.late /\ opening'.revision = opening.revision
        /\ opening'.released <=> opening.released \/ x = "removed"
    BY <1>1, <1>3 DEF OpeningType
  <1>5. /\ acting' \in ActingType /\ acting'.at = acting.at /\ acting'.passed = acting.passed
        /\ acting'.late = acting.late /\ acting'.quiet = acting.quiet
        /\ acting'.starts = acting.starts /\ acting'.waited = acting.waited
        /\ acting'.revision = acting.revision
        /\ acting'.loaded <=> acting.loaded \/ x = "removed"
    BY <1>1, <1>3 DEF ActingType
  <1>6. x = "removed" => ~page.present /\ Coming("removed") /\ ~InQueue("removed")
    BY <1>2 DEF SettlingInv, RemovedLast, Coming, Follows, Events
  <1>7. x # "act" BY <1>2 DEF Events
  <1>8. PageTyped' BY <1>1, <1>2, <1>4, <1>5 DEF SettlingInv, PageTyped, PageTypeOK, Granted
  <1>9. RevisionCounted'
    <2>1. /\ CountIn(eventQueue) \in Nat /\ CountIn(chromeEvents) \in Nat
          /\ CountIn(eventQueue') \in Nat /\ CountIn(chromeEvents') \in Nat /\ revision \in Nat
      BY <1>2, QueueTypes, PageFields, CountFinite DEF SettlingInv
    <2>2. CountIn(eventQueue') + CountIn(chromeEvents') = CountIn(eventQueue) + CountIn(chromeEvents)
      BY <1>2
    <2>3. revision + CountIn(eventQueue') + CountIn(chromeEvents')
            = revision + CountIn(eventQueue) + CountIn(chromeEvents)
      BY <2>1, <2>2
    <2> QED
      BY <1>1, <1>4, <2>3 DEF SettlingInv, RevisionCounted, Granted
  <1>10. RemovedLast' BY <1>1, <1>2, <1>4 DEF SettlingInv, RemovedLast
  <1>11. \A b \in Nat : (OneLoad(b) => OneLoad(b)') /\ (NoMoreLoads(b)' <=> NoMoreLoads(b))
    BY <1>1, <1>2 DEF OneLoad, NoMoreLoads
  <1>12. OpenIsSettled'
    <2>1. 0 \in Nat OBVIOUS
    <2> QED
      BY <1>1, <1>2, <1>4, <1>6, <1>11, <2>1 DEF SettlingInv, OpenIsSettled
  <1>13. ActBarriers' BY <1>2, <1>5, <1>7 DEF SettlingInv, ActBarriers
  <1>14. ActIsSettled'
    <2>1. HeardBefore => HeardBefore' BY <1>2, <1>5, <1>6 DEF HeardBefore
    <2>2. ASSUME NEW b \in Nat, acting.at # "idle", acting.quiet, acting.starts = b
          PROVE  ActSettled(b)'
      <3>1. ActSettled(b) BY <2>2 DEF SettlingInv, ActIsSettled
      <3> QED
        BY <1>1, <1>2, <1>5, <1>6, <1>11, <2>1, <3>1 DEF ActSettled
    <2> QED
      BY <1>5, <2>2 DEF ActIsSettled
  <1> QED
    BY <1>8, <1>9, <1>10, <1>12, <1>13, <1>14 DEF SettlingInv

LEMMA HandleEventKeeps ==
  ASSUME SettlingInv, HandleEvent
  PROVE  SettlingInv'
  <1> DEFINE x == Head(eventQueue)
  <1>1. /\ Taken /\ handling = "none" /\ handling' = x /\ x \in Events
        /\ revision' = IF x = "loading" /\ owned THEN revision + 1 ELSE revision
        /\ processed' = IF x = "removed" THEN FALSE ELSE processed
        /\ owned' = IF x = "removed" THEN FALSE ELSE owned
        /\ page' = page /\ opening' = opening /\ acting' = acting
    BY DEF HandleEvent, Taken, MarkRevision
  <1>2. /\ eventQueue' \in Seq(Events \cup Barriers) /\ chromeEvents' = chromeEvents
        /\ \A e : InQueue(e) <=> x = e \/ InQueue(e)'
        /\ \A e : Coming(e) <=> x = e \/ Coming(e)'
        /\ \A e, f : Follows(e, f)' => Follows(e, f)
        /\ \A f : Coming(f)' => Follows(x, f)
        /\ \A e, f : InOrder(eventQueue', e, f) => InOrder(eventQueue, e, f)
        /\ CountIn(eventQueue) = CountIn(eventQueue') + IF x = "loading" THEN 1 ELSE 0
        /\ CountIn(eventQueue') \in Nat
    BY <1>1, TakenIs DEF SettlingInv
  <1> HIDE DEF x
  <1>3. x \in {"loading", "complete", "removed"} BY <1>1 DEF Events
  <1>4. /\ revision \in Nat /\ page.starts \in Nat /\ page.starts <= MaxStarts
        /\ revision <= page.starts + 1
        /\ x = "loading" => revision + 1 <= page.starts + 1
        /\ RevisionCounted'
    <2>1. /\ CountIn(chromeEvents) \in Nat /\ revision \in Nat /\ page.starts \in Nat
          /\ page.starts <= MaxStarts
      BY QueueTypes, PageFields DEF SettlingInv
    <2>2. RevisionCounted BY DEF SettlingInv
    <2>3. CountIn(eventQueue) = CountIn(eventQueue') + IF x = "loading" THEN 1 ELSE 0
      BY <1>2
    <2>4. /\ revision + CountIn(eventQueue) <= page.starts + 1
      BY <1>2, <2>1, <2>2 DEF RevisionCounted
    <2>5. revision' + CountIn(eventQueue') <= revision + CountIn(eventQueue) /\ revision' \in Nat
      BY <1>1, <1>2, <2>1, <2>3
    <2>6. Granted' <=> Granted BY <1>1 DEF Granted
    <2>7. RevisionCounted'
      BY <1>1, <1>2, <2>1, <2>2, <2>5, <2>6 DEF RevisionCounted
    <2> QED
      BY <1>2, <2>1, <2>3, <2>4, <2>7
  <1>5. PageTyped'
    <2>1. revision' \in 0 .. (MaxStarts + 1) BY <1>1, <1>4, SettlingConstants
    <2>2. owned' \in BOOLEAN /\ processed' \in BOOLEAN /\ handling' \in Events \cup {"none"}
      BY <1>1 DEF SettlingInv, PageTyped, PageTypeOK
    <2>3. ~Granted' => ~owned' /\ revision' = 0 BY <1>1 DEF SettlingInv, PageTyped, Granted
    <2> QED
      BY <1>1, <1>2, <2>1, <2>2, <2>3 DEF SettlingInv, PageTyped, PageTypeOK
  <1>6. RemovedLast'
    <2>1. x = "removed" => \A e \in Events : ~Coming(e)'
      BY <1>2 DEF SettlingInv, RemovedLast
    <2>2. page.present => ~Coming("removed")' /\ x # "removed"
      BY <1>2 DEF SettlingInv, RemovedLast
    <2>3. ~page.present /\ opening.at # "idle" =>
            \/ Coming("removed")'
            \/ ~processed' /\ x # "complete" /\ ~Coming("complete")'
      <3>1. "complete" \in Events BY DEF Events
      <3> QED
        BY <1>1, <1>2, <2>1, <3>1 DEF SettlingInv, RemovedLast
    <2> QED
      BY <1>1, <1>2, <2>1, <2>2, <2>3 DEF SettlingInv, RemovedLast
  <1>7. \A b \in Nat : /\ OneLoad(b) => OneLoad(b)'
                       /\ NoMoreLoads(b) => NoMoreLoads(b)' /\ revision' = revision
    BY <1>1, <1>2 DEF OneLoad, NoMoreLoads
  <1>8. OpenIsSettled'
    <2>1. 0 \in Nat OBVIOUS
    <2> QED
      BY <1>1, <1>2, <1>7, <2>1 DEF SettlingInv, OpenIsSettled
  <1>9. ActBarriers' BY <1>1, <1>2 DEF SettlingInv, ActBarriers
  <1>10. ActIsSettled'
    <2>1. HeardBefore => HeardBefore' \/ ~owned' BY <1>1, <1>2 DEF HeardBefore
    <2>2. ASSUME NEW b \in Nat, acting.at # "idle", acting.quiet, acting.starts = b
          PROVE  ActSettled(b)'
      <3>1. ActSettled(b) BY <2>2 DEF SettlingInv, ActIsSettled
      <3> QED
        BY <1>1, <1>2, <1>4, <1>7, <2>1, <3>1 DEF ActSettled
    <2> QED
      BY <1>1, <2>2 DEF ActIsSettled
  <1> QED
    BY <1>4, <1>5, <1>6, <1>8, <1>9, <1>10 DEF SettlingInv

LEMMA FinishEventKeeps ==
  ASSUME SettlingInv, FinishEvent
  PROVE  SettlingInv'
  <1>1. /\ UNCHANGED Queues /\ eventQueue' = eventQueue /\ chromeEvents' = chromeEvents
        /\ handling # "none" /\ handling' = "none"
        /\ processed' = (processed \/ handling = "complete")
        /\ opening' = [opening EXCEPT !.released = @ \/ handling = "complete"]
        /\ acting' = [acting EXCEPT !.started = @ \/ handling = "loading",
                                    !.loaded = @ \/ handling = "complete"]
        /\ page' = page /\ owned' = owned /\ revision' = revision
    BY DEF FinishEvent, Queues
  <1>2. opening \in OpeningType /\ acting \in ActingType /\ processed \in BOOLEAN
    BY DEF SettlingInv, PageTyped, PageTypeOK
  <1>3. /\ opening' \in OpeningType /\ opening'.at = opening.at /\ opening'.mode = opening.mode
        /\ opening'.late = opening.late /\ opening'.revision = opening.revision
        /\ opening'.released <=> opening.released \/ handling = "complete"
    BY <1>1, <1>2 DEF OpeningType
  <1>4. /\ acting' \in ActingType /\ acting'.at = acting.at /\ acting'.passed = acting.passed
        /\ acting'.late = acting.late /\ acting'.quiet = acting.quiet
        /\ acting'.starts = acting.starts /\ acting'.waited = acting.waited
        /\ acting'.revision = acting.revision
        /\ acting'.loaded <=> acting.loaded \/ handling = "complete"
    BY <1>1, <1>2 DEF ActingType
  <1>5. /\ \A e : (InQueue(e)' <=> InQueue(e)) /\ (Coming(e)' <=> Coming(e))
        /\ \A e, f : Follows(e, f)' <=> Follows(e, f)
    BY <1>1, QueuesStay
  <1>6. PageTyped' BY <1>1, <1>2, <1>3, <1>4 DEF SettlingInv, PageTyped, PageTypeOK, Granted
  <1>7. RevisionCounted' BY <1>1, <1>3 DEF SettlingInv, RevisionCounted, Granted
  <1>8. RemovedLast' BY <1>1, <1>3, <1>5 DEF SettlingInv, RemovedLast
  <1>9. \A b \in Nat : (OneLoad(b) => OneLoad(b)') /\ (NoMoreLoads(b)' <=> NoMoreLoads(b))
    BY <1>1, <1>5 DEF OneLoad, NoMoreLoads
  \* The end of the load is the end of the only one.
  <1>10. ASSUME NEW b \in Nat, OneLoad(b), page.starts <= b + 1, handling = "complete"
         PROVE  NoMoreLoads(b)
    <2>1. page.starts = b \/ page.starts = b + 1 BY <1>10, PageFields DEF OneLoad, SettlingInv
    <2> QED
      BY <1>10, <2>1 DEF OneLoad, NoMoreLoads
  <1>11. OpenIsSettled'
    <2>1. 0 \in Nat /\ 0 + 1 = 1 OBVIOUS
    <2>2. SUFFICES ASSUME opening.mode = "create" PROVE OpenIsSettled'
      BY <1>3 DEF OpenIsSettled
    <2>3. OneLoad(0) /\ OneLoad(0)' /\ (NoMoreLoads(0)' <=> NoMoreLoads(0))
      BY <1>9, <2>1, <2>2 DEF SettlingInv, OpenIsSettled
    <2>4. handling = "complete" /\ page.starts <= 1 => NoMoreLoads(0) BY <1>10, <2>1, <2>3
    <2>5. opening.at = "idle" => handling # "complete"
      BY <2>2, <2>3 DEF SettlingInv, OpenIsSettled, OneLoad
    <2> QED
      BY <1>1, <1>3, <1>5, <2>2, <2>3, <2>4, <2>5 DEF SettlingInv, OpenIsSettled
  <1>12. ActBarriers' BY <1>1, <1>4, <1>5 DEF SettlingInv, ActBarriers
  <1>13. ActIsSettled'
    <2>1. HeardBefore' <=> HeardBefore BY <1>1, <1>4, <1>5 DEF HeardBefore
    <2>2. ASSUME NEW b \in Nat, acting.at # "idle", acting.quiet, acting.starts = b
          PROVE  ActSettled(b)'
      <3>1. ActSettled(b) BY <2>2 DEF SettlingInv, ActIsSettled
      <3>2. handling = "complete" /\ page.starts <= b + 1 => NoMoreLoads(b)
        BY <1>10, <3>1 DEF ActSettled
      <3> QED
        BY <1>1, <1>4, <1>5, <1>9, <2>1, <3>1, <3>2 DEF ActSettled
    <2> QED
      BY <1>4, <2>2 DEF ActIsSettled
  <1> QED
    BY <1>6, <1>7, <1>8, <1>11, <1>12, <1>13 DEF SettlingInv

LEMMA ReachBarrierKeeps ==
  ASSUME SettlingInv, ReachBarrier
  PROVE  SettlingInv'
  <1> DEFINE x == Head(eventQueue)
  <1>1. /\ Taken /\ x \in Barriers /\ page' = page /\ handling' = handling /\ owned' = owned
        /\ revision' = revision /\ processed' = processed
        /\ opening' = IF x = "open" THEN [opening EXCEPT !.passed = TRUE] ELSE opening
        /\ acting' = IF x = "open" THEN acting ELSE [acting EXCEPT !.passed = TRUE]
    BY DEF ReachBarrier, Taken
  <1>2. /\ eventQueue' \in Seq(Events \cup Barriers) /\ chromeEvents' = chromeEvents
        /\ \A e : InQueue(e) <=> x = e \/ InQueue(e)'
        /\ \A e : Coming(e) <=> x = e \/ Coming(e)'
        /\ \A e, f : Follows(e, f)' => Follows(e, f)
        /\ \A e, f : InOrder(eventQueue', e, f) => InOrder(eventQueue, e, f)
        /\ \A f : InQueue(f)' => InOrder(eventQueue, x, f)
        /\ CountIn(eventQueue) = CountIn(eventQueue') + IF x = "loading" THEN 1 ELSE 0
        /\ CountIn(eventQueue') \in Nat
    BY <1>1, TakenIs DEF SettlingInv
  <1> HIDE DEF x
  <1>3. /\ x \in {"open", "act"} /\ x \notin Events BY <1>1 DEF Barriers, Events
  <1>4. /\ \A e \in Events : (InQueue(e)' <=> InQueue(e)) /\ (Coming(e)' <=> Coming(e))
        /\ CountIn(eventQueue') = CountIn(eventQueue)
        /\ Events = {"loading", "complete", "removed"}
    BY <1>2, <1>3 DEF Events
  <1>5. opening \in OpeningType /\ acting \in ActingType BY DEF SettlingInv, PageTyped
  <1>6. /\ opening' \in OpeningType /\ opening'.at = opening.at /\ opening'.mode = opening.mode
        /\ opening'.late = opening.late /\ opening'.revision = opening.revision
        /\ opening'.released = opening.released
    BY <1>1, <1>5 DEF OpeningType
  <1>7. /\ acting' \in ActingType /\ acting'.at = acting.at /\ acting'.loaded = acting.loaded
        /\ acting'.late = acting.late /\ acting'.quiet = acting.quiet
        /\ acting'.starts = acting.starts /\ acting'.waited = acting.waited
        /\ acting'.revision = acting.revision
        /\ acting'.passed <=> acting.passed \/ x = "act"
    BY <1>1, <1>3, <1>5 DEF ActingType
  <1>8. PageTyped' BY <1>1, <1>2, <1>6, <1>7 DEF SettlingInv, PageTyped, PageTypeOK, Granted
  <1>9. RevisionCounted' BY <1>1, <1>2, <1>4, <1>6 DEF SettlingInv, RevisionCounted, Granted
  <1>10. RemovedLast' BY <1>1, <1>2, <1>4, <1>6 DEF SettlingInv, RemovedLast
  <1>11. \A b \in Nat : (OneLoad(b) => OneLoad(b)') /\ (NoMoreLoads(b)' <=> NoMoreLoads(b))
    BY <1>1, <1>2, <1>4 DEF OneLoad, NoMoreLoads
  <1>12. OpenIsSettled'
    <2>1. 0 \in Nat OBVIOUS
    <2> QED
      BY <1>1, <1>4, <1>6, <1>11, <2>1 DEF SettlingInv, OpenIsSettled
  <1>13. ActBarriers' BY <1>2, <1>7 DEF SettlingInv, ActBarriers
  <1>14. ActIsSettled'
    \* A removal heard before the barrier was queued is over when it is reached.
    <2>1. HeardBefore => HeardBefore' BY <1>2, <1>4, <1>7 DEF HeardBefore
    <2>2. ASSUME NEW b \in Nat, acting.at # "idle", acting.quiet, acting.starts = b
          PROVE  ActSettled(b)'
      <3>1. ActSettled(b) BY <2>2 DEF SettlingInv, ActIsSettled
      <3> QED
        BY <1>1, <1>4, <1>7, <1>11, <2>1, <3>1 DEF ActSettled
    <2> QED
      BY <1>7, <2>2 DEF ActIsSettled
  <1> QED
    BY <1>8, <1>9, <1>10, <1>12, <1>13, <1>14 DEF SettlingInv

--------------------------------
\* Every state of every run is settled

LEMMA SettlingInvInit == PageInit => SettlingInv
  <1> SUFFICES ASSUME PageInit PROVE SettlingInv
    OBVIOUS
  <1>1. /\ chromeEvents = <<>> /\ eventQueue = <<>> /\ handling = "none"
        /\ owned = FALSE /\ processed = FALSE /\ revision = 0
        /\ acting = [at |-> "idle", started |-> FALSE, loaded |-> FALSE, passed |-> FALSE,
                     late |-> FALSE, quiet |-> FALSE, starts |-> 0, waited |-> FALSE, revision |-> 0]
    BY DEF PageInit
  <1>2. PICK present \in BOOLEAN :
          /\ page = [present |-> present, load |-> "none", waits |-> FALSE,
                     dialog |-> FALSE, starts |-> 0]
          /\ opening = [at |-> "idle", mode |-> IF present THEN "adopt" ELSE "create",
                        released |-> FALSE, passed |-> FALSE, late |-> FALSE, revision |-> 0]
    BY DEF PageInit
  <1>3. /\ opening.at = "idle" /\ opening.mode = (IF present THEN "adopt" ELSE "create")
        /\ ~opening.released /\ acting.at = "idle"
        /\ page.present = present /\ page.load = "none" /\ ~page.waits /\ page.starts = 0
    BY <1>1, <1>2
  <1>4. (\A e : ~InQueue(e) /\ ~Coming(e)) /\ (\A e, f : ~Follows(e, f))
    BY <1>1 DEF InQueue, InChrome, Coming, Follows, Has, InOrder
  <1>5. PageTyped
    <2>1. 0 \in 0 .. MaxStarts /\ 0 \in 0 .. (MaxStarts + 1) /\ 0 \in Nat BY SettlingConstants
    <2>2. page \in [present : BOOLEAN, load : {"none", "started", "committed"}, waits : BOOLEAN,
                    dialog : BOOLEAN, starts : 0..MaxStarts]
      BY <1>2, <2>1
    <2>3. opening \in OpeningType BY <1>2, <2>1 DEF OpeningType, OpeningPlaces
    <2>4. acting \in ActingType BY <1>1, <2>1 DEF ActingType, ActingPlaces
    <2>5. chromeEvents \in Seq(Events) /\ eventQueue \in Seq(Events \cup Barriers) BY <1>1
    <2> QED
      BY <1>1, <1>3, <2>1, <2>2, <2>3, <2>4, <2>5 DEF PageTyped, PageTypeOK, Granted
  <1>6. RevisionCounted
    <2>1. {i \in DOMAIN <<>> : <<>>[i] = "loading"} = {} OBVIOUS
    <2>2. CountIn(<<>>) = 0 BY <2>1, FS_EmptySet DEF CountIn, CountOf
    <2> QED
      BY <1>1, <1>3, <2>2 DEF RevisionCounted, Granted
  <1>7. RemovedLast BY <1>1, <1>3, <1>4 DEF RemovedLast
  <1>8. OpenIsSettled
    <2>1. opening.mode = "create" => ~page.present BY <1>3
    <2> QED
      BY <1>1, <1>3, <1>4, <2>1 DEF OpenIsSettled, OneLoad
  <1>9. ActBarriers /\ ActIsSettled BY <1>3, <1>4 DEF ActBarriers, ActIsSettled
  <1> QED
    BY <1>5, <1>6, <1>7, <1>8, <1>9 DEF SettlingInv

LEMMA SettlingInvNext == SettlingInv /\ [PageNext]_pageVars => SettlingInv'
  <1> SUFFICES ASSUME SettlingInv, [PageNext]_pageVars PROVE SettlingInv'
    OBVIOUS
  <1>1. CASE PageEnvironment
    BY <1>1, PageStartsKeeps, PageCommitsKeeps, PageStopsKeeps, PageAsksKeeps, UserClosesKeeps
    DEF PageEnvironment
  <1>2. CASE EventStep
    BY <1>2, DeliverKeeps, HandleEventKeeps, FinishEventKeeps, ReachBarrierKeeps DEF EventStep
  <1>3. CASE CommandStep
    BY <1>3, OpenGrantsKeeps, OpenSettlesKeeps, OpenAnswersKeeps, ActLooksKeeps, ActWaitedKeeps,
       ActDrainedKeeps, ActObservesKeeps DEF CommandStep
  <1>4. CASE PageCalls
    BY <1>4, OpenCreatesKeeps, OpenDeadlineKeeps, ActBeginsKeeps, ActNavigatesKeeps, ActStopsKeeps,
       ActDeadlineKeeps DEF PageCalls
  <1>5. CASE UNCHANGED pageVars
    <2>1. /\ page' = page /\ chromeEvents' = chromeEvents /\ eventQueue' = eventQueue
          /\ handling' = handling /\ owned' = owned /\ revision' = revision
          /\ processed' = processed /\ opening' = opening /\ acting' = acting
      BY <1>5 DEF pageVars
    <2> QED
      BY <2>1 DEF SettlingInv, PageTyped, PageTypeOK, RevisionCounted, RemovedLast, OpenIsSettled,
                  ActBarriers, ActIsSettled, ActSettled, OneLoad, NoMoreLoads, HeardBefore, Granted,
                  Coming, InQueue, InChrome, Follows
  <1> QED
    BY <1>1, <1>2, <1>3, <1>4, <1>5 DEF PageNext

LEMMA SettlingInvSettles == SettlingInv => RevisionsSettled
  <1> SUFFICES ASSUME SettlingInv PROVE RevisionsSettled
    OBVIOUS
  <1>1. PageTypeOK BY DEF SettlingInv, PageTyped
  <1>2. OpenedRevisionFresh BY DEF SettlingInv, OpenIsSettled, OpenedRevisionFresh
  <1>3. NavigatedRevisionFresh
    <2>1. SUFFICES ASSUME acting.at = "answered", acting.quiet, acting.waited, ~acting.late,
                          page.starts = acting.starts + 1
                   PROVE  revision = acting.revision
      BY DEF NavigatedRevisionFresh
    <2>2. acting.starts \in Nat BY DEF SettlingInv, PageTyped, ActingType
    <2>3. ActSettled(acting.starts) BY <2>1, <2>2 DEF SettlingInv, ActIsSettled
    <2> QED
      BY <2>1, <2>2, <2>3 DEF ActSettled
  <1>4. ClosedTabForgotten
    <2>1. Quiescent => ~Coming("removed")
      BY DEF Quiescent, Coming, InQueue, InChrome, Has
    <2> QED
      BY <2>1 DEF SettlingInv, RemovedLast, ClosedTabForgotten
  <1> QED
    BY <1>1, <1>2, <1>3, <1>4 DEF RevisionsSettled

(* The revision that browser_open answers for a tab it created, and the one that a batch   *)
(* answers for the page its last action went to, is the tab's revision for as long as the  *)
(* page goes nowhere else, whatever Chrome tells late of the load that was waited for; and *)
(* a closed tab is not kept in processedTabLoads.  background.ts: settleOpenedTab,         *)
(* settleNavigation and the tab listeners around StartupOperationQueue.                    *)
THEOREM RevisionsAreSettled == PageSpec => []RevisionsSettled
  <1>1. PageInit => SettlingInv BY SettlingInvInit
  <1>2. SettlingInv /\ [PageNext]_pageVars => SettlingInv' BY SettlingInvNext
  <1>3. SettlingInv => RevisionsSettled BY SettlingInvSettles
  <1> QED
    BY <1>1, <1>2, <1>3, PTL DEF PageSpec

--------------------------------
(* PageWaits: documents only go forward, and Chrome tells of a failed load before it      *)
(* shows anyone the error page                                                            *)

EventNames == {"superseded", "committed", "completed", "error", "same_document"}
TabType == [document : Documents, pending : BOOLEAN, loading : BOOLEAN, error : BOOLEAN,
            wanted : BOOLEAN]
EventType == [what : EventNames, wanted : BOOLEAN]
AnswerType == [what : {"answer"}, tab : TabType]
Told == EventType \cup {Event("started")} \cup AnswerType
ReadType == [tab : TabType, revision : Nat]
WaitPlaces == {"idle", "poll", "asked", "matched", "pause", "over"}

WaitType == [kind : WaitKinds, at : WaitPlaces, reads : Seq(ReadType), since : Nat]

Reading == wait.kind \notin FromEvents
Waiting == wait.at \notin {"idle", "over"}

\* What is on its way to the worker: the documents of answers, and starts of navigations.
AnswersIn(seq) == {i \in DOMAIN seq : seq[i].what = "answer"}
DocumentsIn(seq) == {seq[i].tab.document : i \in AnswersIn(seq)}
StartsIn(seq) == CountOf(seq, Event("started"))

WaitTyped ==
  /\ WaitTypeOK
  /\ channel \in Seq(Told)
  /\ wait \in WaitType
  /\ result \in [said : {"none", "matched", "navigation_failed", "wait_timeout", "failed"}, saw : SUBSET Documents]
  /\ tab.document + (IF tab.pending THEN 1 ELSE 0) <= moves + 1

\* A wait has one read under way, and none is left of an earlier poll.
AtMostOneAnswer(seq) == \A i, j \in AnswersIn(seq) : i = j
ReadsFollow ==
  /\ AtMostOneAnswer(channel)
  /\ wait.at # "asked" => AnswersIn(channel) = {}
  /\ wait.at = "asked" => Len(wait.reads) < Reads
  /\ wait.at \in {"idle", "poll"} => wait.reads = <<>>

\* What is read later is no older document.
DocumentsGoOn ==
  /\ \A i, j \in DOMAIN wait.reads : i < j => wait.reads[i].tab.document <= wait.reads[j].tab.document
  /\ \A i \in DOMAIN wait.reads : \A d \in DocumentsIn(channel) \cup {tab.document} :
       wait.reads[i].tab.document <= d
  /\ \A d \in DocumentsIn(channel) : tracked.document <= d /\ d <= tab.document
  /\ tracked.document <= tab.document

\* A revision is marked for a navigation that started, or for another document observed.
Marked(document) == tracked.revision + marking + StartsIn(channel) <= moves + document
RevisionsCounted ==
  /\ marking + StartsIn(channel) <= moves
  /\ \A d \in DocumentsIn(channel) \cup {tab.document} : Marked(d)
  /\ tracked.document # 0 => Marked(tracked.document)

\* What a poll has read so far showed what is waited for.
WantedSoFar ==
  Reading /\ wait.at \in {"asked", "matched"} =>
    \A i \in DOMAIN wait.reads : ~OfDocument(i) => Wanted(wait.reads[i])

\* The last that is told of a load is its failure, and it is told before what is read then.
NoCommits(seq) == \A i \in DOMAIN seq : seq[i].what # "committed"
FailsBefore(seq, document) ==
  \E i \in DOMAIN seq :
    /\ seq[i].what = "error"
    /\ \A j \in DOMAIN seq : j > i => seq[j].what # "committed"
    /\ \A j \in AnswersIn(seq) : j < i => seq[j].tab.document # document
FailureHeard == observation.error /\ NoCommits(channel)
FailureTold ==
  ~Reading /\ Waiting =>
    /\ observation.on
    /\ tab.document \in failed =>
         /\ FailureHeard \/ FailsBefore(channel, tab.document)
         /\ \A i \in DOMAIN wait.reads : wait.reads[i].tab.document = tab.document => FailureHeard
FailuresAreShown ==
  /\ wait.at = "idle" => failed = {}
  /\ \A document \in failed : document <= tab.document

WaitInv ==
  /\ WaitTyped /\ ReadsFollow /\ DocumentsGoOn /\ RevisionsCounted /\ WantedSoFar
  /\ MatchedInOneDocument /\ FailureTold /\ FailuresAreShown

--------------------------------
\* What Chrome has told, when it tells more and when the first of it is heard

LEMMA ToldKinds ==
  ASSUME NEW e \in Told
  PROVE  /\ e.what = "answer" => e \in AnswerType
         /\ e.what = "started" => e = Event("started")
         /\ e.what \notin {"answer", "started"} => e \in EventType
  BY DEF Told, EventType, AnswerType, EventNames, Event

LEMMA ToldMore ==
  ASSUME NEW seq \in Seq(Told), NEW e \in Told
  PROVE  /\ Append(seq, e) \in Seq(Told)
         /\ AnswersIn(seq) = {} => AtMostOneAnswer(Append(seq, e))
         /\ e.what # "answer" => /\ AtMostOneAnswer(seq) => AtMostOneAnswer(Append(seq, e))
                                 /\ AnswersIn(seq) = {} => AnswersIn(Append(seq, e)) = {}
         /\ DocumentsIn(Append(seq, e)) =
              DocumentsIn(seq) \cup (IF e.what = "answer" THEN {e.tab.document} ELSE {})
         /\ StartsIn(Append(seq, e)) = StartsIn(seq) + (IF e = Event("started") THEN 1 ELSE 0)
         /\ NoCommits(seq) /\ e.what # "committed" => NoCommits(Append(seq, e))
         /\ \A d : FailsBefore(seq, d) /\ e.what # "committed" => FailsBefore(Append(seq, e), d)
         /\ \A d : e.what = "error" /\ d \notin DocumentsIn(seq) => FailsBefore(Append(seq, e), d)
  <1> DEFINE more == Append(seq, e)
  <1>1. /\ more \in Seq(Told) /\ Len(seq) \in Nat
        /\ DOMAIN seq = 1 .. Len(seq) /\ DOMAIN more = 1 .. (Len(seq) + 1)
        /\ \A i \in DOMAIN seq : more[i] = seq[i]
        /\ more[Len(seq) + 1] = e
    OBVIOUS
  <1>2. /\ Len(seq) + 1 \in DOMAIN more
        /\ \A i \in DOMAIN seq : i \in DOMAIN more /\ i < Len(seq) + 1 /\ ~(i > Len(seq) + 1)
        /\ \A i \in DOMAIN more : i \in DOMAIN seq \/ i = Len(seq) + 1
        /\ ~(Len(seq) + 1 > Len(seq) + 1)
        /\ \A i \in DOMAIN seq : ~(Len(seq) + 1 < i)
    BY <1>1
  <1>3. StartsIn(more) = StartsIn(seq) + (IF e = Event("started") THEN 1 ELSE 0)
    BY AppendCountsOf DEF StartsIn
  <1> HIDE DEF more
  <1>4. AnswersIn(more) = AnswersIn(seq) \cup (IF e.what = "answer" THEN {Len(seq) + 1} ELSE {})
    BY <1>1, <1>2 DEF AnswersIn
  <1>5. /\ AnswersIn(seq) = {} => AtMostOneAnswer(more)
        /\ e.what # "answer" => /\ AtMostOneAnswer(seq) => AtMostOneAnswer(more)
                                /\ AnswersIn(seq) = {} => AnswersIn(more) = {}
    BY <1>4 DEF AtMostOneAnswer
  <1>6. DocumentsIn(more) = DocumentsIn(seq) \cup (IF e.what = "answer" THEN {e.tab.document} ELSE {})
    <2>1. \A i \in AnswersIn(seq) : more[i] = seq[i] BY <1>1 DEF AnswersIn
    <2> QED
      BY <1>1, <1>4, <2>1 DEF DocumentsIn
  <1>7. NoCommits(seq) /\ e.what # "committed" => NoCommits(more)
    BY <1>1, <1>2 DEF NoCommits
  <1>8. ASSUME NEW d, FailsBefore(seq, d), e.what # "committed" PROVE FailsBefore(more, d)
    <2>1. PICK i \in DOMAIN seq : /\ seq[i].what = "error"
                                  /\ \A j \in DOMAIN seq : j > i => seq[j].what # "committed"
                                  /\ \A j \in AnswersIn(seq) : j < i => seq[j].tab.document # d
      BY <1>8 DEF FailsBefore
    <2>2. more[i].what = "error" /\ i \in DOMAIN more BY <1>1, <1>2, <2>1
    <2>3. \A j \in DOMAIN more : j > i => more[j].what # "committed" BY <1>1, <1>2, <1>8, <2>1
    <2>4. \A j \in AnswersIn(more) : j < i => more[j].tab.document # d
      BY <1>1, <1>2, <2>1 DEF AnswersIn
    <2> QED
      BY <2>2, <2>3, <2>4 DEF FailsBefore
  <1>9. ASSUME NEW d, e.what = "error", d \notin DocumentsIn(seq) PROVE FailsBefore(more, d)
    <2>1. \A j \in DOMAIN more : ~(j > Len(seq) + 1) BY <1>1
    <2>2. \A j \in AnswersIn(more) : more[j].tab.document # d
      BY <1>1, <1>2, <1>9 DEF AnswersIn, DocumentsIn
    <2> QED
      BY <1>1, <1>2, <1>9, <2>1, <2>2 DEF FailsBefore
  <1> QED
    BY <1>1, <1>3, <1>5, <1>6, <1>7, <1>8, <1>9 DEF more

\* An event that commits nothing.
LEMMA ToldQuietly ==
  ASSUME NEW seq \in Seq(Told), NEW e \in Told, e.what \notin {"answer", "committed"},
         AtMostOneAnswer(seq)
  PROVE  /\ Append(seq, e) \in Seq(Told) /\ AtMostOneAnswer(Append(seq, e))
         /\ AnswersIn(seq) = {} => AnswersIn(Append(seq, e)) = {}
         /\ DocumentsIn(Append(seq, e)) = DocumentsIn(seq)
         /\ e # Event("started") => StartsIn(Append(seq, e)) = StartsIn(seq)
         /\ e = Event("started") => StartsIn(Append(seq, e)) = StartsIn(seq) + 1
         /\ NoCommits(seq) => NoCommits(Append(seq, e))
         /\ \A d : FailsBefore(seq, d) => FailsBefore(Append(seq, e), d)
  <1>1. e.what # "answer" /\ e.what # "committed" OBVIOUS
  <1>2. StartsIn(seq) \in Nat BY CountOfFinite DEF StartsIn
  <1>3. \A d : FailsBefore(seq, d) => FailsBefore(Append(seq, e), d) BY <1>1, ToldMore
  <1>4. DocumentsIn(Append(seq, e)) = DocumentsIn(seq) BY <1>1, ToldMore
  <1>5. StartsIn(Append(seq, e)) = StartsIn(seq) + (IF e = Event("started") THEN 1 ELSE 0)
    BY ToldMore
  <1>6. /\ Append(seq, e) \in Seq(Told) /\ AtMostOneAnswer(Append(seq, e))
        /\ AnswersIn(seq) = {} => AnswersIn(Append(seq, e)) = {}
        /\ NoCommits(seq) => NoCommits(Append(seq, e))
    BY <1>1, ToldMore
  <1>7. e # Event("started") => StartsIn(Append(seq, e)) = StartsIn(seq) BY <1>2, <1>5
  <1>8. e = Event("started") => StartsIn(Append(seq, e)) = StartsIn(seq) + 1 BY <1>5
  <1> QED
    BY <1>3, <1>4, <1>6, <1>7, <1>8

LEMMA ToldLess ==
  ASSUME NEW seq \in Seq(Told), seq # <<>>
  PROVE  /\ Tail(seq) \in Seq(Told) /\ Head(seq) \in Told
         /\ AtMostOneAnswer(seq) => AtMostOneAnswer(Tail(seq))
         /\ AnswersIn(seq) = {} => AnswersIn(Tail(seq)) = {}
         /\ AtMostOneAnswer(seq) /\ Head(seq).what = "answer" => AnswersIn(Tail(seq)) = {}
         /\ DocumentsIn(Tail(seq)) \subseteq DocumentsIn(seq)
         /\ Head(seq).what = "answer" => /\ Head(seq).tab.document \in DocumentsIn(seq)
                                         /\ AnswersIn(seq) # {}
         /\ StartsIn(seq) = StartsIn(Tail(seq)) + (IF Head(seq) = Event("started") THEN 1 ELSE 0)
         /\ NoCommits(seq) => NoCommits(Tail(seq)) /\ Head(seq).what # "committed"
         /\ \A d : FailsBefore(seq, d) =>
              /\ IF Head(seq).what = "error" THEN NoCommits(Tail(seq)) \/ FailsBefore(Tail(seq), d)
                 ELSE FailsBefore(Tail(seq), d)
              /\ Head(seq).what = "answer" => Head(seq).tab.document # d
  <1> DEFINE rest == Tail(seq)
  <1>1. /\ rest \in Seq(Told) /\ Head(seq) = seq[1] /\ Head(seq) \in Told /\ Len(seq) \in Nat \ {0}
        /\ DOMAIN seq = 1 .. Len(seq) /\ DOMAIN rest = 1 .. (Len(seq) - 1)
        /\ \A i \in DOMAIN rest : rest[i] = seq[i + 1]
    OBVIOUS
  <1>2. /\ 1 \in DOMAIN seq /\ \A i \in DOMAIN rest : i + 1 \in DOMAIN seq /\ i + 1 # 1 /\ i + 1 > 1
        /\ \A i \in DOMAIN seq : i = 1 \/ (i > 1 /\ i - 1 \in DOMAIN rest /\ rest[i - 1] = seq[i])
        /\ \A i, j \in DOMAIN rest : i + 1 = j + 1 => i = j
        /\ \A i \in DOMAIN seq : \A j \in DOMAIN rest : (j > i - 1 => j + 1 > i) /\ (j < i - 1 => j + 1 < i)
    BY <1>1
  <1>3. StartsIn(seq) = StartsIn(rest) + (IF Head(seq) = Event("started") THEN 1 ELSE 0)
    BY TailCountsOf DEF StartsIn
  <1> HIDE DEF rest
  <1>4. \A i \in AnswersIn(rest) : i \in DOMAIN rest /\ i + 1 \in AnswersIn(seq) /\ rest[i] = seq[i + 1]
    BY <1>1, <1>2 DEF AnswersIn
  <1>5. /\ AtMostOneAnswer(seq) => AtMostOneAnswer(rest)
        /\ AnswersIn(seq) = {} => AnswersIn(rest) = {}
    BY <1>2, <1>4 DEF AtMostOneAnswer
  <1>6. Head(seq).what = "answer" => 1 \in AnswersIn(seq) BY <1>1, <1>2 DEF AnswersIn
  <1>7. AtMostOneAnswer(seq) /\ Head(seq).what = "answer" => AnswersIn(rest) = {}
    BY <1>2, <1>4, <1>6 DEF AtMostOneAnswer
  <1>8. DocumentsIn(rest) \subseteq DocumentsIn(seq)
    BY <1>4 DEF DocumentsIn
  <1>9. Head(seq).what = "answer" => Head(seq).tab.document \in DocumentsIn(seq) /\ AnswersIn(seq) # {}
    BY <1>1, <1>6 DEF DocumentsIn
  <1>10. NoCommits(seq) => NoCommits(rest) /\ Head(seq).what # "committed"
    BY <1>1, <1>2 DEF NoCommits
  <1>11. ASSUME NEW d, FailsBefore(seq, d)
         PROVE  /\ IF Head(seq).what = "error" THEN NoCommits(rest) \/ FailsBefore(rest, d)
                   ELSE FailsBefore(rest, d)
                /\ Head(seq).what = "answer" => Head(seq).tab.document # d
    <2>1. PICK i \in DOMAIN seq : /\ seq[i].what = "error"
                                  /\ \A j \in DOMAIN seq : j > i => seq[j].what # "committed"
                                  /\ \A j \in AnswersIn(seq) : j < i => seq[j].tab.document # d
      BY <1>11 DEF FailsBefore
    <2>2. CASE i = 1
      <3>1. \A j \in DOMAIN rest : rest[j].what # "committed" BY <1>1, <1>2, <2>1, <2>2
      <3> QED
        BY <1>1, <2>1, <2>2, <3>1 DEF NoCommits
    <2>3. CASE i # 1
      <3>1. i > 1 /\ i - 1 \in DOMAIN rest /\ rest[i - 1].what = "error" BY <1>2, <2>1, <2>3
      <3>2. \A j \in DOMAIN rest : j > i - 1 => rest[j].what # "committed" BY <1>1, <1>2, <2>1
      <3>3. \A j \in AnswersIn(rest) : j < i - 1 => rest[j].tab.document # d
        BY <1>2, <1>4, <2>1
      <3>4. FailsBefore(rest, d) BY <3>1, <3>2, <3>3 DEF FailsBefore
      <3>5. Head(seq).what = "answer" => Head(seq).tab.document # d
        <4>1. Head(seq).what = "answer" => 1 < i /\ seq[1].tab.document # d
          BY <1>6, <2>1, <3>1
        <4> QED
          BY <1>1, <4>1
      <3> QED
        BY <3>4, <3>5
    <2> QED
      BY <2>2, <2>3
  <1> QED
    BY <1>1, <1>3, <1>5, <1>7, <1>8, <1>9, <1>10, <1>11 DEF rest

--------------------------------
\* Steps of Chrome

LEMMA WaitFacts ==
  ASSUME WaitTyped
  PROVE  /\ MaxMoves \in Nat /\ moves \in Nat /\ marking \in Nat /\ tracked.revision \in Nat
         /\ tracked.document \in Nat /\ tab.document \in Nat /\ Documents \subseteq Nat
         /\ StartsIn(channel) \in Nat /\ DocumentsIn(channel) \subseteq Documents
         /\ tab \in TabType
         /\ \A i \in DOMAIN wait.reads : wait.reads[i] \in ReadType /\ wait.reads[i].tab.document \in Documents
         /\ wait.kind \in WaitKinds /\ wait.at \in WaitPlaces
         /\ wait.reads \in Seq(ReadType) /\ Len(wait.reads) \in Nat
  <1>1. MaxMoves \in Nat BY WaitConstants
  <1>2. moves \in Nat /\ marking \in Nat /\ Documents \subseteq Nat
    BY <1>1 DEF WaitTyped, WaitTypeOK, Documents
  <1>3. tracked.revision \in Nat /\ tracked.document \in Nat
    <2>1. tracked \in [revision : 1..(2 * MaxMoves + 2), document : {0} \cup Documents]
      BY DEF WaitTyped, WaitTypeOK
    <2>2. tracked.revision \in 1..(2 * MaxMoves + 2) /\ tracked.document \in {0} \cup Documents
      BY <2>1
    <2>3. tracked.revision \in Nat BY <1>1, <2>2
    <2>4. tracked.document = 0 \/ tracked.document \in Documents BY <2>2
    <2>5. tracked.document \in Nat BY <1>1, <2>4 DEF Documents
    <2> QED
      BY <2>3, <2>5
  <1>4. tab \in TabType /\ tab.document \in Nat
    BY <1>2 DEF WaitTyped, WaitTypeOK, TabType
  <1>5. StartsIn(channel) \in Nat BY CountOfFinite DEF WaitTyped, StartsIn
  <1>6. DocumentsIn(channel) \subseteq Documents
    <2>1. ASSUME NEW i \in AnswersIn(channel) PROVE channel[i].tab.document \in Documents
      <3>1. channel[i] \in Told /\ channel[i].what = "answer" BY DEF AnswersIn, WaitTyped
      <3>2. channel[i] \in AnswerType BY <3>1, ToldKinds
      <3> QED
        BY <3>2 DEF AnswerType, TabType
    <2> QED
      BY <2>1 DEF DocumentsIn
  <1>7. wait.kind \in WaitKinds /\ wait.at \in WaitPlaces /\ wait.reads \in Seq(ReadType)
    BY DEF WaitTyped, WaitType
  <1>8. \A i \in DOMAIN wait.reads : wait.reads[i] \in ReadType /\ wait.reads[i].tab.document \in Documents
    <2>1. \A i \in DOMAIN wait.reads : wait.reads[i] \in ReadType BY <1>7
    <2> QED
      BY <2>1 DEF ReadType, TabType
  <1>9. Len(wait.reads) \in Nat BY <1>7
  <1> QED
    BY <1>1, <1>2, <1>3, <1>4, <1>5, <1>6, <1>7, <1>8, <1>9

\* Chrome goes on with the tab, tells of it, and says of starts no more than there are.
ChromeGoesOn ==
  /\ UNCHANGED <<wait, observation, tracked, marking, polls, result>>
  /\ tab' \in TabType /\ tab.document <= tab'.document
  /\ moves' \in 0 .. MaxMoves /\ moves <= moves'
  /\ tab'.document + (IF tab'.pending THEN 1 ELSE 0) <= moves' + 1
  /\ channel' \in Seq(Told) /\ AtMostOneAnswer(channel')
  /\ AnswersIn(channel) = {} => AnswersIn(channel') = {}
  /\ DocumentsIn(channel') = DocumentsIn(channel)
  /\ StartsIn(channel') + moves <= StartsIn(channel) + moves'

LEMMA ChromeGoesOnKeeps ==
  ASSUME WaitInv, ChromeGoesOn, failed' \subseteq Documents, FailureTold', FailuresAreShown'
  PROVE  WaitInv'
  <1>1. /\ UNCHANGED <<wait, observation, tracked, marking, polls, result>>
        /\ tab' \in TabType /\ tab.document <= tab'.document
        /\ moves' \in 0 .. MaxMoves /\ moves <= moves'
        /\ DocumentsIn(channel') = DocumentsIn(channel)
        /\ StartsIn(channel') + moves <= StartsIn(channel) + moves'
    BY DEF ChromeGoesOn
  <1> WaitTyped BY DEF WaitInv
  <1>t. WaitTyped'
    BY <1>1 DEF ChromeGoesOn, WaitTyped, WaitTypeOK, TabType
  <1>f. tab'.document \in Nat /\ moves' \in Nat /\ StartsIn(channel') \in Nat
    <2>1. (WaitTyped => tab.document \in Nat /\ moves \in Nat /\ StartsIn(channel) \in Nat)'
      BY WaitFacts, PTL
    <2> QED
      BY <1>t, <2>1
  <1>n. /\ moves \in Nat /\ marking \in Nat /\ tracked.revision \in Nat /\ tracked.document \in Nat
        /\ tab.document \in Nat /\ StartsIn(channel) \in Nat /\ \A d \in DocumentsIn(channel) : d \in Nat
        /\ \A i \in DOMAIN wait.reads : wait.reads[i].tab.document \in Nat
    BY WaitFacts
  <1>u. wait' = wait /\ tracked' = tracked /\ marking' = marking
    BY <1>1
  <1>2. ReadsFollow'
    BY <1>1 DEF WaitInv, ChromeGoesOn, ReadsFollow, Reads
  <1>3. DocumentsGoOn'
    <2>1. /\ \A i, j \in DOMAIN wait.reads : i < j => wait.reads[i].tab.document <= wait.reads[j].tab.document
          /\ \A i \in DOMAIN wait.reads : \A d \in DocumentsIn(channel) \cup {tab.document} :
               wait.reads[i].tab.document <= d
          /\ \A d \in DocumentsIn(channel) : tracked.document <= d /\ d <= tab.document
          /\ tracked.document <= tab.document
      BY DEF WaitInv, DocumentsGoOn
    <2>2. \A i \in DOMAIN wait.reads : wait.reads[i].tab.document <= tab'.document
      BY <1>1, <1>f, <1>n, <2>1
    <2>3. \A d \in DocumentsIn(channel) : d <= tab'.document
      BY <1>1, <1>f, <1>n, <2>1
    <2>4. tracked.document <= tab'.document
      BY <1>1, <1>f, <1>n, <2>1
    <2> QED
      BY <1>1, <1>u, <2>1, <2>2, <2>3, <2>4 DEF DocumentsGoOn
  <1>4. RevisionsCounted'
    <2>1. /\ marking + StartsIn(channel) <= moves
          /\ \A d \in DocumentsIn(channel) \cup {tab.document} : Marked(d)
          /\ tracked.document # 0 => Marked(tracked.document)
      BY DEF WaitInv, RevisionsCounted
    <2>2. ASSUME NEW d \in Nat, Marked(d) PROVE Marked(d)'
      BY <1>1, <1>f, <1>n, <1>u, <2>2 DEF Marked
    <2>3. \A d \in DocumentsIn(channel)' : Marked(d)'
      BY <1>1, <1>n, <2>1, <2>2
    <2>4. (Marked(tab.document))'
      <3>1. tracked.revision + marking + StartsIn(channel) <= moves + tab.document
        BY <2>1 DEF Marked
      <3> QED
        BY <1>1, <1>f, <1>n, <1>u, <3>1 DEF Marked
    <2>5. (tracked.document # 0 => Marked(tracked.document))'
      BY <1>1, <1>f, <1>n, <1>u, <2>1 DEF Marked
    <2>6. (marking + StartsIn(channel) <= moves)'
      BY <1>1, <1>f, <1>n, <1>u, <2>1
    <2> QED
      BY <2>3, <2>4, <2>5, <2>6 DEF RevisionsCounted
  <1>5. WantedSoFar' /\ MatchedInOneDocument'
    BY <1>1 DEF WaitInv, WantedSoFar, MatchedInOneDocument, OfDocument, Reading, Wanted
  <1> QED
    BY <1>t, <1>2, <1>3, <1>4, <1>5 DEF WaitInv

\* Chrome tells more, but not of a commit.
LEMMA NoCommitTold ==
  ASSUME WaitInv, UNCHANGED <<wait, observation, failed>>, tab'.document = tab.document,
         NoCommits(channel) => NoCommits(channel'),
         FailsBefore(channel, tab.document) => FailsBefore(channel', tab.document)
  PROVE  FailureTold' /\ FailuresAreShown'
  BY DEF WaitInv, FailureTold, FailuresAreShown, FailureHeard, Reading, Waiting

LEMMA NavigationStartsKeepsWaits == WaitInv /\ NavigationStarts => WaitInv'
  <1> SUFFICES ASSUME WaitInv, NavigationStarts PROVE WaitInv'
    OBVIOUS
  <1> WaitTyped BY DEF WaitInv
  <1> DEFINE told == IF tab.pending THEN Append(channel, Event("superseded")) ELSE channel
  <1>1. channel \in Seq(Told) BY DEF WaitTyped
  <1>2. Event("superseded") \in Told /\ Event("started") \in Told
    BY DEF Event, Told, EventType, EventNames
  <1>3. channel' = Append(told, Event("started"))
    <2>1. tab.pending => channel \o <<Event("superseded")>> = Append(channel, Event("superseded"))
      BY <1>1, <1>2, AppendIsConcat
    <2>2. channel \o <<>> = channel BY <1>1
    <2>3. told \in Seq(Told) BY <1>1, <1>2
    <2>4. told \o <<Event("started")>> = Append(told, Event("started")) BY <1>2, <2>3, AppendIsConcat
    <2> QED
      BY <2>1, <2>2, <2>4 DEF NavigationStarts
  <1>4. Event("superseded").what = "superseded" /\ Event("started").what = "started"
        /\ Event("superseded") # Event("started")
    BY DEF Event
  <1>5. /\ told \in Seq(Told) /\ AtMostOneAnswer(told)
        /\ AnswersIn(channel) = {} => AnswersIn(told) = {}
        /\ DocumentsIn(told) = DocumentsIn(channel) /\ StartsIn(told) = StartsIn(channel)
        /\ NoCommits(channel) => NoCommits(told)
        /\ FailsBefore(channel, tab.document) => FailsBefore(told, tab.document)
    <2>1. AtMostOneAnswer(channel) /\ StartsIn(channel) \in Nat BY WaitFacts DEF WaitInv, ReadsFollow
    <2> QED
      <3>1. CASE tab.pending BY <1>1, <1>2, <1>4, <2>1, <3>1, ToldQuietly
      <3>2. CASE ~tab.pending BY <1>1, <2>1, <3>2
      <3> QED
        BY <3>1, <3>2
  <1> HIDE DEF told
  <1>c. StartsIn(channel) \in Nat BY WaitFacts
  <1>6. /\ channel' \in Seq(Told) /\ AtMostOneAnswer(channel')
        /\ AnswersIn(channel) = {} => AnswersIn(channel') = {}
        /\ DocumentsIn(channel') = DocumentsIn(channel) /\ StartsIn(channel') = StartsIn(channel) + 1
        /\ NoCommits(channel) => NoCommits(channel')
        /\ FailsBefore(channel, tab.document) => FailsBefore(channel', tab.document)
    BY <1>2, <1>3, <1>4, <1>5, <1>c, ToldQuietly
  <1>7. /\ tab' \in TabType /\ tab'.document = tab.document /\ moves' = moves + 1
        /\ UNCHANGED <<wait, observation, tracked, marking, polls, result, failed>>
        /\ moves < MaxMoves
    BY WaitFacts DEF NavigationStarts, TabType
  <1>8. ChromeGoesOn
    <2>1. tab'.document + (IF tab'.pending THEN 1 ELSE 0) <= moves' + 1
      BY <1>7, WaitFacts DEF WaitTyped, NavigationStarts, TabType
    <2> QED
      <3>1. moves \in Nat /\ tab.document \in Nat /\ MaxMoves \in Nat /\ StartsIn(channel) \in Nat BY WaitFacts
      <3>2. moves' \in 0 .. MaxMoves /\ moves <= moves' /\ tab.document <= tab'.document
            /\ StartsIn(channel') + moves <= StartsIn(channel) + moves'
        BY <1>6, <1>7, <3>1
      <3> QED
        BY <1>6, <1>7, <2>1, <3>2 DEF ChromeGoesOn
  <1>9. FailureTold' /\ FailuresAreShown' BY <1>6, <1>7, NoCommitTold
  <1>10. failed' \subseteq Documents BY <1>7 DEF WaitTyped, WaitTypeOK
  <1> QED
    BY <1>8, <1>9, <1>10, ChromeGoesOnKeeps

LEMMA NavigationCommitsKeepsWaits == WaitInv /\ NavigationCommits => WaitInv'
  <1> SUFFICES ASSUME WaitInv, NavigationCommits PROVE WaitInv'
    OBVIOUS
  <1> WaitTyped BY DEF WaitInv
  <1>1. PICK wanted \in BOOLEAN :
          /\ tab' = [document |-> tab.document + 1, pending |-> FALSE, loading |-> TRUE,
                     error |-> FALSE, wanted |-> wanted]
          /\ channel' = Append(channel, [Event("committed") EXCEPT !.wanted = wanted])
    BY DEF NavigationCommits, Tell
  <1> DEFINE event == [Event("committed") EXCEPT !.wanted = wanted]
  <1>2. event \in Told /\ event.what = "committed" /\ event # Event("started")
    BY DEF Event, Told, EventType, EventNames
  <1>3. channel \in Seq(Told) /\ AtMostOneAnswer(channel) BY DEF WaitTyped, WaitInv, ReadsFollow
  <1>4. moves \in Nat /\ tab.document \in Nat /\ MaxMoves \in Nat /\ StartsIn(channel) \in Nat BY WaitFacts
  <1> HIDE DEF event
  <1>5. /\ channel' \in Seq(Told) /\ AtMostOneAnswer(channel')
        /\ AnswersIn(channel) = {} => AnswersIn(channel') = {}
    BY <1>1, <1>2, <1>3, ToldMore DEF event
  <1>6. DocumentsIn(channel') = DocumentsIn(channel)
    BY <1>1, <1>2, <1>3, ToldMore DEF event
  <1>7. StartsIn(channel') = StartsIn(channel)
    <2>1. StartsIn(channel') = StartsIn(channel) + (IF event = Event("started") THEN 1 ELSE 0)
      BY <1>1, <1>2, <1>3, ToldMore DEF event
    <2> QED
      BY <1>2, <1>4, <2>1
  <1>8. /\ UNCHANGED <<moves, wait, observation, tracked, marking, polls, result, failed>> /\ tab.pending
    BY DEF NavigationCommits
  <1>9. /\ moves \in 0 .. MaxMoves /\ tab.document + 1 <= moves + 1 /\ failed \subseteq Documents
    BY <1>4, <1>8 DEF WaitTyped, WaitTypeOK
  <1>10. tab.document + 1 \in Documents /\ tab'.document = tab.document + 1 /\ ~tab'.pending
    BY <1>1, <1>4, <1>9 DEF Documents
  <1>11. ChromeGoesOn
    <2>1. tab' \in TabType BY <1>1, <1>10 DEF TabType
    <2>2. /\ tab.document <= tab'.document /\ moves' \in 0 .. MaxMoves /\ moves <= moves'
          /\ tab'.document + (IF tab'.pending THEN 1 ELSE 0) <= moves' + 1
          /\ StartsIn(channel') + moves <= StartsIn(channel) + moves'
      BY <1>4, <1>7, <1>8, <1>9, <1>10
    <2> QED
      BY <1>5, <1>6, <1>8, <2>1, <2>2 DEF ChromeGoesOn
  <1>12. FailureTold' /\ FailuresAreShown'
    <2>1. \A document \in failed : document \in Nat /\ document <= tab.document
      BY <1>9, WaitFacts DEF WaitInv, FailuresAreShown
    <2>2. tab'.document \notin failed BY <1>4, <1>10, <2>1
    <2>3. \A document \in failed : document <= tab'.document BY <1>4, <1>10, <2>1
    <2> QED
      BY <1>8, <2>2, <2>3 DEF WaitInv, FailureTold, FailuresAreShown, Reading, Waiting
  <1> QED
    BY <1>8, <1>9, <1>11, <1>12, ChromeGoesOnKeeps

LEMMA NavigationFailsKeepsWaits == WaitInv /\ NavigationFails => WaitInv'
  <1> SUFFICES ASSUME WaitInv, NavigationFails PROVE WaitInv'
    OBVIOUS
  <1> WaitTyped BY DEF WaitInv
  <1>1. PICK wanted \in BOOLEAN :
          tab' = [document |-> tab.document + 1, pending |-> FALSE, loading |-> FALSE,
                  error |-> TRUE, wanted |-> wanted]
    BY DEF NavigationFails
  <1>2. /\ Event("error") \in Told /\ Event("error").what = "error" /\ Event("error") # Event("started")
        /\ channel' = Append(channel, Event("error"))
    BY DEF Event, Told, EventType, EventNames, NavigationFails, Tell
  <1>3. channel \in Seq(Told) /\ AtMostOneAnswer(channel) BY DEF WaitTyped, WaitInv, ReadsFollow
  <1>4. moves \in Nat /\ tab.document \in Nat /\ MaxMoves \in Nat /\ StartsIn(channel) \in Nat BY WaitFacts
  <1>5. /\ channel' \in Seq(Told) /\ AtMostOneAnswer(channel')
        /\ AnswersIn(channel) = {} => AnswersIn(channel') = {}
        /\ DocumentsIn(channel') = DocumentsIn(channel) /\ StartsIn(channel') = StartsIn(channel)
    BY <1>2, <1>3, ToldQuietly
  <1>6. /\ UNCHANGED <<moves, wait, observation, tracked, marking, polls, result>> /\ tab.pending
        /\ failed' = IF wait.at = "idle" THEN failed ELSE failed \cup {tab.document + 1}
    BY DEF NavigationFails
  <1>7. /\ moves \in 0 .. MaxMoves /\ tab.document + 1 <= moves + 1 /\ failed \subseteq Documents
    BY <1>4, <1>6 DEF WaitTyped, WaitTypeOK
  <1>8. tab.document + 1 \in Documents /\ tab'.document = tab.document + 1 /\ ~tab'.pending
    BY <1>1, <1>4, <1>7 DEF Documents
  <1>9. ChromeGoesOn
    <2>1. tab' \in TabType BY <1>1, <1>8 DEF TabType
    <2>2. /\ tab.document <= tab'.document /\ moves' \in 0 .. MaxMoves /\ moves <= moves'
          /\ tab'.document + (IF tab'.pending THEN 1 ELSE 0) <= moves' + 1
          /\ StartsIn(channel') + moves <= StartsIn(channel) + moves'
      BY <1>4, <1>5, <1>6, <1>7, <1>8
    <2> QED
      BY <1>5, <1>6, <2>1, <2>2 DEF ChromeGoesOn
  <1>10. FailureTold'
    <2>1. /\ \A d \in DocumentsIn(channel) : d \in Nat /\ d <= tab.document
          /\ \A i \in DOMAIN wait.reads : wait.reads[i].tab.document \in Nat
                                          /\ wait.reads[i].tab.document <= tab.document
      BY WaitFacts DEF WaitInv, DocumentsGoOn
    <2>2. tab'.document \notin DocumentsIn(channel) BY <1>4, <1>8, <2>1
    <2>3. \A i \in DOMAIN wait.reads : wait.reads[i].tab.document # tab'.document
      BY <1>4, <1>8, <2>1
    <2>4. FailsBefore(channel', tab'.document) BY <1>2, <1>3, <2>2, ToldMore
    <2> QED
      BY <1>6, <2>3, <2>4 DEF WaitInv, FailureTold, Reading, Waiting
  <1>11. FailuresAreShown'
    <2>1. \A document \in failed : document \in Nat /\ document <= tab.document
      BY <1>7, WaitFacts DEF WaitInv, FailuresAreShown
    <2>2. \A document \in failed' : document <= tab'.document BY <1>4, <1>6, <1>8, <2>1
    <2> QED
      BY <1>6, <2>2 DEF WaitInv, FailuresAreShown
  <1>12. failed' \subseteq Documents BY <1>6, <1>7, <1>8
  <1> QED
    BY <1>9, <1>10, <1>11, <1>12, ChromeGoesOnKeeps

\* The tab keeps its document and Chrome tells at most one event.
LEMMA TellsKeepsWaits ==
  ASSUME WaitInv, NEW event \in Told, event.what \notin {"answer", "committed", "started"},
         channel' = Append(channel, event) \/ channel' = channel,
         tab' \in TabType, tab'.document = tab.document, tab'.pending = tab.pending,
         moves' \in {moves, moves + 1}, moves' <= MaxMoves,
         UNCHANGED <<wait, observation, tracked, marking, polls, result, failed>>
  PROVE  WaitInv'
  <1> WaitTyped BY DEF WaitInv
  <1>1. channel \in Seq(Told) /\ AtMostOneAnswer(channel) BY DEF WaitTyped, WaitInv, ReadsFollow
  <1>2. moves \in Nat /\ tab.document \in Nat /\ MaxMoves \in Nat /\ StartsIn(channel) \in Nat BY WaitFacts
  <1>3. event # Event("started") BY DEF Event
  <1>4. /\ channel' \in Seq(Told) /\ AtMostOneAnswer(channel')
        /\ AnswersIn(channel) = {} => AnswersIn(channel') = {}
        /\ DocumentsIn(channel') = DocumentsIn(channel) /\ StartsIn(channel') = StartsIn(channel)
        /\ NoCommits(channel) => NoCommits(channel')
        /\ FailsBefore(channel, tab.document) => FailsBefore(channel', tab.document)
    BY <1>1, <1>3, ToldQuietly
  <1>5. ChromeGoesOn
    <2>1. tab.document + (IF tab.pending THEN 1 ELSE 0) <= moves + 1 BY DEF WaitTyped
    <2>2. /\ tab.document <= tab'.document /\ moves' \in 0 .. MaxMoves /\ moves <= moves'
          /\ tab'.document + (IF tab'.pending THEN 1 ELSE 0) <= moves' + 1
          /\ StartsIn(channel') + moves <= StartsIn(channel) + moves'
      BY <1>2, <1>4, <2>1
    <2> QED
      BY <1>4, <2>2 DEF ChromeGoesOn
  <1>6. FailureTold' /\ FailuresAreShown' BY <1>4, NoCommitTold
  <1>7. failed' \subseteq Documents BY DEF WaitTyped, WaitTypeOK
  <1> QED
    BY <1>5, <1>6, <1>7, ChromeGoesOnKeeps

LEMMA LoadCompletesKeepsWaits == WaitInv /\ LoadCompletes => WaitInv'
  <1> SUFFICES ASSUME WaitInv, LoadCompletes PROVE WaitInv'
    OBVIOUS
  <1> DEFINE event == [Event("completed") EXCEPT !.wanted = tab.wanted]
  <1>1. tab \in TabType /\ moves \in Nat /\ moves <= MaxMoves
    BY WaitFacts, WaitConstants DEF WaitInv, WaitTyped, WaitTypeOK
  <1>2. event \in Told /\ event.what = "completed"
    BY <1>1 DEF Event, Told, EventType, EventNames, TabType
  <1>3. channel' = Append(channel, event) BY DEF LoadCompletes, Tell
  <1>4. tab' \in TabType /\ tab'.document = tab.document /\ tab'.pending = tab.pending
    BY <1>1 DEF LoadCompletes, TabType
  <1>5. UNCHANGED <<moves, wait, observation, tracked, marking, polls, result, failed>>
    BY DEF LoadCompletes
  <1> HIDE DEF event
  <1> QED
    BY <1>1, <1>2, <1>3, <1>4, <1>5, TellsKeepsWaits

LEMMA PageChangesKeepsWaits == WaitInv /\ PageChanges => WaitInv'
  <1> SUFFICES ASSUME WaitInv, PageChanges PROVE WaitInv'
    OBVIOUS
  <1> DEFINE event == [Event("same_document") EXCEPT !.wanted = ~tab.wanted]
  <1>1. tab \in TabType /\ moves \in Nat /\ MaxMoves \in Nat
    BY WaitFacts DEF WaitInv
  <1>2. event \in Told /\ event.what = "same_document"
    BY <1>1 DEF Event, Told, EventType, EventNames, TabType
  <1>3. channel' = Append(channel, event) \/ channel' = channel BY DEF PageChanges, Tell
  <1>4. tab' \in TabType /\ tab'.document = tab.document /\ tab'.pending = tab.pending
    BY <1>1 DEF PageChanges, TabType
  <1>5. UNCHANGED <<wait, observation, tracked, marking, polls, result, failed>>
    BY DEF PageChanges
  <1>6. moves' = moves + 1 /\ moves' <= MaxMoves BY <1>1 DEF PageChanges
  <1> HIDE DEF event
  <1> QED
    BY <1>2, <1>3, <1>4, <1>5, <1>6, TellsKeepsWaits

--------------------------------
\* Steps of the wait

LEMMA MarkNavigationKeepsWaits == WaitInv /\ MarkNavigation => WaitInv'
  <1> SUFFICES ASSUME WaitInv, MarkNavigation PROVE WaitInv'
    OBVIOUS
  <1> WaitTyped BY DEF WaitInv
  <1>1. /\ marking > 0 /\ marking' = marking - 1
        /\ tracked' = [revision |-> tracked.revision + 1, document |-> 0]
        /\ UNCHANGED <<tab, moves, channel, wait, observation, polls, result, failed>>
    BY DEF MarkNavigation
  <1>2. /\ moves \in Nat /\ marking \in Nat /\ tracked.revision \in Nat /\ MaxMoves \in Nat
        /\ tab.document \in Nat /\ StartsIn(channel) \in Nat /\ \A d \in DocumentsIn(channel) : d \in Nat
    BY WaitFacts
  <1>3. /\ marking + StartsIn(channel) <= moves
        /\ \A d \in DocumentsIn(channel) \cup {tab.document} : Marked(d)
    BY DEF WaitInv, RevisionsCounted
  <1>4. WaitTyped'
    <2>1. /\ moves \in 0 .. MaxMoves /\ marking \in 0 .. MaxMoves
          /\ tab.document <= moves + 1
      BY <1>2 DEF WaitTyped, WaitTypeOK
    <2>2. tracked.revision + marking + StartsIn(channel) <= moves + tab.document
      BY <1>3 DEF Marked
    <2>3. tracked.revision + 1 \in 1 .. (2 * MaxMoves + 2) /\ marking - 1 \in 0 .. MaxMoves
      BY <1>1, <1>2, <2>1, <2>2
    <2>4. tracked' \in [revision : 1 .. (2 * MaxMoves + 2), document : {0} \cup Documents]
      BY <1>1, <2>3
    <2> QED
      BY <1>1, <2>3, <2>4 DEF WaitTyped, WaitTypeOK
  <1>5. ReadsFollow' BY <1>1 DEF WaitInv, ReadsFollow, Reads
  <1>6. DocumentsGoOn'
    <2>1. /\ \A d \in DocumentsIn(channel) : tracked'.document <= d /\ tracked'.document <= tab.document
          /\ tracked'.document <= tab.document
      BY <1>1, <1>2
    <2> QED
      BY <1>1, <2>1 DEF WaitInv, DocumentsGoOn
  <1>7. RevisionsCounted'
    <2>1. ASSUME NEW d \in Nat, Marked(d) PROVE Marked(d)'
      BY <1>1, <1>2, <2>1 DEF Marked
    <2>2. (\A d \in DocumentsIn(channel) \cup {tab.document} : Marked(d))'
      BY <1>1, <1>2, <1>3, <2>1
    <2>3. tracked'.document = 0 BY <1>1
    <2>4. (marking + StartsIn(channel) <= moves)' BY <1>1, <1>2, <1>3
    <2> QED
      BY <2>2, <2>3, <2>4 DEF RevisionsCounted
  <1>8. WantedSoFar' /\ MatchedInOneDocument'
    BY <1>1 DEF WaitInv, WantedSoFar, MatchedInOneDocument, OfDocument, Reading, Wanted
  <1>9. FailureTold' /\ FailuresAreShown'
    BY <1>1 DEF WaitInv, FailureTold, FailuresAreShown, FailureHeard, Reading, Waiting
  <1> QED
    BY <1>4, <1>5, <1>6, <1>7, <1>8, <1>9 DEF WaitInv

GoesTo(at) == [wait EXCEPT !.at = at]
HasRead(reads) == [wait EXCEPT !.reads = reads]
Turns(at, reads) == [wait EXCEPT !.at = at, !.reads = reads]

LEMMA WaitFields ==
  ASSUME WaitTyped, NEW at \in WaitPlaces, NEW reads \in Seq(ReadType)
  PROVE  /\ Turns(at, reads) \in WaitType
         /\ Turns(at, reads).kind = wait.kind /\ Turns(at, reads).at = at
         /\ Turns(at, reads).reads = reads /\ Turns(at, reads).since = wait.since
         /\ GoesTo(at) \in WaitType
         /\ GoesTo(at).kind = wait.kind /\ GoesTo(at).at = at /\ GoesTo(at).reads = wait.reads
         /\ GoesTo(at).since = wait.since
         /\ HasRead(reads) \in WaitType
         /\ HasRead(reads).kind = wait.kind /\ HasRead(reads).at = wait.at
         /\ HasRead(reads).reads = reads /\ HasRead(reads).since = wait.since
  <1>1. wait \in WaitType BY DEF WaitTyped, WaitType
  <1>2. GoesTo(at) = [kind |-> wait.kind, at |-> at, reads |-> wait.reads, since |-> wait.since]
    BY <1>1 DEF GoesTo, WaitType
  <1>3. HasRead(reads) = [kind |-> wait.kind, at |-> wait.at, reads |-> reads, since |-> wait.since]
    BY <1>1 DEF HasRead, WaitType
  <1>4. Turns(at, reads) = [kind |-> wait.kind, at |-> at, reads |-> reads, since |-> wait.since]
    <2>1. Turns(at, reads) = [GoesTo(at) EXCEPT !.reads = reads] BY DEF Turns, GoesTo
    <2> QED
      BY <1>2, <2>1
  <1>5. /\ wait.kind \in WaitKinds /\ wait.at \in WaitPlaces /\ wait.reads \in Seq(ReadType)
        /\ wait.since \in Nat
    BY <1>1 DEF WaitType
  <1> QED
    BY <1>2, <1>3, <1>4, <1>5 DEF WaitType

\* It starts a poll or ends with nothing read.
LEMMA NothingRead ==
  ASSUME WaitTyped, NEW at \in WaitPlaces
  PROVE  /\ Turns(at, <<>>) \in WaitType
         /\ Turns(at, <<>>).kind = wait.kind /\ Turns(at, <<>>).at = at
         /\ Turns(at, <<>>).reads = <<>>
  <1>1. PICK none : none = <<>> OBVIOUS
  <1>2. none \in Seq(ReadType) BY <1>1
  <1>3. /\ Turns(at, none) \in WaitType /\ Turns(at, none).kind = wait.kind
        /\ Turns(at, none).at = at /\ Turns(at, none).reads = none
    BY <1>2, WaitFields
  <1> QED
    BY <1>1, <1>3

\* The wait goes on with nothing read and nothing asked, or ends, or has just matched.
LEMMA PollEndsKeepsWaits ==
  ASSUME WaitInv, WaitTyped',
         UNCHANGED <<tab, moves, channel, tracked, marking, failed>>,
         wait'.kind = wait.kind,
         AnswersIn(channel) = {}, wait'.at # "asked", wait'.at # "idle",
         wait'.reads = <<>> \/ (wait'.reads = wait.reads /\ wait'.at # "poll"),
         wait'.at = "matched" /\ Reading => wait' = wait,
         ~Reading /\ Waiting' =>
           (observation' = observation /\ Waiting) \/ (wait.at = "idle" /\ observation'.on)
  PROVE  WaitInv'
  <1>1. ReadsFollow' BY DEF WaitInv, ReadsFollow, Reads, AtMostOneAnswer
  <1>2. DocumentsGoOn' BY DEF WaitInv, DocumentsGoOn
  <1>3. RevisionsCounted' BY DEF WaitInv, RevisionsCounted, Marked
  <1>4. WantedSoFar' /\ MatchedInOneDocument'
    BY DEF WaitInv, WantedSoFar, MatchedInOneDocument, OfDocument, Reading, Wanted
  <1>5. FailureTold'
    <2>1. CASE ~Reading /\ Waiting' /\ observation' = observation /\ Waiting
      <3>1. FailureHeard' = FailureHeard BY <2>1 DEF FailureHeard
      <3> QED
        BY <2>1, <3>1 DEF WaitInv, FailureTold, Reading
    <2>2. CASE ~Reading /\ wait.at = "idle" /\ observation'.on
      BY <2>2 DEF WaitInv, FailuresAreShown, FailureTold, Reading
    <2> QED
      BY <2>1, <2>2 DEF FailureTold, Reading
  <1>6. FailuresAreShown' BY DEF WaitInv, FailuresAreShown
  <1> QED
    BY <1>1, <1>2, <1>3, <1>4, <1>5, <1>6 DEF WaitInv

LEMMA StartWaitingKeepsWaits == WaitInv /\ StartWaiting => WaitInv'
  <1> SUFFICES ASSUME WaitInv, StartWaiting PROVE WaitInv'
    OBVIOUS
  <1>1. /\ wait.at = "idle" /\ wait' = [wait EXCEPT !.at = "poll"]
        /\ observation' = [NoObservation EXCEPT !.on = wait.kind \in FromEvents]
        /\ UNCHANGED <<tab, moves, channel, tracked, marking, polls, result, failed>>
    BY DEF StartWaiting
  <1>2. wait \in WaitType /\ wait.reads = <<>>
        /\ AnswersIn(channel) = {}
    BY <1>1 DEF WaitInv, WaitTyped, ReadsFollow
  <1>3. wait'.kind = wait.kind /\ wait'.at = "poll" /\ wait'.reads = wait.reads
        /\ wait' \in WaitType
    BY <1>1, <1>2 DEF WaitPlaces, WaitType
  <1>4. observation' \in [on : BOOLEAN, loaded : BOOLEAN, error : BOOLEAN, url : BOOLEAN]
        /\ (wait.kind \in FromEvents => observation'.on)
    <2>1. CASE wait.kind \in FromEvents
      <3>1. observation' = [on |-> TRUE, loaded |-> FALSE, error |-> FALSE, url |-> FALSE]
        BY <1>1, <2>1 DEF NoObservation
      <3> QED
        BY <3>1
    <2>2. CASE wait.kind \notin FromEvents
      <3>1. (wait.kind \in FromEvents) = FALSE BY <2>2
      <3>2. observation' = [NoObservation EXCEPT !.on = FALSE] BY <1>1, <3>1
      <3> QED
        BY <2>2, <3>2 DEF NoObservation
    <2> QED
      BY <2>1, <2>2
  <1>5. WaitTyped' BY <1>1, <1>3, <1>4 DEF WaitInv, WaitTyped, WaitTypeOK, WaitPlaces
  <1> QED
    BY <1>1, <1>2, <1>3, <1>4, <1>5, PollEndsKeepsWaits DEF Reading, Waiting

\* The wait returns.
LEMMA EndsKeepsWaits ==
  ASSUME WaitInv, NEW said \in {"matched", "navigation_failed", "wait_timeout", "failed"},
         NEW saw \in SUBSET Documents, Ends(said, saw), AnswersIn(channel) = {},
         UNCHANGED <<tab, moves, channel, tracked, marking, polls, failed>>
  PROVE  WaitInv'
  <1>1. /\ wait' = [wait EXCEPT !.at = "over", !.reads = <<>>] /\ observation' = NoObservation
        /\ result' = [said |-> said, saw |-> saw]
    BY DEF Ends
  <1>3. wait'.kind = wait.kind /\ wait'.at = "over" /\ wait'.reads = <<>>
        /\ wait' \in WaitType
    <2>1. "over" \in WaitPlaces /\ <<>> \in Seq(ReadType) /\ WaitTyped BY DEF WaitPlaces, WaitInv
    <2>2. wait' = Turns("over", <<>>) BY <1>1 DEF Turns
    <2> QED
      BY <2>1, <2>2, NothingRead DEF WaitType
  <1>4. observation' \in [on : BOOLEAN, loaded : BOOLEAN, error : BOOLEAN, url : BOOLEAN]
    BY <1>1 DEF NoObservation
  <1>5. result' \in [said : {"none", "matched", "navigation_failed", "wait_timeout", "failed"}, saw : SUBSET Documents]
        /\ result'.said \in {"none", "matched", "navigation_failed", "wait_timeout", "failed"}
        /\ result'.saw \subseteq Documents
    BY <1>1
  <1>6. WaitTyped' BY <1>3, <1>4, <1>5 DEF WaitInv, WaitTyped, WaitTypeOK, WaitPlaces
  <1> QED
    BY <1>3, <1>6, PollEndsKeepsWaits DEF Reading, Waiting

LEMMA ResumeKeepsWaits == WaitInv /\ Resume => WaitInv'
  <1> SUFFICES ASSUME WaitInv, Resume PROVE WaitInv'
    OBVIOUS
  <1>1. /\ wait.at = "pause" /\ UNCHANGED <<tab, moves, channel, tracked, marking, failed>>
        /\ AnswersIn(channel) = {}
    BY DEF Resume, WaitInv, ReadsFollow
  <1>2. CASE Ends("navigation_failed", {}) /\ UNCHANGED polls BY <1>1, <1>2, EndsKeepsWaits
  <1>3. CASE Ends("wait_timeout", {}) /\ UNCHANGED polls BY <1>1, <1>3, EndsKeepsWaits
  <1>4. CASE /\ polls < MaxPolls /\ polls' = polls + 1
             /\ wait' = [wait EXCEPT !.at = "poll", !.reads = <<>>]
             /\ UNCHANGED <<observation, result>>
    <2>1. "poll" \in WaitPlaces /\ <<>> \in Seq(ReadType) /\ WaitTyped BY DEF WaitPlaces, WaitInv
    <2>2. wait'.kind = wait.kind /\ wait'.at = "poll" /\ wait'.reads = <<>>
          /\ wait' \in WaitType
      <3>1. wait' = Turns("poll", <<>>) BY <1>4 DEF Turns
      <3> QED
        BY <2>1, <3>1, NothingRead DEF WaitType
    <2>3. polls' \in 0 .. MaxPolls
      <3>1. polls \in 0 .. MaxPolls BY DEF WaitInv, WaitTyped, WaitTypeOK
      <3> QED
        BY <1>4, <3>1, WaitConstants
    <2>4. WaitTyped' BY <1>1, <1>4, <2>2, <2>3 DEF WaitInv, WaitTyped, WaitTypeOK, WaitPlaces
    <2> QED
      <3>1. observation' = observation /\ Waiting BY <1>1, <1>4 DEF Waiting
      <3> QED
        BY <1>1, <2>2, <2>4, <3>1, PollEndsKeepsWaits
  <1> QED
    BY <1>2, <1>3, <1>4 DEF Resume

LEMMA ReturnMatchKeepsWaits == WaitInv /\ ReturnMatch => WaitInv'
  <1> SUFFICES ASSUME WaitInv, ReturnMatch PROVE WaitInv'
    OBVIOUS
  <1>1. /\ wait.at = "matched" /\ UNCHANGED <<tab, moves, channel, tracked, marking, polls, failed>>
        /\ AnswersIn(channel) = {}
    BY DEF ReturnMatch, WaitInv, ReadsFollow
  <1> DEFINE saw == {wait.reads[i].tab.document : i \in DOMAIN wait.reads}
  <1>2. CASE Ends("matched", saw)
    <2>1. saw \in SUBSET Documents BY WaitFacts DEF WaitInv
    <2> HIDE DEF saw
    <2> QED
      BY <1>1, <1>2, <2>1, EndsKeepsWaits
  <1>3. CASE wait' = [wait EXCEPT !.at = "pause"] /\ UNCHANGED <<observation, result>>
    <2>1. "pause" \in WaitPlaces /\ wait.reads \in Seq(ReadType) /\ WaitTyped
      BY DEF WaitPlaces, WaitInv, WaitTyped, WaitType
    <2>2. wait'.kind = wait.kind /\ wait'.at = "pause" /\ wait'.reads = wait.reads
          /\ wait' \in WaitType
      <3>1. wait' = GoesTo("pause") BY <1>3 DEF GoesTo
      <3> QED
        BY <2>1, <3>1, WaitFields DEF WaitType
    <2>3. WaitTyped' BY <1>1, <1>3, <2>2 DEF WaitInv, WaitTyped, WaitTypeOK, WaitPlaces
    <2> QED
      <3>1. observation' = observation /\ Waiting BY <1>1, <1>3 DEF Waiting
      <3> QED
        BY <1>1, <2>2, <2>3, <3>1, PollEndsKeepsWaits
  <1> QED
    BY <1>2, <1>3 DEF ReturnMatch

LEMMA BeginPollKeepsWaits == WaitInv /\ BeginPoll => WaitInv'
  <1> SUFFICES ASSUME WaitInv, BeginPoll PROVE WaitInv'
    OBVIOUS
  <1> WaitTyped BY DEF WaitInv
  <1>1. /\ wait.at = "poll" /\ UNCHANGED <<tab, moves, channel, tracked, marking, polls, failed>>
        /\ AnswersIn(channel) = {} /\ Waiting
    BY DEF BeginPoll, WaitInv, ReadsFollow, Waiting
  <1>2. CASE Ends("navigation_failed", {}) BY <1>1, <1>2, EndsKeepsWaits
  <1>3. CASE /\ SeenByEvents /\ wait' = [wait EXCEPT !.at = "matched", !.reads = <<>>]
             /\ UNCHANGED <<observation, result>>
    <2>1. wait' = Turns("matched", <<>>) BY <1>3 DEF Turns
    <2>2. wait'.kind = wait.kind /\ wait'.at = "matched" /\ wait'.reads = <<>> /\ wait' \in WaitType
      BY <2>1, NothingRead DEF WaitPlaces
    <2>3. WaitTyped'
      BY <1>1, <1>3, <2>2 DEF WaitTyped, WaitTypeOK, WaitPlaces, WaitType
    <2>4. ~Reading BY <1>3 DEF SeenByEvents, Reading, FromEvents
    <2> QED
      BY <1>1, <1>3, <2>2, <2>3, <2>4, PollEndsKeepsWaits
  <1>4. ASSUME NEW since \in {0, tracked.revision},
               wait' = [wait EXCEPT !.at = "asked", !.reads = <<>>, !.since = since],
               UNCHANGED <<observation, result>>
        PROVE  WaitInv'
    <2>1. since \in Nat
      <3>1. tracked.revision \in Nat BY WaitFacts
      <3> QED
        BY <3>1
    <2>2. wait'.kind = wait.kind /\ wait'.at = "asked" /\ wait'.reads = <<>> /\ wait' \in WaitType
      <3>1. PICK none : none = <<>> OBVIOUS
      <3>2. none \in Seq(ReadType) BY <3>1
      <3>3. wait \in WaitType BY DEF WaitTyped
      <3>4. wait' = [wait EXCEPT !.at = "asked", !.reads = none, !.since = since] BY <1>4, <3>1
      <3>5. wait' = [kind |-> wait.kind, at |-> "asked", reads |-> none, since |-> since]
        BY <3>3, <3>4 DEF WaitType
      <3> QED
        BY <2>1, <3>1, <3>2, <3>3, <3>5 DEF WaitType, WaitPlaces
    <2>3. WaitTyped'
      BY <1>1, <1>4, <2>2 DEF WaitTyped, WaitTypeOK, WaitPlaces, WaitType
    <2>4. ReadsFollow'
      BY <1>1, <2>2 DEF WaitInv, ReadsFollow, AtMostOneAnswer, Reads
    <2>5. DocumentsGoOn' /\ RevisionsCounted'
      BY <1>1, <2>2 DEF WaitInv, DocumentsGoOn, RevisionsCounted, Marked
    <2>6. WantedSoFar' /\ MatchedInOneDocument'
      BY <2>2 DEF WantedSoFar, MatchedInOneDocument
    <2>7. FailureTold' /\ FailuresAreShown'
      BY <1>1, <1>4, <2>2 DEF WaitInv, FailureTold, FailuresAreShown, FailureHeard, Reading, Waiting
    <2> QED
      BY <2>3, <2>4, <2>5, <2>6, <2>7 DEF WaitInv
  <1> QED
    BY <1>1, <1>2, <1>3, <1>4 DEF BeginPoll

\* What was asked is answered, in the document the tab shows then.
LEMMA AnswersKeepsWaits == WaitInv /\ Answers => WaitInv'
  <1> SUFFICES ASSUME WaitInv, Answers PROVE WaitInv'
    OBVIOUS
  <1> WaitTyped BY DEF WaitInv
  <1> DEFINE answer == [what |-> "answer", tab |-> tab]
  <1>1. /\ wait.at = "asked" /\ AnswersIn(channel) = {} /\ Waiting
        /\ UNCHANGED <<tab, moves, wait, observation, tracked, marking, polls, result, failed>>
        /\ channel' = Append(channel, answer)
    BY DEF Answers, Unanswered, AnswersIn, Waiting, Tell
  <1>2. /\ answer \in Told /\ answer.what = "answer" /\ answer.tab = tab /\ answer # Event("started")
        /\ channel \in Seq(Told)
    BY WaitFacts DEF Told, AnswerType, Event, WaitTyped
  <1> HIDE DEF answer
  <1>3. StartsIn(channel) \in Nat BY WaitFacts
  <1>4. /\ channel' \in Seq(Told) /\ AtMostOneAnswer(channel')
        /\ NoCommits(channel) => NoCommits(channel')
    BY <1>1, <1>2, ToldMore
  <1>5. DocumentsIn(channel') = {tab.document}
    <2>1. DocumentsIn(channel') = DocumentsIn(channel) \cup {tab.document} BY <1>1, <1>2, ToldMore
    <2> QED
      BY <1>1, <2>1 DEF DocumentsIn
  <1>6. StartsIn(channel') = StartsIn(channel)
    <2>1. StartsIn(channel') = StartsIn(channel) + (IF answer = Event("started") THEN 1 ELSE 0)
      BY <1>1, <1>2, ToldMore
    <2> QED
      BY <1>2, <1>3, <2>1
  <1>7. FailsBefore(channel, tab.document) => FailsBefore(channel', tab.document)
    BY <1>1, <1>2, ToldMore
  <1>8. WaitTyped'
    BY <1>1, <1>4 DEF WaitTyped, WaitTypeOK
  <1>9. ReadsFollow'
    BY <1>1, <1>4 DEF WaitInv, ReadsFollow, Reads
  <1>10. DocumentsGoOn'
    <2>1. tracked.document <= tab.document /\ tab.document <= tab.document
      BY WaitFacts DEF WaitInv, DocumentsGoOn
    <2> QED
      BY <1>1, <1>5, <2>1 DEF WaitInv, DocumentsGoOn
  <1>11. RevisionsCounted'
    BY <1>1, <1>5, <1>6 DEF WaitInv, RevisionsCounted, Marked
  <1>12. WantedSoFar' /\ MatchedInOneDocument'
    BY <1>1 DEF WaitInv, WantedSoFar, MatchedInOneDocument, OfDocument, Reading, Wanted
  <1>13. FailureTold' /\ FailuresAreShown'
    BY <1>1, <1>4, <1>7 DEF WaitInv, FailureTold, FailuresAreShown, FailureHeard, Reading, Waiting
  <1> QED
    BY <1>8, <1>9, <1>10, <1>11, <1>12, <1>13 DEF WaitInv

LEMMA PollThrowsKeepsWaits == WaitInv /\ PollThrows => WaitInv'
  <1> SUFFICES ASSUME WaitInv, PollThrows PROVE WaitInv'
    OBVIOUS
  <1>1. AnswersIn(channel) = {}
    BY DEF PollThrows, Unanswered, AnswersIn, WaitInv, ReadsFollow
  <1> QED
    BY <1>1, EndsKeepsWaits DEF PollThrows

LEMMA LessMarked ==
  ASSUME NEW r \in Nat, NEW a \in Nat, NEW b \in Nat, NEW c \in Nat, NEW e \in Nat, NEW m \in Nat,
         NEW d \in Nat, c + e <= a + b, r + a + b <= m + d
  PROVE  r + c + e <= m + d
  OBVIOUS

LEMMA HearNavigationKeepsWaits ==
  ASSUME WaitInv, channel # <<>>, Head(channel).what # "answer", HearNavigation(Head(channel)),
         UNCHANGED <<tab, moves, polls, result, failed>>
  PROVE  WaitInv'
  <1> WaitTyped BY DEF WaitInv
  <1> DEFINE event == Head(channel)
             rest == Tail(channel)
  <1>1. channel' = rest /\ UNCHANGED <<tab, moves, polls, result, failed, wait, tracked>>
    BY DEF HearNavigation
  <1>2. channel \in Seq(Told) /\ AtMostOneAnswer(channel) BY DEF WaitTyped, WaitInv, ReadsFollow
  <1>3. /\ rest \in Seq(Told) /\ AtMostOneAnswer(rest) /\ event \in Told
        /\ AnswersIn(channel) = {} => AnswersIn(rest) = {}
        /\ DocumentsIn(rest) \subseteq DocumentsIn(channel)
    BY <1>2, ToldLess
  <1>4. StartsIn(channel) = StartsIn(rest) + (IF event = Event("started") THEN 1 ELSE 0)
    BY <1>2, ToldLess
  <1>5. NoCommits(channel) => NoCommits(rest) /\ event.what # "committed" BY <1>2, ToldLess
  <1>6. \A d : FailsBefore(channel, d) =>
               IF event.what = "error" THEN NoCommits(rest) \/ FailsBefore(rest, d)
               ELSE FailsBefore(rest, d)
    BY <1>2, ToldLess
  <1>7. /\ event.what = "started" => event = Event("started")
        /\ event.what # "started" => event \in EventType
    BY <1>3, ToldKinds
  <1>8. marking' = IF event.what = "started" THEN marking + 1 ELSE marking
    BY DEF HearNavigation
  <1>9. /\ observation' \in [on : BOOLEAN, loaded : BOOLEAN, error : BOOLEAN, url : BOOLEAN]
        /\ observation'.on = observation.on
        /\ event.what = "error" /\ observation.on => observation'.error
        /\ event.what # "committed" => (observation.error => observation'.error)
    <2>1. observation \in [on : BOOLEAN, loaded : BOOLEAN, error : BOOLEAN, url : BOOLEAN]
      BY DEF WaitTyped, WaitTypeOK
    <2>2. CASE ~observation.on \/ event.what \in {"superseded", "started"}
      <3>1. observation' = observation BY <2>2 DEF HearNavigation
      <3> QED
        BY <2>1, <2>2, <3>1
    <2>3. CASE observation.on /\ event.what = "error"
      <3>1. observation' = [observation EXCEPT !.loaded = FALSE, !.error = TRUE]
        BY <2>3 DEF HearNavigation
      <3> QED
        BY <2>1, <2>3, <3>1
    <2>4. CASE observation.on /\ event.what = "committed"
      <3>1. observation' = [observation EXCEPT !.loaded = FALSE, !.error = FALSE, !.url = event.wanted]
        BY <2>4 DEF HearNavigation
      <3>2. event.wanted \in BOOLEAN BY <1>7, <2>4 DEF EventType
      <3> QED
        BY <2>1, <2>4, <3>1, <3>2
    <2>5. CASE observation.on /\ event.what = "completed"
      <3>1. observation' = [observation EXCEPT !.loaded = TRUE, !.url = event.wanted]
        BY <2>5 DEF HearNavigation
      <3>2. event.wanted \in BOOLEAN BY <1>7, <2>5 DEF EventType
      <3> QED
        BY <2>1, <2>5, <3>1, <3>2
    <2>6. CASE observation.on /\ event.what = "same_document"
      <3>1. observation' = [observation EXCEPT !.url = event.wanted]
        BY <2>6 DEF HearNavigation
      <3>2. event.wanted \in BOOLEAN BY <1>7, <2>6 DEF EventType
      <3> QED
        BY <2>1, <2>6, <3>1, <3>2
    <2>7. event.what \in EventNames \cup {"started"} BY <1>7 DEF EventType
    <2> QED
      BY <2>2, <2>3, <2>4, <2>5, <2>6, <2>7 DEF EventNames
  <1> HIDE DEF event, rest
  <1>10. /\ moves \in Nat /\ marking \in Nat /\ tracked.revision \in Nat /\ StartsIn(channel) \in Nat
         /\ StartsIn(rest) \in Nat /\ tab.document \in Nat /\ \A d \in DocumentsIn(channel) : d \in Nat
         /\ MaxMoves \in Nat
    <2>1. StartsIn(rest) \in Nat BY <1>3, CountOfFinite DEF StartsIn
    <2> QED
      BY <2>1, WaitFacts
  <1>11. marking' \in Nat /\ marking' + StartsIn(rest) <= marking + StartsIn(channel)
    BY <1>4, <1>7, <1>8, <1>10
  <1>12. RevisionsCounted'
    <2>1. /\ marking + StartsIn(channel) <= moves
          /\ \A d \in DocumentsIn(channel) \cup {tab.document} : Marked(d)
          /\ tracked.document # 0 => Marked(tracked.document)
      BY DEF WaitInv, RevisionsCounted
    <2>2. (marking + StartsIn(channel) <= moves)' BY <1>1, <1>10, <1>11, <2>1
    <2>3. ASSUME NEW d \in Nat, Marked(d) PROVE Marked(d)'
      <3>1. tracked.revision + marking + StartsIn(channel) <= moves + d BY <2>3 DEF Marked
      <3>2. tracked' = tracked /\ moves' = moves /\ channel' = rest BY <1>1
      <3>3. tracked.revision + marking' + StartsIn(rest) <= moves + d BY <1>10, <1>11, <2>3, <3>1, LessMarked
      <3> QED
        BY <3>2, <3>3 DEF Marked
    <2>4. (\A d \in DocumentsIn(channel) \cup {tab.document} : Marked(d))'
      BY <1>1, <1>3, <1>10, <2>1, <2>3
    <2>5. (tracked.document # 0 => Marked(tracked.document))'
      BY <1>1, <2>1, <2>3, WaitFacts
    <2> QED
      BY <2>2, <2>4, <2>5 DEF RevisionsCounted
  <1>13. WaitTyped'
    <2>1. moves \in 0 .. MaxMoves BY DEF WaitTyped, WaitTypeOK
    <2>2. marking' \in 0 .. MaxMoves
      <3>1. marking + StartsIn(channel) <= moves BY DEF WaitInv, RevisionsCounted
      <3> QED
        BY <1>10, <1>11, <2>1, <3>1
    <2> QED
      BY <1>1, <1>3, <1>9, <2>2 DEF WaitTyped, WaitTypeOK
  <1>14. ReadsFollow'
    BY <1>1, <1>3 DEF WaitInv, ReadsFollow, Reads
  <1>15. DocumentsGoOn'
    BY <1>1, <1>3 DEF WaitInv, DocumentsGoOn
  <1>16. WantedSoFar' /\ MatchedInOneDocument'
    BY <1>1 DEF WaitInv, WantedSoFar, MatchedInOneDocument, OfDocument, Reading, Wanted
  <1>17. FailureTold'
    <2> SUFFICES ASSUME ~Reading, Waiting
                 PROVE  /\ observation'.on
                        /\ tab.document \in failed =>
                             /\ FailureHeard' \/ FailsBefore(rest, tab.document)
                             /\ \A i \in DOMAIN wait.reads :
                                  wait.reads[i].tab.document = tab.document => FailureHeard'
      BY <1>1 DEF FailureTold, Reading, Waiting
    <2>1. /\ observation.on
          /\ tab.document \in failed =>
               /\ FailureHeard \/ FailsBefore(channel, tab.document)
               /\ \A i \in DOMAIN wait.reads : wait.reads[i].tab.document = tab.document => FailureHeard
      BY DEF WaitInv, FailureTold
    <2>2. FailureHeard => FailureHeard' BY <1>1, <1>5, <1>9 DEF FailureHeard
    <2>3. FailsBefore(channel, tab.document) => FailureHeard' \/ FailsBefore(rest, tab.document)
      BY <1>1, <1>6, <1>9, <2>1 DEF FailureHeard
    <2> QED
      BY <1>9, <2>1, <2>2, <2>3
  <1>18. FailuresAreShown' BY <1>1 DEF WaitInv, FailuresAreShown
  <1> QED
    BY <1>12, <1>13, <1>14, <1>15, <1>16, <1>17, <1>18 DEF WaitInv

\* The read that is answered, and what the poll has then read.
ReadNow == [tab |-> Head(channel).tab, revision |-> Observed(Head(channel).tab.document).revision]
ReadsNow == Append(wait.reads, ReadNow)
GoodRead ==
  /\ OfDocument(Len(ReadsNow)) /\ Len(ReadsNow) > 1 => Unchanged(wait.reads, Head(channel))
  /\ Reading /\ ~OfDocument(Len(ReadsNow)) => Wanted(Head(channel))

LEMMA AnswerOutcomes ==
  ASSUME WaitTyped, HearAnswer(Head(channel))
  PROVE  /\ tracked' = tracked \/ (Reading /\ tracked' = Observed(Head(channel).tab.document))
         /\ UNCHANGED <<observation, marking>> /\ channel' = Tail(channel)
         /\ \/ wait' = GoesTo("pause")
            \/ GoodRead /\ Len(ReadsNow) < Reads /\ wait' = HasRead(ReadsNow)
            \/ GoodRead /\ Len(ReadsNow) = Reads /\ wait' = Turns("matched", ReadsNow)
  <1> DEFINE read == Head(channel)
             good == CASE wait.kind = "load" -> ~read.tab.loading
                       [] wait.kind = "url" -> read.tab.wanted
                       [] OfDocument(Len(ReadsNow)) ->
                            (Len(ReadsNow) > 1 => Unchanged(wait.reads, read))
                       [] OTHER -> Wanted(read) /\ wait.since \in {0, tracked.revision}
  <1>1. good => GoodRead
    <2>1. CASE OfDocument(Len(ReadsNow))
      <3>1. wait.kind # "load" /\ wait.kind # "url"
        BY <2>1 DEF FromEvents, OfDocument
      <3> QED
        BY <2>1, <3>1 DEF GoodRead
    <2>2. CASE Reading /\ ~OfDocument(Len(ReadsNow))
      <3>1. wait.kind # "load" /\ wait.kind # "url"
        BY <2>2 DEF Reading, FromEvents
      <3> QED
        BY <2>2, <3>1 DEF GoodRead
    <2>3. CASE ~Reading /\ ~OfDocument(Len(ReadsNow)) BY <2>3 DEF GoodRead
    <2> QED
      BY <2>1, <2>2, <2>3
  <1> HIDE DEF good
  <1>2. tracked' = IF OfDocument(Len(ReadsNow)) THEN Observed(read.tab.document) ELSE tracked
    BY DEF HearAnswer, ReadsNow, ReadNow
  <1>3. OfDocument(Len(ReadsNow)) => Reading BY DEF OfDocument, Reading
  <1>4. \/ wait' = [wait EXCEPT !.at = "pause"]
        \/ good /\ Len(ReadsNow) < Reads /\ wait' = [wait EXCEPT !.reads = ReadsNow]
        \/ good /\ Len(ReadsNow) = Reads /\ wait' = [wait EXCEPT !.at = "matched", !.reads = ReadsNow]
    BY DEF HearAnswer, ReadsNow, ReadNow, good
  <1>5. UNCHANGED <<observation, marking>> /\ channel' = Tail(channel) BY DEF HearAnswer
  <1>6. \/ wait' = GoesTo("pause")
        \/ good /\ Len(ReadsNow) < Reads /\ wait' = HasRead(ReadsNow)
        \/ good /\ Len(ReadsNow) = Reads /\ wait' = Turns("matched", ReadsNow)
    BY <1>4 DEF GoesTo, HasRead, Turns
  <1> QED
    BY <1>1, <1>2, <1>3, <1>5, <1>6

\* The tracker observes a document no older than it knows, and counts it once.
LEMMA ObservedOnce ==
  ASSUME WaitInv, NEW d \in DocumentsIn(channel),
         tracked' = tracked \/ tracked' = Observed(d),
         UNCHANGED <<tab, moves, marking>>, StartsIn(channel') = StartsIn(channel)
  PROVE  /\ tracked' \in [revision : 1 .. (2 * MaxMoves + 2), document : {0} \cup Documents]
         /\ tracked'.document <= d \/ tracked' = tracked
         /\ tracked'.document <= tab.document
         /\ Marked(tab.document)' /\ (tracked.document # 0 => Marked(tracked.document))'
  <1> WaitTyped BY DEF WaitInv
  <1>1. /\ moves \in Nat /\ marking \in Nat /\ tracked.revision \in Nat /\ tracked.document \in Nat
        /\ tab.document \in Nat /\ StartsIn(channel) \in Nat /\ d \in Nat /\ d \in Documents
        /\ MaxMoves \in Nat
    BY WaitFacts
  <1>2. tracked.document <= d /\ d <= tab.document /\ tracked.document <= tab.document
    BY DEF WaitInv, DocumentsGoOn
  <1>3. /\ Marked(d) /\ Marked(tab.document) /\ (tracked.document # 0 => Marked(tracked.document))
    BY DEF WaitInv, RevisionsCounted
  <1>4. moves <= MaxMoves /\ tab.document <= moves + 1
    BY <1>1 DEF WaitTyped, WaitTypeOK
  <1>5. tracked \in [revision : 1 .. (2 * MaxMoves + 2), document : {0} \cup Documents]
    BY DEF WaitTyped, WaitTypeOK
  <1>6. CASE tracked' = tracked
    BY <1>2, <1>3, <1>5, <1>6 DEF Marked
  <1>7. CASE tracked' = Observed(d)
    <2>1. tracked'.document = d
          /\ tracked'.revision = IF tracked.document \in {0, d} THEN tracked.revision ELSE tracked.revision + 1
      BY <1>7 DEF Observed
    <2>2. tracked'.revision \in Nat /\ tracked'.revision >= tracked.revision BY <1>1, <2>1
    <2>3. tracked'.revision + marking + StartsIn(channel) <= moves + d
      <3>1. CASE tracked.document \in {0, d} BY <1>3, <2>1, <3>1 DEF Marked
      <3>2. CASE tracked.document \notin {0, d}
        <4>1. tracked.revision + marking + StartsIn(channel) <= moves + tracked.document
          BY <1>3, <3>2 DEF Marked
        <4>2. tracked.document + 1 <= d BY <1>1, <1>2, <3>2
        <4> QED
          BY <1>1, <2>1, <3>2, <4>1, <4>2
      <3> QED
        BY <3>1, <3>2
    <2>4. tracked'.revision + marking + StartsIn(channel) <= moves + tab.document
      BY <1>1, <1>2, <2>2, <2>3
    <2>5. tracked'.revision \in 1 .. (2 * MaxMoves + 2)
      <3>1. tracked.revision \in 1 .. (2 * MaxMoves + 2) BY <1>5
      <3> QED
        BY <1>1, <1>4, <2>2, <2>4, <3>1
    <2>6. tracked' \in [revision : 1 .. (2 * MaxMoves + 2), document : {0} \cup Documents]
      <3>1. tracked' = [revision |-> tracked'.revision, document |-> d]
        BY <1>7, <2>1 DEF Observed
      <3> QED
        BY <1>1, <2>5, <3>1
    <2>7. (Marked(tab.document))' /\ (tracked.document # 0 => Marked(tracked.document))'
      BY <2>1, <2>3, <2>4 DEF Marked
    <2> QED
      BY <1>1, <1>2, <2>1, <2>6, <2>7
  <1> QED
    BY <1>6, <1>7

\* A poll that read well goes on, matches, or gives up.
LEMMA HearAnswerKeepsWaits ==
  ASSUME WaitInv, channel # <<>>, Head(channel).what = "answer", HearAnswer(Head(channel)),
         UNCHANGED <<tab, moves, polls, result, failed>>
  PROVE  WaitInv'
  <1> WaitTyped BY DEF WaitInv
  <1> DEFINE d == Head(channel).tab.document
             rest == Tail(channel)
  <1>1. channel \in Seq(Told) /\ AtMostOneAnswer(channel) BY DEF WaitTyped, WaitInv, ReadsFollow
  <1>2. /\ rest \in Seq(Told) /\ AnswersIn(rest) = {} /\ Head(channel) \in Told
        /\ d \in DocumentsIn(channel) /\ AnswersIn(channel) # {}
    BY <1>1, ToldLess
  <1>3. StartsIn(rest) \in Nat /\ StartsIn(channel) = StartsIn(rest)
    <2>1. StartsIn(channel) = StartsIn(rest) + (IF Head(channel) = Event("started") THEN 1 ELSE 0)
      BY <1>1, ToldLess
    <2>2. Head(channel) # Event("started") BY DEF Event
    <2>3. StartsIn(rest) \in Nat BY <1>2, CountOfFinite DEF StartsIn
    <2> QED
      BY <2>1, <2>2, <2>3
  <1>4. NoCommits(channel) => NoCommits(rest) BY <1>1, ToldLess
  <1>5. /\ FailsBefore(channel, tab.document) => FailsBefore(rest, tab.document)
        /\ FailsBefore(channel, tab.document) => d # tab.document
    BY <1>1, ToldLess
  <1>6. DocumentsIn(rest) = {} BY <1>2 DEF DocumentsIn
  <1>7. wait.at = "asked" /\ Waiting /\ Len(wait.reads) < Reads
    BY <1>2 DEF WaitInv, ReadsFollow, Waiting
  <1>8. /\ tab.document \in Nat /\ wait.reads \in Seq(ReadType) /\ Len(wait.reads) \in Nat
        /\ DOMAIN wait.reads = 1 .. Len(wait.reads)
        /\ \A i \in DOMAIN wait.reads : wait.reads[i] \in ReadType /\ wait.reads[i].tab.document \in Nat
        /\ tracked.document \in Nat /\ tracked.revision \in Nat /\ d \in Nat
    <2>1. /\ tab.document \in Nat /\ wait.reads \in Seq(ReadType) /\ Len(wait.reads) \in Nat
          /\ \A i \in DOMAIN wait.reads : wait.reads[i] \in ReadType /\ wait.reads[i].tab.document \in Nat
          /\ tracked.document \in Nat /\ tracked.revision \in Nat
          /\ DocumentsIn(channel) \subseteq Nat
      BY WaitFacts
    <2>2. DOMAIN wait.reads = 1 .. Len(wait.reads) BY <2>1
    <2> QED
      BY <1>2, <2>1, <2>2
  <1>9. /\ ReadNow \in ReadType /\ ReadNow.tab = Head(channel).tab /\ ReadNow.tab.document = d
    <2>1. Head(channel).tab \in TabType BY <1>2, ToldKinds DEF AnswerType
    <2>2. Observed(d).revision \in Nat BY <1>8 DEF Observed
    <2> QED
      BY <2>1, <2>2 DEF ReadNow, ReadType
  <1> DEFINE n == Len(ReadsNow)
  <1>10. /\ ReadsNow \in Seq(ReadType) /\ n = Len(wait.reads) + 1 /\ DOMAIN ReadsNow = 1 .. n
         /\ \A i \in DOMAIN wait.reads : ReadsNow[i] = wait.reads[i]
         /\ ReadsNow[n] = ReadNow
         /\ \A i \in DOMAIN ReadsNow : i \in DOMAIN wait.reads \/ i = n
    <2>1. /\ ReadsNow \in Seq(ReadType) /\ n = Len(wait.reads) + 1
          /\ \A i \in 1 .. Len(wait.reads) : ReadsNow[i] = wait.reads[i]
          /\ ReadsNow[Len(wait.reads) + 1] = ReadNow
      BY <1>8, <1>9, AppendProperties DEF ReadsNow
    <2>2. DOMAIN ReadsNow = 1 .. n BY <2>1
    <2> QED
      BY <1>8, <2>1, <2>2
  <1> HIDE DEF d, rest, n
  <1>11. /\ \A i, j \in DOMAIN wait.reads : i < j => wait.reads[i].tab.document <= wait.reads[j].tab.document
         /\ \A i \in DOMAIN wait.reads : wait.reads[i].tab.document <= d
         /\ \A i \in DOMAIN wait.reads : wait.reads[i].tab.document <= tab.document
         /\ d <= tab.document /\ tracked.document <= d
    BY <1>2 DEF WaitInv, DocumentsGoOn
  \* What has been read is in order and showed what is waited for.
  <1>12. /\ \A i, j \in DOMAIN ReadsNow : i < j => ReadsNow[i].tab.document <= ReadsNow[j].tab.document
         /\ \A i \in DOMAIN ReadsNow : ReadsNow[i].tab.document \in Nat
         /\ \A i \in DOMAIN ReadsNow : ReadsNow[i].tab.document <= tab.document
    <2>1. \A i \in DOMAIN ReadsNow : ReadsNow[i].tab.document <= tab.document
      BY <1>9, <1>10, <1>11
    <2>2. \A i \in DOMAIN ReadsNow : ReadsNow[i].tab.document \in Nat BY <1>8, <1>9, <1>10
    <2>3. ASSUME NEW i \in DOMAIN ReadsNow, NEW j \in DOMAIN ReadsNow, i < j
          PROVE  ReadsNow[i].tab.document <= ReadsNow[j].tab.document
      <3>1. i \in DOMAIN wait.reads BY <1>8, <1>10, <2>3
      <3>2. CASE j \in DOMAIN wait.reads BY <1>10, <1>11, <2>3, <3>1, <3>2
      <3>3. CASE j = n BY <1>9, <1>10, <1>11, <3>1, <3>3
      <3> QED
        BY <1>10, <3>2, <3>3
    <2> QED
      BY <2>1, <2>2, <2>3
  <1>13. GoodRead /\ Reading => \A i \in DOMAIN ReadsNow : ~OfDocument(i) => Wanted(ReadsNow[i])
    <2> SUFFICES ASSUME GoodRead, Reading, NEW i \in DOMAIN ReadsNow, ~OfDocument(i)
                 PROVE  Wanted(ReadsNow[i])
      OBVIOUS
    <2>1. CASE i \in DOMAIN wait.reads BY <1>7, <1>10, <2>1 DEF WaitInv, WantedSoFar
    <2>2. CASE i = n
      <3>1. Wanted(Head(channel)) BY <2>2 DEF GoodRead, n
      <3> QED
        BY <1>9, <1>10, <2>2, <3>1 DEF Wanted
    <2> QED
      BY <1>10, <2>1, <2>2
  <1>14. GoodRead /\ Reading /\ n = Reads =>
           \A i, j \in DOMAIN ReadsNow : ReadsNow[i].tab.document = ReadsNow[j].tab.document
    <2> SUFFICES ASSUME GoodRead, Reading, n = Reads
                 PROVE  \A i \in DOMAIN ReadsNow : ReadsNow[i].tab.document = d
      OBVIOUS
    <2>0. CASE wait.since # 0
      <3>1. n = 1 BY <2>0 DEF Reads
      <3> QED
        BY <1>9, <1>10, <3>1
    <2> SUFFICES ASSUME wait.since = 0 PROVE \A i \in DOMAIN ReadsNow : ReadsNow[i].tab.document = d
      BY <2>0
    <2>1. n \in {3, 5} BY DEF Reads, Reading
    <2>2. n % 2 = 1 /\ n > 1 BY <2>1
    <2>3. Unchanged(wait.reads, Head(channel)) BY <2>2 DEF GoodRead, OfDocument, Reading, n
    <2>4. 1 \in DOMAIN wait.reads /\ Head(wait.reads) = wait.reads[1] BY <1>8, <1>10, <2>2
    <2>5. d = wait.reads[1].tab.document BY <2>3, <2>4 DEF Unchanged, d
    <2>6. ASSUME NEW i \in DOMAIN wait.reads PROVE wait.reads[i].tab.document = d
      <3>1. wait.reads[1].tab.document <= wait.reads[i].tab.document
        <4>1. CASE i = 1 BY <1>8, <2>6, <4>1
        <4>2. CASE i > 1 BY <1>11, <2>4, <2>6, <4>2
        <4> QED
          BY <1>8, <2>6, <4>1, <4>2
      <3> QED
        <4>1. wait.reads[i].tab.document <= d /\ d <= wait.reads[i].tab.document
          BY <1>11, <2>5, <2>6, <3>1
        <4> QED
          BY <1>8, <2>6, <4>1
    <2> QED
      BY <1>9, <1>10, <2>6
  <1>15. /\ tracked' = tracked \/ tracked' = Observed(d)
         /\ UNCHANGED <<observation, marking>> /\ channel' = rest
         /\ \/ wait' = GoesTo("pause")
            \/ GoodRead /\ n < Reads /\ wait' = HasRead(ReadsNow)
            \/ GoodRead /\ n = Reads /\ wait' = Turns("matched", ReadsNow)
    BY AnswerOutcomes DEF d, rest, n
  <1>16. /\ channel' = rest /\ AnswersIn(channel') = {} /\ DocumentsIn(channel') = {}
         /\ StartsIn(channel') = StartsIn(rest)
    BY <1>2, <1>6, <1>15
  <1>17. /\ tracked' \in [revision : 1 .. (2 * MaxMoves + 2), document : {0} \cup Documents]
         /\ tracked'.document <= tab.document
         /\ Marked(tab.document)' /\ (tracked.document # 0 => Marked(tracked.document))'
    BY <1>2, <1>3, <1>15, <1>16, ObservedOnce
  \* How far the wait is.
  <1>18. /\ wait' \in WaitType /\ wait'.kind = wait.kind
         /\ wait'.since = wait.since
         /\ \/ wait'.at = "pause" /\ wait'.reads = wait.reads
            \/ wait'.at = "asked" /\ wait'.reads = ReadsNow /\ GoodRead /\ n < Reads
            \/ wait'.at = "matched" /\ wait'.reads = ReadsNow /\ GoodRead /\ n = Reads
    <2>1. CASE wait' = GoesTo("pause")
      BY <1>10, <2>1, WaitFields DEF WaitPlaces
    <2>2. CASE GoodRead /\ n < Reads /\ wait' = HasRead(ReadsNow)
      BY <1>7, <1>10, <2>2, WaitFields DEF WaitPlaces
    <2>3. CASE GoodRead /\ n = Reads /\ wait' = Turns("matched", ReadsNow)
      BY <1>10, <2>3, WaitFields DEF WaitPlaces
    <2> QED
      BY <1>15, <2>1, <2>2, <2>3
  <1>19. WaitTyped'
    BY <1>2, <1>15, <1>16, <1>17, <1>18 DEF WaitTyped, WaitTypeOK, WaitPlaces, WaitType
  <1>20. ReadsFollow'
    <2>1. Reads' = Reads BY <1>18 DEF Reads
    <2> QED
      BY <1>16, <1>18, <2>1 DEF ReadsFollow, AtMostOneAnswer, n
  <1>21. DocumentsGoOn'
    <2>1. /\ \A i, j \in DOMAIN wait'.reads : i < j => wait'.reads[i].tab.document <= wait'.reads[j].tab.document
          /\ \A i \in DOMAIN wait'.reads : wait'.reads[i].tab.document <= tab.document
      BY <1>11, <1>12, <1>18
    <2>2. tab.document <= tab.document BY <1>8
    <2> QED
      BY <1>16, <1>17, <2>1, <2>2 DEF DocumentsGoOn
  <1>22. RevisionsCounted'
    <2>1. (marking + StartsIn(channel) <= moves)'
      BY <1>3, <1>15, <1>16 DEF WaitInv, RevisionsCounted
    <2>2. (\A e \in DocumentsIn(channel) \cup {tab.document} : Marked(e))'
      BY <1>16, <1>17 DEF Marked
    <2> QED
      BY <1>17, <2>1, <2>2 DEF RevisionsCounted
  <1>23. WantedSoFar'
    BY <1>13, <1>18 DEF WantedSoFar, OfDocument, Reading, Wanted
  <1>24. MatchedInOneDocument'
    BY <1>13, <1>14, <1>18 DEF MatchedInOneDocument, OfDocument, Reading, Wanted
  <1>25. FailureTold'
    <2> SUFFICES ASSUME ~Reading
                 PROVE  /\ observation.on
                        /\ tab.document \in failed =>
                             /\ FailureHeard' \/ FailsBefore(channel', tab.document)
                             /\ \A i \in DOMAIN wait'.reads :
                                  wait'.reads[i].tab.document = tab.document => FailureHeard'
      BY <1>15, <1>18 DEF FailureTold, Reading, Waiting
    <2>1. /\ observation.on
          /\ tab.document \in failed =>
               /\ FailureHeard \/ FailsBefore(channel, tab.document)
               /\ \A i \in DOMAIN wait.reads : wait.reads[i].tab.document = tab.document => FailureHeard
      BY <1>7 DEF WaitInv, FailureTold
    <2>2. FailureHeard => FailureHeard' BY <1>4, <1>15, <1>16 DEF FailureHeard
    <2>3. tab.document \in failed /\ d = tab.document => FailureHeard BY <1>5, <2>1
    <2>4. tab.document \in failed =>
            \A i \in DOMAIN ReadsNow : ReadsNow[i].tab.document = tab.document => FailureHeard
      BY <1>9, <1>10, <2>1, <2>3
    <2> QED
      BY <1>5, <1>16, <1>18, <2>1, <2>2, <2>4
  <1>26. FailuresAreShown' BY <1>18 DEF WaitInv, FailuresAreShown
  <1> QED
    BY <1>19, <1>20, <1>21, <1>22, <1>23, <1>24, <1>25, <1>26 DEF WaitInv

--------------------------------
\* The waits from start to end

LEMMA WaitInvInit == WaitInit => WaitInv
  <1> SUFFICES ASSUME WaitInit PROVE WaitInv
    OBVIOUS
  <1>1. PICK wanted \in BOOLEAN : tab = [document |-> 1, pending |-> FALSE, loading |-> FALSE,
                                         error |-> FALSE, wanted |-> wanted]
    BY DEF WaitInit
  <1>2. PICK kind \in WaitKinds : wait = [kind |-> kind, at |-> "idle", reads |-> <<>>, since |-> 0]
    BY DEF WaitInit
  <1>3. /\ moves = 0 /\ channel = <<>> /\ polls = 0 /\ result = NoResult /\ failed = {} /\ marking = 0
        /\ observation = NoObservation /\ tracked = [revision |-> 1, document |-> 1]
    BY DEF WaitInit
  <1>4. 1 \in Documents /\ 1 \in 1 .. (2 * MaxMoves + 2) /\ 0 \in 0 .. MaxMoves /\ 0 \in 0 .. MaxPolls
    BY WaitConstants DEF Documents
  <1>5. channel \in Seq(Told) /\ AnswersIn(channel) = {} /\ DocumentsIn(channel) = {}
    BY <1>3 DEF AnswersIn, DocumentsIn
  <1>6. StartsIn(channel) = 0
    <2>1. {i \in DOMAIN channel : channel[i] = Event("started")} = {} BY <1>3
    <2> QED
      BY <2>1, FS_EmptySet DEF StartsIn, CountOf
  <1>7. WaitTyped
    <2>1. /\ tab \in TabType /\ tab.document = 1 /\ ~tab.pending
      BY <1>1, <1>4 DEF TabType
    <2>2. wait \in WaitType /\ wait.kind \in WaitKinds /\ wait.at = "idle" BY <1>2 DEF WaitType, WaitPlaces
    <2>3. observation \in [on : BOOLEAN, loaded : BOOLEAN, error : BOOLEAN, url : BOOLEAN]
      BY <1>3 DEF NoObservation
    <2>4. tracked \in [revision : 1 .. (2 * MaxMoves + 2), document : {0} \cup Documents]
      BY <1>3, <1>4
    <2>5. result = [said |-> "none", saw |-> {}] BY <1>3 DEF NoResult
    <2> QED
      BY <1>3, <1>4, <1>5, <2>1, <2>2, <2>3, <2>4, <2>5 DEF WaitTyped, WaitTypeOK, TabType, WaitType
  <1>8. ReadsFollow BY <1>2, <1>5 DEF ReadsFollow, AtMostOneAnswer
  <1>9. DocumentsGoOn BY <1>1, <1>2, <1>3, <1>5 DEF DocumentsGoOn
  <1>10. RevisionsCounted BY <1>1, <1>3, <1>5, <1>6 DEF RevisionsCounted, Marked
  <1>11. WantedSoFar /\ MatchedInOneDocument BY <1>2 DEF WantedSoFar, MatchedInOneDocument
  <1>12. FailureTold /\ FailuresAreShown BY <1>2, <1>3 DEF FailureTold, FailuresAreShown, Waiting
  <1> QED
    BY <1>7, <1>8, <1>9, <1>10, <1>11, <1>12 DEF WaitInv

LEMMA WaitInvNext == WaitInv /\ [WaitNext]_waitVars => WaitInv'
  <1> SUFFICES ASSUME WaitInv, [WaitNext]_waitVars PROVE WaitInv'
    OBVIOUS
  <1>1. CASE NavigationStarts BY <1>1, NavigationStartsKeepsWaits
  <1>2. CASE NavigationCommits BY <1>2, NavigationCommitsKeepsWaits
  <1>3. CASE LoadCompletes BY <1>3, LoadCompletesKeepsWaits
  <1>4. CASE NavigationFails BY <1>4, NavigationFailsKeepsWaits
  <1>5. CASE PageChanges BY <1>5, PageChangesKeepsWaits
  <1>6. CASE MarkNavigation BY <1>6, MarkNavigationKeepsWaits
  <1>7. CASE StartWaiting BY <1>7, StartWaitingKeepsWaits
  <1>8. CASE BeginPoll BY <1>8, BeginPollKeepsWaits
  <1>13. CASE Answers BY <1>13, AnswersKeepsWaits
  <1>14. CASE PollThrows BY <1>14, PollThrowsKeepsWaits
  <1>9. CASE HearChannel
    <2>1. CASE Head(channel).what = "answer"
      BY <1>9, <2>1, HearAnswerKeepsWaits DEF HearChannel
    <2>2. CASE Head(channel).what # "answer"
      BY <1>9, <2>2, HearNavigationKeepsWaits DEF HearChannel
    <2> QED
      BY <2>1, <2>2
  <1>10. CASE ReturnMatch BY <1>10, ReturnMatchKeepsWaits
  <1>11. CASE Resume BY <1>11, ResumeKeepsWaits
  <1>12. CASE UNCHANGED waitVars
    BY <1>12 DEF waitVars, WaitInv, WaitTyped, WaitTypeOK, ReadsFollow, Reads, DocumentsGoOn,
                 RevisionsCounted, Marked, WantedSoFar, MatchedInOneDocument, OfDocument, FailureTold,
                 FailureHeard, FailuresAreShown, Reading, Waiting, Wanted
  <1> QED
    BY <1>1, <1>2, <1>3, <1>4, <1>5, <1>6, <1>7, <1>8, <1>9, <1>10, <1>11, <1>12,
       <1>13, <1>14 DEF WaitNext

\* Only ReturnMatch says that a wait matched, and not after it heard of a failure.
LEMMA NoFailureMatched ==
  ASSUME WaitInv, WaitNext, result.said = "none", result'.said = "matched",
         wait.kind \in FromEvents
  PROVE  tab.document \notin result'.saw \cap failed
  <1>1. result' # result OBVIOUS
  <1>2. ~(BeginPoll \/ Resume \/ PollThrows)
    BY <1>1 DEF BeginPoll, Resume, PollThrows, Ends
  <1>3. ~(NavigationStarts \/ NavigationCommits \/ LoadCompletes \/ NavigationFails \/ PageChanges
          \/ MarkNavigation \/ StartWaiting \/ Answers \/ HearChannel)
    BY <1>1 DEF NavigationStarts, NavigationCommits, LoadCompletes, NavigationFails, PageChanges,
                MarkNavigation, StartWaiting, Answers, HearChannel
  <1>4. ReturnMatch BY <1>2, <1>3 DEF WaitNext
  <1>5. /\ wait.at = "matched" /\ ~observation.error
        /\ result'.saw = {wait.reads[i].tab.document : i \in DOMAIN wait.reads}
    BY <1>1, <1>4 DEF ReturnMatch, Ends
  <1>6. ASSUME tab.document \in failed, tab.document \in result'.saw PROVE FALSE
    <2>1. PICK i \in DOMAIN wait.reads : wait.reads[i].tab.document = tab.document BY <1>5, <1>6
    <2>2. FailureHeard BY <1>5, <1>6, <2>1 DEF WaitInv, FailureTold, Reading, Waiting
    <2> QED
      BY <1>5, <2>2 DEF FailureHeard
  <1> QED
    BY <1>6

(* A text or selector wait that matches read one document at one revision, and a load or *)
(* URL wait never takes the error page of a load that failed meanwhile for its page,     *)
(* however the navigations, their events and the reads interleave (BrowserRuntime.wait). *)
THEOREM MatchesStayReal == WaitSpec => MatchesAreReal
  <1>1. WaitInit => WaitInv BY WaitInvInit
  <1>2. WaitInv /\ [WaitNext]_waitVars => WaitInv' BY WaitInvNext
  <1>3. WaitInv => WaitTypeOK /\ MatchedInOneDocument BY DEF WaitInv, WaitTyped
  <1>4. WaitInv /\ [WaitNext]_waitVars =>
          [result.said = "none" /\ result'.said = "matched" /\ wait.kind \in FromEvents =>
             tab.document \notin result'.saw \cap failed]_waitVars
    BY NoFailureMatched
  <1> QED
    BY <1>1, <1>2, <1>3, <1>4, PTL DEF WaitSpec, MatchesAreReal, NeverMatchesFailure

================================
