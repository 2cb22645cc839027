---- MODULE StagedCommitsProofs ----
(***************************************************************************)
(* Theorems about StagedCommits for any number of stages, keys and         *)
(* requests and any bounds: type correctness, why an approval is used once *)
(* and nothing is executed without one, why what a commit is answered is   *)
(* true, and why no used row is left behind.                               *)
(***************************************************************************)
EXTENDS StagedCommits, TLAPS

--------------------------------
(* Type correctness *)

Key == CommitKey \cup Token

ActState == {"idle", "sent", "returned", "binding", "bound", "done", "failed",
             "lost"}

CommandState == {"none", "queued", "checked", "refused", "executed", "denied",
                 "dropped"}

(* What an attempt knows by the time its thread reaches a phase. *)
AttemptsOK ==
    \A r \in Request :
        /\ req[r].phase # "idle" => req[r].key \in Key /\ req[r].token \in Token
        /\ req[r].phase \in {"found", "returned", "replied", "answered"}
              => req[r].answer \in Verdict
        /\ command[r] # "none" => req[r].phase # "idle"

(* The key of a browser_act is recorded before its stage exists, so that a *)
(* repeated act is answered from the journal and never consumes a stage.   *)
ActsOK ==
    /\ \A t \in Token : act[t] # "idle" => journal[t] # "absent"
    /\ \A r \in Request :
          /\ req[r].phase # "idle" /\ req[r].key \in Token
               => act[req[r].key] # "idle"
          /\ req[r].phase \in {"begun", "consumed", "sent", "returned", "replied"}
               => req[r].key \in CommitKey

TypeInv == TypeOK /\ AttemptsOK /\ ActsOK

(* The reply of the extension concludes one attempt and keeps the rest.    *)
LEMMA ReplyTyped ==
    ASSUME req \in [Request -> Attempt], NEW r \in Request, NEW v \in Verdict
    PROVE  LET next == [req EXCEPT ![r].phase = "returned", ![r].answer = v] IN
           /\ next \in [Request -> Attempt]
           /\ \A q \in Request : q # r => next[q] = req[q]
           /\ next[r].phase = "returned" /\ next[r].key = req[r].key
           /\ next[r].token = req[r].token /\ next[r].answer = v
  BY DEF Attempt

Phase == {"idle", "received", "found", "queued", "begun", "consumed", "sent",
          "returned", "replied", "answered", "lost"}

(* MoveTo and Conclude keep every thread well typed, and change one. *)
LEMMA MoveToTyped ==
    ASSUME req \in [Request -> Attempt], NEW r \in Request, NEW phase \in Phase,
           MoveTo(r, phase)
    PROVE  /\ req' \in [Request -> Attempt]
           /\ \A q \in Request : q # r => req'[q] = req[q]
           /\ req'[r].phase = phase /\ req'[r].key = req[r].key
           /\ req'[r].token = req[r].token /\ req'[r].answer = req[r].answer
  BY DEF MoveTo, Attempt, Phase

LEMMA ConcludeTyped ==
    ASSUME req \in [Request -> Attempt], NEW r \in Request, NEW phase \in Phase,
           NEW v \in Verdict, Conclude(r, phase, v)
    PROVE  /\ req' \in [Request -> Attempt]
           /\ \A q \in Request : q # r => req'[q] = req[q]
           /\ req'[r].phase = phase /\ req'[r].key = req[r].key
           /\ req'[r].token = req[r].token /\ req'[r].answer = v
<1> DEFINE one == [req EXCEPT ![r].phase = phase]
<1>1. /\ one \in [Request -> Attempt]
      /\ \A q \in Request : q # r => one[q] = req[q]
      /\ one[r].phase = phase /\ one[r].key = req[r].key
      /\ one[r].token = req[r].token
  BY DEF Attempt, Phase
<1>2. req' = [one EXCEPT ![r].answer = v]
  BY DEF Conclude
<1> HIDE DEF one
<1>3. QED  BY <1>1, <1>2 DEF Attempt

(* Approving a row, and using it, change nothing else in the table. *)
LEMMA ApprovedTyped ==
    ASSUME row \in [Token -> Row], NEW t \in Token,
           row' = [row EXCEPT ![t].approved = TRUE]
    PROVE  row' \in [Token -> Row]
  BY DEF Row

LEMMA UsedTyped ==
    ASSUME row \in [Token -> Row], NEW t \in Token, NEW k \in CommitKey
    PROVE  [row EXCEPT ![t].used = TRUE, ![t].key = k] \in [Token -> Row]
<1> DEFINE one == [row EXCEPT ![t].used = TRUE]
<1>1. one \in [Token -> Row]  BY DEF Row
<1>2. [row EXCEPT ![t].used = TRUE, ![t].key = k] = [one EXCEPT ![t].key = k]
  OBVIOUS
<1> HIDE DEF one
<1>3. [one EXCEPT ![t].key = k] \in [Token -> Row]  BY <1>1 DEF Row
<1>4. QED  BY <1>2, <1>3

(* Removing a row keeps its history. *)
LEMMA RemovedTyped ==
    ASSUME row \in [Token -> Row], NEW t \in Token
    PROVE  /\ Removed(t) \in [Token -> Row]
           /\ \A x \in Token : /\ Removed(t)[x].used = row[x].used
                               /\ Removed(t)[x].approved = row[x].approved
                               /\ Removed(t)[x].key = row[x].key
  BY DEF Removed, Row

(* Ending keys never takes a record away. *)
LEMMA TerminatedTyped ==
    ASSUME journal \in [Key -> {"absent", "started"} \cup Verdict], NEW keys
    PROVE  /\ Terminated(keys) \in [Key -> {"absent", "started"} \cup Verdict]
           /\ \A k \in Key : journal[k] # "absent" => Terminated(keys)[k] # "absent"
  BY DEF Terminated, Verdict, Key

(* What the extension posts is a message. *)
LEMMA MessageTyped ==
    /\ \A t \in Token : StagedReply(t) \in Message /\ ExpiredEvent(t) \in Message
    /\ \A r \in Request, v \in Verdict : Reply(r, v) \in Message
  BY DEF StagedReply, ExpiredEvent, Reply, Message

LEMMA ConcatTyped ==
    ASSUME inbox \in Seq(Message), NEW msgs \in Seq(Message)
    PROVE  inbox \o msgs \in Seq(Message)
  OBVIOUS

(* A stage that changes state stays a stage. *)
LEMMA StageTyped ==
    ASSUME stage \in [Token -> Stage], NEW t \in Token, NEW state,
           state \in {"none", "held", "bound", "approved", "gone"},
           SetStage(t, state)
    PROVE  stage' \in [Token -> Stage]
  BY DEF SetStage, Stage

(* Dropping every stage leaves stages. *)
LEMMA DiscardedTyped ==
    ASSUME stage \in [Token -> Stage]
    PROVE  Discarded(stage) \in [Token -> Stage]
  BY DEF Discarded, Stage

(* One lemma per action: it keeps TypeInv. *)
LEMMA TypeLookup ==
    ASSUME TypeInv, NEW r \in Request, Lookup(r)
    PROVE  TypeInv'
<1>1. req \in [Request -> Attempt] /\ journal \in [Key -> {"absent", "started"} \cup Verdict]
  BY DEF TypeInv, TypeOK, Key
<1>2. req[r].phase = "received" /\ req[r].key \in Key
  BY DEF Lookup, TypeInv, AttemptsOK
<1>3. req' \in [Request -> Attempt]
  BY <1>1, <1>2 DEF Lookup, MoveTo, Conclude, Attempt, Verdict, Recorded
<1>4. /\ \A q \in Request : q # r => req'[q] = req[q]
      /\ req'[r].key = req[r].key /\ req'[r].token = req[r].token
      /\ \/ req'[r].phase = "queued" /\ journal[req[r].key] = "absent"
         \/ req'[r].phase = "found" /\ req'[r].answer \in Verdict
  BY <1>1, <1>2 DEF Lookup, MoveTo, Conclude, Attempt, Verdict, Recorded
<1>5. UNCHANGED command
  BY DEF Lookup, extVars
<1>6. UNCHANGED <<act, journal>>
  BY DEF Lookup
<1>7. TypeOK'
  BY <1>3 DEF Lookup, TypeInv, TypeOK, hostVars, extVars
<1>8. AttemptsOK'
  BY <1>2, <1>4, <1>5 DEF TypeInv, AttemptsOK
<1>9. ActsOK'
  BY <1>2, <1>4, <1>5, <1>6 DEF TypeInv, ActsOK
<1>10. QED  BY <1>7, <1>8, <1>9 DEF TypeInv

LEMMA TypeTimeout ==
    ASSUME TypeInv, NEW r \in Request, Timeout(r)
    PROVE  TypeInv'
<1>1. req \in [Request -> Attempt]
  BY DEF TypeInv, TypeOK
<1>2. req[r].phase = "sent"
  BY DEF Timeout
<1>3. req' \in [Request -> Attempt]
  BY <1>1, MoveToTyped, ConcludeTyped DEF Timeout, Phase, Verdict
<1>4. /\ \A q \in Request : q # r => req'[q] = req[q]
      /\ req'[r].key = req[r].key /\ req'[r].token = req[r].token
      /\ req'[r].phase = "returned" /\ req'[r].answer \in Verdict
  BY <1>1, MoveToTyped, ConcludeTyped DEF Timeout, Phase, Verdict
<1>5. UNCHANGED command
  BY DEF Timeout, extVars
<1>6. UNCHANGED <<act, journal>>
  BY DEF Timeout
<1>7. TypeOK'
  BY <1>3 DEF Timeout, TypeInv, TypeOK, hostVars, extVars
<1>8. AttemptsOK'
  BY <1>2, <1>4, <1>5 DEF TypeInv, AttemptsOK
<1>9. ActsOK'
  BY <1>2, <1>4, <1>5, <1>6 DEF TypeInv, ActsOK
<1>10. QED  BY <1>7, <1>8, <1>9 DEF TypeInv

LEMMA TypeExtStages ==
    ASSUME TypeInv, NEW t \in Token, ExtStages(t)
    PROVE  TypeInv'
<1>1. /\ stage \in [Token -> Stage]
      /\ act \in [Token -> ActState]
      /\ journal \in [Key -> {"absent", "started"} \cup Verdict]
      /\ inbox \in Seq(Message) /\ linked \in BOOLEAN
      /\ now \in Nat /\ page \in Nat
  BY DEF TypeInv, TypeOK, Key, ActState
<1>2. stage' \in [Token -> Stage]
  BY <1>1, StagesAssumption DEF ExtStages, Stage
<1>3. inbox' \in Seq(Message)
  BY <1>1, MessageTyped DEF ExtStages, Post
<1>4. journal' \in [Key -> {"absent", "started"} \cup Verdict]
  BY <1>1 DEF ExtStages, Key
<1>5. \A x \in Token : /\ act[x] # "idle" => act'[x] # "idle"
                       /\ act'[x] # "idle" => act[x] # "idle" \/ journal'[x] # "absent"
  BY <1>1 DEF ExtStages, ActState, Key
<1>6. \A k \in Key : journal[k] # "absent" => journal'[k] # "absent"
  BY <1>1 DEF ExtStages, ActState, Key
<1>7. TypeOK'
  BY <1>2, <1>3, <1>4 DEF ExtStages, TypeInv, TypeOK, hostVars, extVars, Key
<1>8. AttemptsOK'
  BY DEF TypeInv, AttemptsOK, ExtStages, hostVars, extVars
<1>9. ActsOK'
  BY <1>5, <1>6 DEF TypeInv, ActsOK, ExtStages, hostVars, extVars, Key
<1>10. QED  BY <1>7, <1>8, <1>9 DEF TypeInv

LEMMA TypeStoreStage ==
    ASSUME TypeInv, NEW t \in Token, StoreStage(t)
    PROVE  TypeInv'
<1>1. /\ row \in [Token -> Row]
      /\ act \in [Token -> ActState]
      /\ journal \in [Key -> {"absent", "started"} \cup Verdict]
  BY DEF TypeInv, TypeOK, Key, ActState
<1>2. row' \in [Token -> Row]
  BY <1>1 DEF StoreStage, Row
<1>3. journal' \in [Key -> {"absent", "started"} \cup Verdict]
  BY <1>1 DEF StoreStage, Key, Verdict
<1>4. \A x \in Token : /\ act[x] # "idle" => act'[x] # "idle"
                       /\ act'[x] # "idle" => act[x] # "idle" \/ journal'[x] # "absent"
  BY <1>1 DEF StoreStage, ActState, Key
<1>5. \A k \in Key : journal[k] # "absent" => journal'[k] # "absent"
  BY <1>1 DEF StoreStage, ActState, Key
<1>6. TypeOK'
  BY <1>2, <1>3 DEF StoreStage, TypeInv, TypeOK, hostVars, extVars, Key
<1>7. AttemptsOK'
  BY DEF TypeInv, AttemptsOK, StoreStage, hostVars, extVars
<1>8. ActsOK'
  BY <1>4, <1>5 DEF TypeInv, ActsOK, StoreStage, hostVars, extVars, Key
<1>9. QED  BY <1>6, <1>7, <1>8 DEF TypeInv

LEMMA TypeExtBinds ==
    ASSUME TypeInv, NEW t \in Token, ExtBinds(t)
    PROVE  TypeInv'
<1>1. stage \in [Token -> Stage] /\ act \in [Token -> ActState]
  BY DEF TypeInv, TypeOK, ActState
<1>2. stage' \in [Token -> Stage]
  BY <1>1, StageTyped DEF ExtBinds
<1>3. \A x \in Token : /\ act[x] # "idle" => act'[x] # "idle"
                       /\ act'[x] # "idle" => act[x] # "idle" \/ journal'[x] # "absent"
  BY <1>1 DEF ExtBinds, ActState
<1>4. \A k \in Key : journal[k] # "absent" => journal'[k] # "absent"
  BY <1>1 DEF ExtBinds, ActState
<1>5. TypeOK'
  BY <1>2 DEF ExtBinds, TypeInv, TypeOK, hostVars, extVars
<1>6. AttemptsOK'
  BY DEF TypeInv, AttemptsOK, ExtBinds, hostVars, extVars
<1>7. ActsOK'
  BY <1>3, <1>4 DEF TypeInv, ActsOK, ExtBinds, hostVars, extVars, Key
<1>8. QED  BY <1>5, <1>6, <1>7 DEF TypeInv

LEMMA TypeActCompletes ==
    ASSUME TypeInv, NEW t \in Token, ActCompletes(t)
    PROVE  TypeInv'
<1>1. act \in [Token -> ActState] /\ journal \in [Key -> {"absent", "started"} \cup Verdict]
  BY DEF TypeInv, TypeOK, Key, ActState
<1>2. \A x \in Token : /\ act[x] # "idle" => act'[x] # "idle"
                       /\ act'[x] # "idle" => act[x] # "idle" \/ journal'[x] # "absent"
  BY <1>1 DEF ActCompletes, ActState, Key
<1>3. \A k \in Key : journal[k] # "absent" => journal'[k] # "absent"
  BY <1>1 DEF ActCompletes, ActState, Key
<1>4. TypeOK'
  BY DEF ActCompletes, TypeInv, TypeOK, hostVars, extVars, Verdict
<1>5. AttemptsOK'
  BY DEF TypeInv, AttemptsOK, ActCompletes, hostVars, extVars
<1>6. ActsOK'
  BY <1>2, <1>3 DEF TypeInv, ActsOK, ActCompletes, hostVars, extVars, Key
<1>7. QED  BY <1>4, <1>5, <1>6 DEF TypeInv

LEMMA TypeActFails ==
    ASSUME TypeInv, NEW t \in Token, ActFails(t)
    PROVE  TypeInv'
<1>1. /\ row \in [Token -> Row]
      /\ stage \in [Token -> Stage]
      /\ act \in [Token -> ActState]
      /\ journal \in [Key -> {"absent", "started"} \cup Verdict]
  BY DEF TypeInv, TypeOK, Key, ActState
<1>2. row' \in [Token -> Row]
  BY <1>1, RemovedTyped DEF ActFails
<1>3. stage' \in [Token -> Stage]
  BY <1>1, StageTyped DEF ActFails
<1>4. journal' \in [Key -> {"absent", "started"} \cup Verdict]
  BY <1>1 DEF ActFails, Key, Verdict
<1>5. \A x \in Token : /\ act[x] # "idle" => act'[x] # "idle"
                       /\ act'[x] # "idle" => act[x] # "idle" \/ journal'[x] # "absent"
  BY <1>1 DEF ActFails, ActState, Key
<1>6. \A k \in Key : journal[k] # "absent" => journal'[k] # "absent"
  BY <1>1 DEF ActFails, ActState, Key
<1>7. TypeOK'
  BY <1>2, <1>3, <1>4 DEF ActFails, TypeInv, TypeOK, hostVars, extVars, Key
<1>8. AttemptsOK'
  BY DEF TypeInv, AttemptsOK, ActFails, hostVars, extVars
<1>9. ActsOK'
  BY <1>5, <1>6 DEF TypeInv, ActsOK, ActFails, hostVars, extVars, Key
<1>10. QED  BY <1>7, <1>8, <1>9 DEF TypeInv

LEMMA TypeHumanDecides ==
    ASSUME TypeInv, NEW t \in Token, HumanDecides(t)
    PROVE  TypeInv'
<1>1. TypeOK'
  BY DEF HumanDecides, TypeInv, TypeOK, hostVars, extVars
<1>2. AttemptsOK'
  BY DEF TypeInv, AttemptsOK, HumanDecides, hostVars, extVars
<1>3. ActsOK'
  BY DEF TypeInv, ActsOK, HumanDecides, hostVars, extVars
<1>4. QED  BY <1>1, <1>2, <1>3 DEF TypeInv

LEMMA TypeHostApproves ==
    ASSUME TypeInv, NEW t \in Token, HostApproves(t)
    PROVE  TypeInv'
<1>1. row \in [Token -> Row]
  BY DEF TypeInv, TypeOK
<1>2. row' \in [Token -> Row]
  BY <1>1, RemovedTyped, ApprovedTyped DEF HostApproves
<1>3. TypeOK'
  BY <1>2 DEF HostApproves, TypeInv, TypeOK, hostVars, extVars
<1>4. AttemptsOK'
  BY DEF TypeInv, AttemptsOK, HostApproves, hostVars, extVars
<1>5. ActsOK'
  BY DEF TypeInv, ActsOK, HostApproves, hostVars, extVars
<1>6. QED  BY <1>3, <1>4, <1>5 DEF TypeInv

LEMMA TypeHostAbandons ==
    ASSUME TypeInv, NEW t \in Token, HostAbandons(t)
    PROVE  TypeInv'
<1>1. row \in [Token -> Row]
  BY DEF TypeInv, TypeOK
<1>2. row' \in [Token -> Row]
  BY <1>1, RemovedTyped DEF HostAbandons
<1>3. TypeOK'
  BY <1>2 DEF HostAbandons, TypeInv, TypeOK, hostVars, extVars
<1>4. AttemptsOK'
  BY DEF TypeInv, AttemptsOK, HostAbandons, hostVars, extVars
<1>5. ActsOK'
  BY DEF TypeInv, ActsOK, HostAbandons, hostVars, extVars
<1>6. QED  BY <1>3, <1>4, <1>5 DEF TypeInv

LEMMA TypePopupEnds ==
    ASSUME TypeInv, NEW t \in Token, PopupEnds(t)
    PROVE  TypeInv'
<1>1. stage \in [Token -> Stage]
  BY DEF TypeInv, TypeOK
<1>2. stage' \in [Token -> Stage]
  BY <1>1, StageTyped DEF PopupEnds
<1>3. TypeOK'
  BY <1>2 DEF PopupEnds, TypeInv, TypeOK, hostVars, extVars
<1>4. AttemptsOK'
  BY DEF TypeInv, AttemptsOK, PopupEnds, hostVars, extVars
<1>5. ActsOK'
  BY DEF TypeInv, ActsOK, PopupEnds, hostVars, extVars
<1>6. QED  BY <1>3, <1>4, <1>5 DEF TypeInv

LEMMA TypeExtExpires ==
    ASSUME TypeInv, NEW t \in Token, ExtExpires(t)
    PROVE  TypeInv'
<1>1. stage \in [Token -> Stage] /\ inbox \in Seq(Message) /\ linked \in BOOLEAN
  BY DEF TypeInv, TypeOK
<1>2. stage' \in [Token -> Stage]
  BY <1>1, StageTyped DEF ExtExpires
<1>3. inbox' \in Seq(Message)
  BY <1>1, MessageTyped DEF ExtExpires, Post
<1>4. TypeOK'
  BY <1>2, <1>3 DEF ExtExpires, TypeInv, TypeOK, hostVars, extVars
<1>5. AttemptsOK'
  BY DEF TypeInv, AttemptsOK, ExtExpires, hostVars, extVars
<1>6. ActsOK'
  BY DEF TypeInv, ActsOK, ExtExpires, hostVars, extVars
<1>7. QED  BY <1>4, <1>5, <1>6 DEF TypeInv

LEMMA TypeExtDrops ==
    ASSUME TypeInv, NEW t \in Token, ExtDrops(t)
    PROVE  TypeInv'
<1>1. stage \in [Token -> Stage]
  BY DEF TypeInv, TypeOK
<1>2. stage' \in [Token -> Stage]
  BY <1>1, StageTyped DEF ExtDrops
<1>3. TypeOK'
  BY <1>2 DEF ExtDrops, TypeInv, TypeOK, hostVars, extVars
<1>4. AttemptsOK'
  BY DEF TypeInv, AttemptsOK, ExtDrops, hostVars, extVars
<1>5. ActsOK'
  BY DEF TypeInv, ActsOK, ExtDrops, hostVars, extVars
<1>6. QED  BY <1>3, <1>4, <1>5 DEF TypeInv

LEMMA TypeResolve ==
    ASSUME TypeInv, NEW r \in Request, Resolve(r)
    PROVE  TypeInv'
<1>1. req \in [Request -> Attempt]
  BY DEF TypeInv, TypeOK
<1>2. journal \in [Key -> {"absent", "started"} \cup Verdict] /\ row \in [Token -> Row]
  BY DEF TypeInv, TypeOK, Key
<1>3. req[r].phase = "found" /\ req[r].answer \in Verdict /\ req[r].token \in Token
  BY DEF Resolve, TypeInv, AttemptsOK
<1>4. req' \in [Request -> Attempt]
  BY <1>1 DEF Resolve, MoveTo, Conclude, Attempt, Verdict
<1>5. journal' \in [Key -> {"absent", "started"} \cup Verdict]
  BY <1>2, TerminatedTyped DEF Resolve
<1>6. row' \in [Token -> Row]
  BY <1>2, <1>3, RemovedTyped DEF Resolve
<1>7. /\ \A q \in Request : q # r => req'[q] = req[q]
      /\ req'[r].key = req[r].key /\ req'[r].token = req[r].token
      /\ req'[r].phase = "answered" /\ req'[r].answer \in Verdict
  BY <1>1, <1>3 DEF Resolve, MoveTo, Conclude, Attempt, Verdict
<1>8. UNCHANGED command
  BY DEF Resolve, extVars
<1>9. UNCHANGED act
  BY DEF Resolve
<1>10. \A k \in Key : journal[k] # "absent" => journal'[k] # "absent"
  BY <1>2, TerminatedTyped DEF Resolve
<1>11. TypeOK'
  BY <1>4, <1>5, <1>6 DEF Resolve, TypeInv, TypeOK, hostVars, extVars, Key
<1>12. AttemptsOK'
  BY <1>3, <1>7, <1>8 DEF TypeInv, AttemptsOK
<1>13. ActsOK'
  BY <1>3, <1>7, <1>8, <1>9, <1>10 DEF TypeInv, ActsOK, Key
<1>14. QED  BY <1>11, <1>12, <1>13 DEF TypeInv

LEMMA TypeBegin ==
    ASSUME TypeInv, NEW r \in Request, Begin(r)
    PROVE  TypeInv'
<1>1. req \in [Request -> Attempt]
  BY DEF TypeInv, TypeOK
<1>2. journal \in [Key -> {"absent", "started"} \cup Verdict]
  BY DEF TypeInv, TypeOK, Key
<1>3. req[r].phase = "queued" /\ req[r].key \in Key /\ req[r].token \in Token
  BY DEF Begin, TypeInv, AttemptsOK
<1>4. req' \in [Request -> Attempt]
  BY <1>1, <1>2, <1>3 DEF Begin, MoveTo, Conclude, Attempt, Verdict, Recorded
<1>5. journal' \in [Key -> {"absent", "started"} \cup Verdict]
  BY <1>2 DEF Begin
<1>6. /\ \A q \in Request : q # r => req'[q] = req[q]
      /\ req'[r].key = req[r].key /\ req'[r].token = req[r].token
      /\ \/ req'[r].phase = "begun" /\ journal[req[r].key] = "absent"
         \/ req'[r].phase = "answered" /\ req'[r].answer \in Verdict
  BY <1>1, <1>2, <1>3 DEF Begin, MoveTo, Conclude, Attempt, Verdict, Recorded
<1>7. UNCHANGED command
  BY DEF Begin, extVars
<1>8. UNCHANGED act
  BY DEF Begin
<1>9. \A k \in Key : journal[k] # "absent" => journal'[k] # "absent"
  BY <1>2 DEF Begin
<1>10. TypeOK'
  BY <1>4, <1>5 DEF Begin, TypeInv, TypeOK, hostVars, extVars, Key
<1>11. AttemptsOK'
  BY <1>3, <1>6, <1>7 DEF TypeInv, AttemptsOK
<1>12. ActsOK'
  BY <1>3, <1>6, <1>7, <1>8, <1>9 DEF TypeInv, ActsOK, Key
<1>13. QED  BY <1>10, <1>11, <1>12 DEF TypeInv

LEMMA TypeConsume ==
    ASSUME TypeInv, NEW r \in Request, Consume(r)
    PROVE  TypeInv'
<1>1. req \in [Request -> Attempt]
  BY DEF TypeInv, TypeOK
<1>2. journal \in [Key -> {"absent", "started"} \cup Verdict] /\ row \in [Token -> Row]
  BY DEF TypeInv, TypeOK, Key
<1>3. req[r].phase = "begun" /\ req[r].key \in CommitKey /\ req[r].token \in Token
  BY DEF Consume, TypeInv, AttemptsOK, ActsOK
<1>4. req' \in [Request -> Attempt]
  BY <1>1, MoveToTyped, ConcludeTyped DEF Consume, Phase, Verdict
<1>5. journal' \in [Key -> {"absent", "started"} \cup Verdict]
  BY <1>2, TerminatedTyped DEF Consume
<1>6. \/ row' = row \/ row' = Removed(req[r].token)
      \/ row' = [row EXCEPT ![req[r].token].used = TRUE, ![req[r].token].key = req[r].key]
  BY DEF Consume
<1>7. [row EXCEPT ![req[r].token].used = TRUE, ![req[r].token].key = req[r].key] \in [Token -> Row]
  BY <1>2, <1>3, UsedTyped
<1>8. row' \in [Token -> Row]
  BY <1>2, <1>3, <1>6, <1>7, RemovedTyped
<1>9. /\ \A q \in Request : q # r => req'[q] = req[q]
      /\ req'[r].key = req[r].key /\ req'[r].token = req[r].token
      /\ \/ req'[r].phase = "consumed"
         \/ req'[r].phase = "replied" /\ req'[r].answer \in Verdict
  BY <1>1, MoveToTyped, ConcludeTyped DEF Consume, Phase, Verdict
<1>10. UNCHANGED command
  BY DEF Consume, extVars
<1>11. UNCHANGED act
  BY DEF Consume
<1>12. \A k \in Key : journal[k] # "absent" => journal'[k] # "absent"
  BY <1>2, TerminatedTyped DEF Consume
<1>13. TypeOK'
  BY <1>4, <1>5, <1>6, <1>7, <1>8 DEF Consume, TypeInv, TypeOK, hostVars, extVars, Key
<1>14. AttemptsOK'
  BY <1>3, <1>9, <1>10 DEF TypeInv, AttemptsOK
<1>15. ActsOK'
  BY <1>3, <1>9, <1>10, <1>11, <1>12 DEF TypeInv, ActsOK, Key
<1>16. QED  BY <1>13, <1>14, <1>15 DEF TypeInv

LEMMA TypeOriginRefuses ==
    ASSUME TypeInv, NEW r \in Request, OriginRefuses(r)
    PROVE  TypeInv'
<1>1. req \in [Request -> Attempt]
  BY DEF TypeInv, TypeOK
<1>2. row \in [Token -> Row]
  BY DEF TypeInv, TypeOK
<1>3. req[r].phase = "consumed" /\ req[r].token \in Token
  BY DEF OriginRefuses, TypeInv, AttemptsOK
<1>4. req' \in [Request -> Attempt]
  BY <1>1, MoveToTyped, ConcludeTyped DEF OriginRefuses, Phase, Verdict
<1>5. row' \in [Token -> Row]
  BY <1>2, <1>3, RemovedTyped DEF OriginRefuses
<1>6. /\ \A q \in Request : q # r => req'[q] = req[q]
      /\ req'[r].key = req[r].key /\ req'[r].token = req[r].token
      /\ req'[r].phase = "replied" /\ req'[r].answer \in Verdict
  BY <1>1, MoveToTyped, ConcludeTyped DEF OriginRefuses, Phase, Verdict
<1>7. UNCHANGED command
  BY DEF OriginRefuses, extVars
<1>8. UNCHANGED <<act, journal>>
  BY DEF OriginRefuses
<1>9. TypeOK'
  BY <1>4, <1>5 DEF OriginRefuses, TypeInv, TypeOK, hostVars, extVars
<1>10. AttemptsOK'
  BY <1>3, <1>6, <1>7 DEF TypeInv, AttemptsOK
<1>11. ActsOK'
  BY <1>3, <1>6, <1>7, <1>8 DEF TypeInv, ActsOK
<1>12. QED  BY <1>9, <1>10, <1>11 DEF TypeInv

LEMMA TypeSend ==
    ASSUME TypeInv, NEW r \in Request, Send(r)
    PROVE  TypeInv'
<1>1. req \in [Request -> Attempt]
  BY DEF TypeInv, TypeOK
<1>2. command \in [Request -> CommandState]
  BY DEF TypeInv, TypeOK, CommandState
<1>3. req[r].phase = "consumed"
  BY DEF Send
<1>4. req' \in [Request -> Attempt]
  BY <1>1, MoveToTyped, ConcludeTyped DEF Send, Phase, Verdict
<1>5. /\ \A q \in Request : q # r => req'[q] = req[q]
      /\ req'[r].key = req[r].key /\ req'[r].token = req[r].token
      /\ \/ req'[r].phase = "sent"
         \/ req'[r].phase = "returned" /\ req'[r].answer \in Verdict
  BY <1>1, MoveToTyped, ConcludeTyped DEF Send, Phase, Verdict
<1>6. \A q \in Request : q # r => command'[q] = command[q]
  BY <1>2 DEF Send
<1>7. UNCHANGED <<act, journal>>
  BY DEF Send
<1>8. TypeOK'
  BY <1>4 DEF Send, TypeInv, TypeOK, hostVars, extVars, CommandState
<1>9. AttemptsOK'
  BY <1>3, <1>5, <1>6 DEF TypeInv, AttemptsOK
<1>10. ActsOK'
  BY <1>3, <1>5, <1>6, <1>7 DEF TypeInv, ActsOK
<1>11. QED  BY <1>8, <1>9, <1>10 DEF TypeInv

LEMMA TypeExtChecks ==
    ASSUME TypeInv, NEW r \in Request, ExtChecks(r)
    PROVE  TypeInv'
<1>1. command \in [Request -> CommandState]
  BY DEF TypeInv, TypeOK, CommandState
<1>2. TypeOK'
  BY DEF ExtChecks, TypeInv, TypeOK, hostVars, extVars
<1>3. AttemptsOK'
  BY <1>1 DEF TypeInv, AttemptsOK, ExtChecks, hostVars, extVars
<1>4. ActsOK'
  BY <1>1 DEF TypeInv, ActsOK, ExtChecks, hostVars, extVars
<1>5. QED  BY <1>2, <1>3, <1>4 DEF TypeInv

LEMMA TypeExtRefuses ==
    ASSUME TypeInv, NEW r \in Request, ExtRefuses(r)
    PROVE  TypeInv'
<1>1. command \in [Request -> CommandState]
  BY DEF TypeInv, TypeOK, CommandState
<1>2. stage \in [Token -> Stage] /\ inbox \in Seq(Message) /\ linked \in BOOLEAN
  BY DEF TypeInv, TypeOK
<1>3. req[r].token \in Token
  BY DEF ExtRefuses, TypeInv, AttemptsOK
<1>4. stage' \in [Token -> Stage]
  BY <1>2, <1>3, StageTyped DEF ExtRefuses
<1>5. inbox' \in {inbox, inbox \o <<Reply(r, "not_started")>>,
               inbox \o <<ExpiredEvent(req[r].token), Reply(r, "not_started")>>}
  BY DEF ExtRefuses, Post
<1>6. "not_started" \in Verdict
  BY DEF Verdict
<1>7. inbox' \in Seq(Message)
  <2>1. Reply(r, "not_started") \in Message /\ ExpiredEvent(req[r].token) \in Message
    BY <1>3, <1>6, MessageTyped
  <2>2. <<Reply(r, "not_started")>> \in Seq(Message)
    BY <2>1
  <2>3. <<ExpiredEvent(req[r].token), Reply(r, "not_started")>> \in Seq(Message)
    BY <2>1
  <2>4. QED  BY <1>2, <1>5, <2>2, <2>3, ConcatTyped
<1>8. TypeOK'
  BY <1>4, <1>7 DEF ExtRefuses, TypeInv, TypeOK, hostVars, extVars
<1>9. AttemptsOK'
  BY <1>1, <1>2 DEF TypeInv, AttemptsOK, ExtRefuses, hostVars, extVars
<1>10. ActsOK'
  BY <1>1, <1>2 DEF TypeInv, ActsOK, ExtRefuses, hostVars, extVars
<1>11. QED  BY <1>8, <1>9, <1>10 DEF TypeInv

LEMMA TypeExtPerforms ==
    ASSUME TypeInv, NEW r \in Request, ExtPerforms(r)
    PROVE  TypeInv'
<1>1. command \in [Request -> CommandState]
  BY DEF TypeInv, TypeOK, CommandState
<1>2. stage \in [Token -> Stage] /\ inbox \in Seq(Message) /\ linked \in BOOLEAN
  BY DEF TypeInv, TypeOK
<1>3. stage' \in [Token -> Stage]
  BY <1>2 DEF ExtPerforms, SetStage, Stage
<1>4. \E v \in Verdict : inbox' \in {inbox, inbox \o <<Reply(r, v)>>}
  BY DEF ExtPerforms, Post, Verdict
<1>5. inbox' \in Seq(Message)
  BY <1>2, <1>4, MessageTyped
<1>6. TypeOK'
  BY <1>3, <1>4, <1>5 DEF ExtPerforms, TypeInv, TypeOK, hostVars, extVars
<1>7. AttemptsOK'
  BY <1>1, <1>2 DEF TypeInv, AttemptsOK, ExtPerforms, hostVars, extVars
<1>8. ActsOK'
  BY <1>1, <1>2 DEF TypeInv, ActsOK, ExtPerforms, hostVars, extVars
<1>9. QED  BY <1>6, <1>7, <1>8 DEF TypeInv

LEMMA TypeFinish ==
    ASSUME TypeInv, NEW r \in Request, Finish(r)
    PROVE  TypeInv'
<1>1. req \in [Request -> Attempt]
  BY DEF TypeInv, TypeOK
<1>2. row \in [Token -> Row]
  BY DEF TypeInv, TypeOK
<1>3. req[r].phase = "returned" /\ req[r].answer \in Verdict /\ req[r].token \in Token
  BY DEF Finish, TypeInv, AttemptsOK
<1>4. req' \in [Request -> Attempt]
  BY <1>1, MoveToTyped, ConcludeTyped DEF Finish, Phase, Verdict
<1>5. row' \in [Token -> Row]
  BY <1>2, <1>3, RemovedTyped DEF Finish
<1>6. /\ \A q \in Request : q # r => req'[q] = req[q]
      /\ req'[r].key = req[r].key /\ req'[r].token = req[r].token
      /\ req'[r].phase = "replied" /\ req'[r].answer \in Verdict
  BY <1>1, <1>3, MoveToTyped, ConcludeTyped DEF Finish, Phase, Verdict
<1>7. UNCHANGED command
  BY DEF Finish, extVars
<1>8. UNCHANGED <<act, journal>>
  BY DEF Finish
<1>9. TypeOK'
  BY <1>4, <1>5 DEF Finish, TypeInv, TypeOK, hostVars, extVars
<1>10. AttemptsOK'
  BY <1>3, <1>6, <1>7 DEF TypeInv, AttemptsOK
<1>11. ActsOK'
  BY <1>3, <1>6, <1>7, <1>8 DEF TypeInv, ActsOK
<1>12. QED  BY <1>9, <1>10, <1>11 DEF TypeInv

LEMMA TypeComplete ==
    ASSUME TypeInv, NEW r \in Request, Complete(r)
    PROVE  TypeInv'
<1>1. req \in [Request -> Attempt]
  BY DEF TypeInv, TypeOK
<1>2. journal \in [Key -> {"absent", "started"} \cup Verdict]
  BY DEF TypeInv, TypeOK, Key
<1>3. req[r].phase = "replied" /\ req[r].answer \in Verdict /\ req[r].key \in CommitKey
  BY DEF Complete, TypeInv, AttemptsOK, ActsOK
<1>4. req' \in [Request -> Attempt]
  BY <1>1, <1>3, MoveToTyped, ConcludeTyped DEF Complete, Phase, Verdict
<1>5. journal' \in [Key -> {"absent", "started"} \cup Verdict]
  BY <1>2, <1>3 DEF Complete, Verdict
<1>6. /\ \A q \in Request : q # r => req'[q] = req[q]
      /\ req'[r].key = req[r].key /\ req'[r].token = req[r].token
      /\ req'[r].phase = "answered" /\ req'[r].answer \in Verdict
  BY <1>1, <1>3, MoveToTyped, ConcludeTyped DEF Complete, Phase, Verdict
<1>7. UNCHANGED command
  BY DEF Complete, extVars
<1>8. UNCHANGED act
  BY DEF Complete
<1>9. \A k \in Key : journal[k] # "absent" => journal'[k] # "absent"
  BY <1>2, <1>3 DEF Complete, Verdict
<1>10. TypeOK'
  BY <1>4, <1>5 DEF Complete, TypeInv, TypeOK, hostVars, extVars, Key
<1>11. AttemptsOK'
  BY <1>3, <1>6, <1>7 DEF TypeInv, AttemptsOK
<1>12. ActsOK'
  BY <1>3, <1>6, <1>7, <1>8, <1>9 DEF TypeInv, ActsOK, Key
<1>13. QED  BY <1>10, <1>11, <1>12 DEF TypeInv

LEMMA TypeNavigate ==
    ASSUME TypeInv, Navigate
    PROVE  TypeInv'
<1>1. TypeOK'
  BY StagesAssumption DEF Navigate, TypeInv, TypeOK, hostVars, extVars
<1>2. AttemptsOK'
  BY DEF TypeInv, AttemptsOK, Navigate, hostVars, extVars
<1>3. ActsOK'
  BY DEF TypeInv, ActsOK, Navigate, hostVars, extVars
<1>4. QED  BY <1>1, <1>2, <1>3 DEF TypeInv

LEMMA TypeHostLearns ==
    ASSUME TypeInv, HostLearns
    PROVE  TypeInv'
<1>1. TypeOK'
  BY DEF HostLearns, TypeInv, TypeOK, hostVars, extVars
<1>2. AttemptsOK'
  BY DEF TypeInv, AttemptsOK, HostLearns, hostVars, extVars
<1>3. ActsOK'
  BY DEF TypeInv, ActsOK, HostLearns, hostVars, extVars
<1>4. QED  BY <1>1, <1>2, <1>3 DEF TypeInv

LEMMA TypeTick ==
    ASSUME TypeInv, Tick
    PROVE  TypeInv'
<1>1. TypeOK'
  BY StagesAssumption DEF Tick, TypeInv, TypeOK, hostVars, extVars
<1>2. AttemptsOK'
  BY DEF TypeInv, AttemptsOK, Tick, hostVars, extVars
<1>3. ActsOK'
  BY DEF TypeInv, ActsOK, Tick, hostVars, extVars
<1>4. QED  BY <1>1, <1>2, <1>3 DEF TypeInv

LEMMA TypeReceive ==
    ASSUME TypeInv, Receive
    PROVE  TypeInv'
<1>1. inbox \in Seq(Message) /\ linked \in BOOLEAN
  BY DEF TypeInv, TypeOK
<1>2. req \in [Request -> Attempt]
  BY DEF TypeInv, TypeOK
<1>3. journal \in [Key -> {"absent", "started"} \cup Verdict] /\ row \in [Token -> Row]
  BY DEF TypeInv, TypeOK, Key
<1>4. act \in [Token -> ActState]
  BY DEF TypeInv, TypeOK, ActState
<1>5. Head(inbox) \in Message /\ Tail(inbox) \in Seq(Message)
  BY <1>1 DEF Receive
<1>6. inbox' \in Seq(Message)
  BY <1>5 DEF Receive
<1>7. Head(inbox).kind = "reply" => Head(inbox).of \in Request /\ Head(inbox).verdict \in Verdict
  BY <1>5 DEF Message
<1>8. Head(inbox).kind # "reply" => Head(inbox).of \in Token
  BY <1>5 DEF Message
<1>9. \/ req' = req
      \/ \E q \in Request, v \in Verdict :
            /\ req[q].phase = "sent"
            /\ req' = [req EXCEPT ![q].phase = "returned", ![q].answer = v]
  BY <1>7 DEF Receive
<1>10. req' \in [Request -> Attempt]
  <2>1. CASE req' = req
    BY <1>2, <2>1
  <2>2. ASSUME NEW q \in Request, NEW v \in Verdict, req[q].phase = "sent",
               req' = [req EXCEPT ![q].phase = "returned", ![q].answer = v]
        PROVE  req' \in [Request -> Attempt]
    BY <1>2, <2>2, ReplyTyped
  <2>3. QED  BY <1>9, <2>1, <2>2
<1>11. journal' \in [Key -> {"absent", "started"} \cup Verdict]
  BY <1>3, TerminatedTyped DEF Receive
<1>12. row' \in [Token -> Row]
  BY <1>3, <1>8, RemovedTyped DEF Receive
<1>13. \A q \in Request :
        \/ req'[q] = req[q]
        \/ /\ req'[q].key = req[q].key /\ req'[q].token = req[q].token
           /\ req[q].phase = "sent" /\ req'[q].phase = "returned" /\ req'[q].answer \in Verdict
  <2>1. CASE req' = req
    BY <1>2, <2>1
  <2>2. ASSUME NEW q \in Request, NEW v \in Verdict, req[q].phase = "sent",
               req' = [req EXCEPT ![q].phase = "returned", ![q].answer = v]
        PROVE  \A x \in Request :
                  \/ req'[x] = req[x]
                  \/ /\ req'[x].key = req[x].key /\ req'[x].token = req[x].token
                     /\ req[x].phase = "sent" /\ req'[x].phase = "returned"
                     /\ req'[x].answer \in Verdict
    BY <1>2, <2>2 DEF Attempt
  <2>3. QED  BY <1>9, <2>1, <2>2
<1>14. UNCHANGED command
  BY DEF Receive, extVars
<1>15. \A x \in Token : act'[x] # "idle" <=> act[x] # "idle"
  BY <1>4, <1>8 DEF Receive, ActState
<1>16. \A k \in Key : journal[k] # "absent" => journal'[k] # "absent"
  BY <1>3, TerminatedTyped DEF Receive
<1>17. TypeOK'
  BY <1>5, <1>6, <1>7, <1>8, <1>9, <1>10, <1>11, <1>12 DEF Receive, TypeInv, TypeOK, hostVars, extVars, Key
<1>18. AttemptsOK'
  BY <1>13, <1>14 DEF TypeInv, AttemptsOK
<1>19. ActsOK'
  BY <1>13, <1>14, <1>15, <1>16 DEF TypeInv, ActsOK, Key
<1>20. QED  BY <1>17, <1>18, <1>19 DEF TypeInv

LEMMA TypePortLost ==
    ASSUME TypeInv, PortLost
    PROVE  TypeInv'
<1>1. command \in [Request -> CommandState]
  BY DEF TypeInv, TypeOK, CommandState
<1>2. stage \in [Token -> Stage]
  BY DEF TypeInv, TypeOK
<1>3. row \in [Token -> Row]
  BY DEF TypeInv, TypeOK
<1>4. command' \in [Request -> CommandState]
  BY <1>1 DEF PortLost, CommandState
<1>5. \A q \in Request : command'[q] # "none" => command[q] # "none"
  BY <1>1 DEF PortLost
<1>6. stage' \in [Token -> Stage]
  BY <1>2, DiscardedTyped DEF PortLost
<1>7. row' \in [Token -> Row]
  BY <1>3 DEF PortLost, Row
<1>8. inbox' \in Seq(Message)
  BY DEF PortLost
<1>9. losses' \in 0..MaxLosses
  BY StagesAssumption DEF PortLost, TypeInv, TypeOK
<1>10. TypeOK'
  BY <1>4, <1>5, <1>6, <1>7, <1>8, <1>9 DEF PortLost, TypeInv, TypeOK, hostVars, extVars, CommandState
<1>11. AttemptsOK'
  BY <1>1, <1>2, <1>3 DEF TypeInv, AttemptsOK, PortLost, hostVars, extVars
<1>12. ActsOK'
  BY <1>1, <1>2, <1>3 DEF TypeInv, ActsOK, PortLost, hostVars, extVars
<1>13. QED  BY <1>10, <1>11, <1>12 DEF TypeInv

LEMMA TypeReconnect ==
    ASSUME TypeInv, Reconnect
    PROVE  TypeInv'
<1>1. req \in [Request -> Attempt]
  BY DEF TypeInv, TypeOK
<1>2. journal \in [Key -> {"absent", "started"} \cup Verdict] /\ row \in [Token -> Row]
  BY DEF TypeInv, TypeOK, Key
<1>3. act \in [Token -> ActState]
  BY DEF TypeInv, TypeOK, ActState
<1>4. stage \in [Token -> Stage]
  BY DEF TypeInv, TypeOK
<1>5. req' \in [Request -> Attempt]
  <2>1. \A r \in Request : [req[r] EXCEPT !.phase = "lost"] \in Attempt
    BY <1>1 DEF Attempt
  <2>2. QED  BY <1>1, <2>1 DEF Reconnect
<1>6. journal' \in [Key -> {"absent", "started"} \cup Verdict]
  BY <1>2, TerminatedTyped DEF Reconnect
<1>7. row' \in [Token -> Row]
  BY <1>2 DEF Reconnect, Row
<1>8. stage' \in [Token -> Stage]
  BY <1>4, DiscardedTyped DEF Reconnect
<1>9. \A q \in Request :
        \/ req'[q] = req[q]
        \/ /\ req'[q].key = req[q].key /\ req'[q].token = req[q].token
           /\ req[q].phase # "idle" /\ req'[q].phase = "lost"
  BY <1>1 DEF Reconnect, Attempt
<1>10. UNCHANGED command
  BY DEF Reconnect, extVars
<1>11. \A x \in Token : act'[x] # "idle" <=> act[x] # "idle"
  BY <1>3 DEF Reconnect, ActState
<1>12. \A k \in Key : journal[k] # "absent" => journal'[k] # "absent"
  BY <1>2, TerminatedTyped DEF Reconnect
<1>13. TypeOK'
  BY <1>5, <1>6, <1>7, <1>8 DEF Reconnect, TypeInv, TypeOK, hostVars, extVars, Key
<1>14. AttemptsOK'
  BY <1>9, <1>10 DEF TypeInv, AttemptsOK
<1>15. ActsOK'
  BY <1>9, <1>10, <1>11, <1>12 DEF TypeInv, ActsOK, Key
<1>16. QED  BY <1>13, <1>14, <1>15 DEF TypeInv

LEMMA TypeSubmit ==
    ASSUME TypeInv, NEW r \in Request, NEW t \in Token,
           NEW k \in CommitKey \cup {t}, Submit(r, t, k)
    PROVE  TypeInv'
<1>1. req \in [Request -> Attempt]
  BY DEF TypeInv, TypeOK
<1>2. k \in Key /\ req[r].phase = "idle" /\ (k \in Token => act[k] # "idle")
  BY StagesAssumption DEF Submit, Key
<1>3. req' \in [Request -> Attempt]
  BY <1>1, <1>2 DEF Submit, Attempt, Key
<1>4. /\ \A q \in Request : q # r => req'[q] = req[q]
      /\ req'[r].key = k /\ req'[r].token = t /\ req'[r].phase = "received"
  BY <1>1 DEF Submit
<1>5. UNCHANGED command
  BY DEF Submit, extVars
<1>6. UNCHANGED <<act, journal>>
  BY DEF Submit
<1>7. TypeOK'
  BY <1>3 DEF Submit, TypeInv, TypeOK, hostVars, extVars
<1>8. AttemptsOK'
  BY <1>2, <1>4, <1>5 DEF TypeInv, AttemptsOK
<1>9. ActsOK'
  BY <1>2, <1>4, <1>5, <1>6 DEF TypeInv, ActsOK
<1>10. QED  BY <1>7, <1>8, <1>9 DEF TypeInv

(* The first state has nothing recorded and every thread idle. *)
LEMMA TypeInit == Init => TypeInv
<1> SUFFICES ASSUME Init PROVE TypeInv
  OBVIOUS
<1>1. inbox \in Seq(Message)
  BY DEF Init
<1>2. stage \in [Token -> Stage] /\ row \in [Token -> Row]
  BY DEF Init, Stage, Row
<1>3. req \in [Request -> Attempt]
  BY DEF Init, Attempt
<1>4. now \in 0..MaxClock /\ page \in 0..MaxRevision
      /\ known \in 0..MaxRevision \cup {None} /\ losses \in 0..MaxLosses
  BY StagesAssumption DEF Init
<1>5. journal \in [CommitKey \cup Token -> {"absent", "started"} \cup Verdict]
      /\ linked \in BOOLEAN /\ human \subseteq Token
  BY DEF Init
<1>6. TypeOK
  BY <1>1, <1>2, <1>3, <1>4, <1>5 DEF Init, TypeOK
<1>7. AttemptsOK /\ ActsOK
  BY DEF Init, AttemptsOK, ActsOK
<1>8. QED  BY <1>6, <1>7 DEF TypeInv

(* Every step keeps the state well typed. *)
LEMMA TypeStep ==
    ASSUME TypeInv, [Next]_vars
    PROVE  TypeInv'
<1>1. CASE UNCHANGED vars
  <2>1. TypeOK'      BY <1>1 DEF TypeInv, TypeOK, vars
  <2>2. AttemptsOK'  BY <1>1 DEF TypeInv, AttemptsOK, vars
  <2>3. ActsOK'      BY <1>1 DEF TypeInv, ActsOK, vars
  <2>4. QED  BY <2>1, <2>2, <2>3 DEF TypeInv
<1>2. ASSUME NEW t \in Token,
             \/ ExtStages(t) \/ StoreStage(t) \/ ExtBinds(t) \/ ActCompletes(t)
             \/ ActFails(t) \/ HumanDecides(t) \/ HostApproves(t)
             \/ HostAbandons(t) \/ PopupEnds(t) \/ ExtExpires(t)
             \/ ExtDrops(t)
      PROVE  TypeInv'
  BY <1>2, TypeExtStages, TypeStoreStage, TypeExtBinds, TypeActCompletes,
     TypeActFails, TypeHumanDecides, TypeHostApproves, TypeHostAbandons,
     TypePopupEnds, TypeExtExpires, TypeExtDrops
<1>3. ASSUME NEW r \in Request,
             \/ Lookup(r) \/ Resolve(r) \/ Begin(r) \/ Consume(r)
             \/ OriginRefuses(r) \/ Send(r) \/ ExtChecks(r) \/ ExtRefuses(r)
             \/ ExtPerforms(r) \/ Timeout(r) \/ Finish(r) \/ Complete(r)
      PROVE  TypeInv'
  BY <1>3, TypeLookup, TypeResolve, TypeBegin, TypeConsume, TypeOriginRefuses,
     TypeSend, TypeExtChecks, TypeExtRefuses, TypeExtPerforms, TypeTimeout,
     TypeFinish, TypeComplete
<1>4. ASSUME NEW r \in Request, NEW t \in Token,
             NEW k \in CommitKey \cup {t}, Submit(r, t, k)
      PROVE  TypeInv'
  BY <1>4, TypeSubmit
<1>5. CASE Receive \/ Navigate \/ HostLearns \/ PortLost \/ Reconnect \/ Tick
  BY <1>5, TypeReceive, TypeNavigate, TypeHostLearns, TypePortLost,
     TypeReconnect, TypeTick
<1>6. QED  BY <1>1, <1>2, <1>3, <1>4, <1>5 DEF Next

(* Every reachable state of the review path is well typed: each thread has *)
(* the key, stage and answer that the step it is at reads.                 *)
THEOREM StagesTypeCorrect == Spec => []TypeOK
<1>1. Init => TypeInv  BY TypeInit
<1>2. TypeInv /\ [Next]_vars => TypeInv'  BY TypeStep
<1>3. TypeInv => TypeOK  BY DEF TypeInv
<1>4. QED  BY <1>1, <1>2, <1>3, PTL DEF Spec

--------------------------------
(* One use, and none without an approval *)

(* The attempts an approval was used for: they consumed the row and may    *)
(* send the command, or have sent it.                                      *)
Took(r) == req[r].phase = "consumed" \/ command[r] # "none"

Early == {"idle", "received", "found", "queued", "begun"}

ApprovedByHuman ==
    \A t \in Token : row[t].approved \/ popup[t] = "approving" => t \in human

(* The row is never un-used, so it remembers what was taken. *)
TakenIsUsed ==
    /\ \A t \in Token : row[t].used => row[t].approved
    /\ \A r \in Request : Took(r) => row[req[r].token].used

TakenOnce ==
    \A r, q \in Request :
        Took(r) /\ Took(q) /\ req[r].token = req[q].token => r = q

EarlyTookNothing ==
    \A r \in Request : req[r].phase \in Early => command[r] = "none"

UseInv == ApprovedByHuman /\ TakenIsUsed /\ TakenOnce /\ EarlyTookNothing

(* What almost every step does to approvals: nothing. *)
RowsKept ==
    \A t \in Token : row'[t].used = row[t].used /\ row'[t].approved = row[t].approved

PopupsKept ==
    /\ human' = human
    /\ \A t \in Token : popup'[t] = "approving" => popup[t] = "approving"

TakesKept ==
    \A r \in Request :
        /\ Took(r)' => Took(r) /\ req'[r].token = req[r].token
        /\ req'[r].phase \in Early
              => req[r].phase \in Early /\ command'[r] = command[r]

(* A step that takes no approval and gives none back keeps UseInv. *)
LEMMA KeptStep ==
    ASSUME TypeInv, UseInv, RowsKept, PopupsKept, TakesKept
    PROVE  UseInv'
<1>1. \A r \in Request : Took(r) => req[r].token \in Token
  BY DEF TypeInv, AttemptsOK, Took
<1>2. ApprovedByHuman'
  BY DEF UseInv, ApprovedByHuman, RowsKept, PopupsKept
<1>3. TakenIsUsed'
  BY <1>1 DEF UseInv, TakenIsUsed, RowsKept, TakesKept
<1>4. TakenOnce'
  BY DEF UseInv, TakenOnce, TakesKept
<1>5. EarlyTookNothing'
  BY DEF UseInv, EarlyTookNothing, TakesKept
<1>6. QED  BY <1>2, <1>3, <1>4, <1>5 DEF UseInv

(* A removed row keeps what approvals read. *)
LEMMA RemovalKeepsRows ==
    ASSUME TypeInv, NEW t \in Token, row' = Removed(t) \/ row' = row
    PROVE  RowsKept
<1>1. row \in [Token -> Row]  BY DEF TypeInv, TypeOK
<1>2. QED  BY <1>1, RemovedTyped DEF RowsKept

(* A thread goes from one step to a later one without taking an approval.  *)
LEMMA AdvanceKeeps ==
    ASSUME TypeInv, UseInv, RowsKept, UNCHANGED <<popup, human, command>>,
           NEW r \in Request,
           \A q \in Request : q # r => req'[q] = req[q],
           req'[r].token = req[r].token, req'[r].phase # "consumed",
           req'[r].phase \in Early => req[r].phase \in Early
    PROVE  UseInv'
<1>1. PopupsKept  BY DEF PopupsKept
<1>2. TakesKept
  BY DEF TakesKept, Took
<1>3. QED  BY <1>1, <1>2, KeptStep

(* MoveTo and Conclude change one thread, not its stage. *)
LEMMA MoveToKeeps ==
    ASSUME TypeInv, NEW r \in Request, NEW phase, NEW verdict,
           MoveTo(r, phase) \/ Conclude(r, phase, verdict)
    PROVE  /\ \A q \in Request : q # r => req'[q] = req[q]
           /\ req'[r].token = req[r].token /\ req'[r].phase = phase
<1>1. req \in [Request -> Attempt]  BY DEF TypeInv, TypeOK
<1>2. QED  BY <1>1 DEF MoveTo, Conclude, Attempt

(* The extension moves a command on that it was sent. *)
LEMMA CommandKeeps ==
    ASSUME TypeInv, UseInv, RowsKept, UNCHANGED <<popup, human, req>>,
           \A q \in Request : command'[q] # command[q] => command[q] # "none"
    PROVE  UseInv'
<1>1. PopupsKept  BY DEF PopupsKept
<1>2. TakesKept
  BY DEF UseInv, EarlyTookNothing, TakesKept, Took
<1>3. QED  BY <1>1, <1>2, KeptStep

(* At first nothing is approved, used or sent. *)
LEMMA UseInit == Init => UseInv
<1> SUFFICES ASSUME Init PROVE UseInv
  OBVIOUS
<1>1. ApprovedByHuman  BY DEF Init, ApprovedByHuman
<1>2. \A r \in Request : ~Took(r)  BY DEF Init, Took
<1>3. TakenIsUsed  BY <1>2 DEF Init, TakenIsUsed
<1>4. TakenOnce  BY <1>2 DEF TakenOnce
<1>5. EarlyTookNothing  BY DEF Init, EarlyTookNothing
<1>6. QED  BY <1>1, <1>3, <1>4, <1>5 DEF UseInv

(* The decision of the human is recorded before the host hears of it. *)
LEMMA UseHumanDecides ==
    ASSUME TypeInv, UseInv, NEW t \in Token, HumanDecides(t)
    PROVE  UseInv'
<1>1. UNCHANGED <<row, req, command>>
  BY DEF HumanDecides, hostVars, extVars
<1>2. popup \in [Token -> {"none", "approving", "abandoning", "accepted", "refused"}]
  BY DEF TypeInv, TypeOK
<1>3. \A x \in Token : popup'[x] = "approving" => popup[x] = "approving" \/ x \in human'
  BY <1>2 DEF HumanDecides
<1>4. human \subseteq human'
  BY DEF HumanDecides
<1>5. ApprovedByHuman'
  BY <1>1, <1>3, <1>4 DEF UseInv, ApprovedByHuman
<1>6. TakenIsUsed'  BY <1>1 DEF UseInv, TakenIsUsed, Took
<1>7. TakenOnce'  BY <1>1 DEF UseInv, TakenOnce, Took
<1>8. EarlyTookNothing'  BY <1>1 DEF UseInv, EarlyTookNothing
<1>9. QED  BY <1>5, <1>6, <1>7, <1>8 DEF UseInv

(* A row is approved for a review that a human is waiting on. *)
LEMMA UseHostApproves ==
    ASSUME TypeInv, UseInv, NEW t \in Token, HostApproves(t)
    PROVE  UseInv'
<1>1. UNCHANGED <<req, command, human>> /\ popup[t] = "approving"
  BY DEF HostApproves, extVars
<1>2. row \in [Token -> Row]
      /\ popup \in [Token -> {"none", "approving", "abandoning", "accepted", "refused"}]
  BY DEF TypeInv, TypeOK
<1>3. PopupsKept
  BY <1>1, <1>2 DEF HostApproves, PopupsKept
<1>4. CASE row' = Removed(t) \/ row' = row
  <2>1. RowsKept  BY <1>4, RemovalKeepsRows
  <2>2. TakesKept  BY <1>1 DEF TakesKept, Took
  <2>3. QED  BY <2>1, <2>2, <1>3, KeptStep
<1>5. CASE row' = [row EXCEPT ![t].approved = TRUE]
  <2>1. \A x \in Token : /\ row'[x].used = row[x].used
                         /\ row[x].approved => row'[x].approved
                         /\ x # t => row'[x].approved = row[x].approved
    BY <1>2, <1>5 DEF Row
  <2>2. \A r \in Request : Took(r) => req[r].token \in Token
    BY DEF TypeInv, AttemptsOK, Took
  <2>3. ApprovedByHuman'
    BY <1>1, <1>3, <2>1 DEF UseInv, ApprovedByHuman, PopupsKept
  <2>4. TakenIsUsed'
    BY <1>1, <2>1, <2>2 DEF UseInv, TakenIsUsed, Took
  <2>5. TakenOnce'  BY <1>1 DEF UseInv, TakenOnce, Took
  <2>6. EarlyTookNothing'  BY <1>1 DEF UseInv, EarlyTookNothing
  <2>7. QED  BY <2>3, <2>4, <2>5, <2>6 DEF UseInv
<1>6. QED  BY <1>4, <1>5 DEF HostApproves

(* An approval is taken when the row is approved and unused: nobody had    *)
(* taken it before, or the row would be used.                              *)
LEMMA UseConsume ==
    ASSUME TypeInv, UseInv, NEW r \in Request, Consume(r)
    PROVE  UseInv'
<1> DEFINE t == req[r].token
<1>1. /\ UNCHANGED <<popup, human, command>>
      /\ req[r].phase = "begun" /\ t \in Token
  BY DEF Consume, extVars, TypeInv, AttemptsOK
<1>2. row \in [Token -> Row] /\ req \in [Request -> Attempt]
  BY DEF TypeInv, TypeOK
<1>3. CASE /\ Consumable(t)
           /\ row' = [row EXCEPT ![t].used = TRUE, ![t].key = req[r].key]
           /\ MoveTo(r, "consumed")
  <2>1. \A x \in Token : /\ row'[x].approved = row[x].approved
                         /\ x # t => row'[x].used = row[x].used
    BY <1>2, <1>3 DEF Row
  <2>2. row'[t].used
    BY <1>1, <1>2, <1>3 DEF Row
  <2>3. ~row[t].used /\ row[t].approved
    BY <1>3 DEF Consumable
  <2>4. /\ \A q \in Request : q # r => req'[q] = req[q]
        /\ req'[r].token = t /\ req'[r].phase = "consumed"
    BY <1>3, MoveToKeeps
  <2>5. command[r] = "none"
    BY <1>1 DEF UseInv, EarlyTookNothing, Early
  <2>6. \A q \in Request : q # r => Took(q)' = Took(q)
    BY <1>1, <2>4 DEF Took
  <2>7. \A q \in Request : Took(q) => req[q].token \in Token /\ req[q].token # t
    BY <2>3 DEF UseInv, TakenIsUsed, TypeInv, AttemptsOK, Took
  <2>8. ApprovedByHuman'
    BY <1>1, <2>1 DEF UseInv, ApprovedByHuman
  <2>9. TakenIsUsed'
    BY <1>1, <2>1, <2>2, <2>3, <2>4, <2>6, <2>7 DEF UseInv, TakenIsUsed
  <2>10. TakenOnce'
    BY <2>4, <2>6, <2>7 DEF UseInv, TakenOnce
  <2>11. EarlyTookNothing'
    BY <1>1, <2>4 DEF UseInv, EarlyTookNothing, Early
  <2>12. QED  BY <2>8, <2>9, <2>10, <2>11 DEF UseInv
<1>4. CASE Conclude(r, "replied", "not_started") \/ Conclude(r, "replied", "commit_required")
  <2>1. row' = Removed(t) \/ row' = row
    BY <1>2, <1>4 DEF Consume, Conclude, MoveTo, Attempt
  <2>2. RowsKept  BY <1>1, <2>1, RemovalKeepsRows
  <2>3. /\ \A q \in Request : q # r => req'[q] = req[q]
        /\ req'[r].token = req[r].token /\ req'[r].phase = "replied"
    BY <1>4, MoveToKeeps
  <2>4. QED  BY <1>1, <2>2, <2>3, AdvanceKeeps DEF Early
<1>5. QED  BY <1>3, <1>4 DEF Consume

(* The steps of browser_act, the review and the stage in the extension     *)
(* other than an approval.                                                 *)
LEMMA UseReview ==
    ASSUME TypeInv, UseInv, NEW t \in Token,
           \/ ExtStages(t) \/ StoreStage(t) \/ ExtBinds(t) \/ ActCompletes(t)
           \/ ActFails(t) \/ HostAbandons(t) \/ PopupEnds(t) \/ ExtExpires(t)
           \/ ExtDrops(t)
    PROVE  UseInv'
<1>1. UNCHANGED <<req, command, human>>
  BY DEF ExtStages, StoreStage, ExtBinds, ActCompletes, ActFails, HostAbandons,
         PopupEnds, ExtExpires, ExtDrops, hostVars, extVars
<1>2. row \in [Token -> Row]
      /\ popup \in [Token -> {"none", "approving", "abandoning", "accepted", "refused"}]
  BY DEF TypeInv, TypeOK
<1>3. RowsKept
  <2>1. CASE StoreStage(t)
    BY <1>2, <2>1 DEF StoreStage, RowsKept, Row
  <2>2. CASE ActFails(t) \/ HostAbandons(t)
    BY <2>2, RemovalKeepsRows DEF ActFails, HostAbandons
  <2>3. CASE \/ ExtStages(t) \/ ExtBinds(t) \/ ActCompletes(t)
             \/ PopupEnds(t) \/ ExtExpires(t) \/ ExtDrops(t)
    BY <2>3 DEF ExtStages, ExtBinds, ActCompletes, PopupEnds, ExtExpires,
                ExtDrops, hostVars, RowsKept
  <2>4. QED  BY <2>1, <2>2, <2>3
<1>4. PopupsKept
  <2>1. CASE HostAbandons(t) \/ PopupEnds(t)
    BY <1>1, <1>2, <2>1 DEF HostAbandons, PopupEnds, PopupsKept
  <2>2. CASE \/ ExtStages(t) \/ StoreStage(t) \/ ExtBinds(t) \/ ActCompletes(t)
             \/ ActFails(t) \/ ExtExpires(t) \/ ExtDrops(t)
    BY <1>1, <2>2 DEF ExtStages, StoreStage, ExtBinds, ActCompletes, ActFails,
                      ExtExpires, ExtDrops, PopupsKept
  <2>3. QED  BY <2>1, <2>2
<1>5. TakesKept  BY <1>1 DEF TakesKept, Took
<1>6. QED  BY <1>3, <1>4, <1>5, KeptStep

(* A new request has taken nothing: it had not been received.              *)
LEMMA UseSubmit ==
    ASSUME TypeInv, UseInv, NEW r \in Request, NEW t \in Token,
           NEW k \in CommitKey \cup {t}, Submit(r, t, k)
    PROVE  UseInv'
<1>1. /\ UNCHANGED <<row, popup, human, command>> /\ req[r].phase = "idle"
      /\ req' = [req EXCEPT ![r] = [phase |-> "received", key |-> k,
                                    token |-> t, answer |-> None]]
  BY DEF Submit, extVars
<1>2. req \in [Request -> Attempt]
  BY DEF TypeInv, TypeOK
<1>3. /\ \A q \in Request : q # r => req'[q] = req[q]
      /\ req'[r].phase = "received"
  BY <1>1, <1>2
<1>4. command[r] = "none"
  BY <1>1 DEF UseInv, EarlyTookNothing, Early
<1>5. RowsKept /\ PopupsKept
  BY <1>1 DEF RowsKept, PopupsKept
<1>6. TakesKept
  BY <1>1, <1>3, <1>4 DEF TakesKept, Took, Early
<1>7. QED  BY <1>5, <1>6, KeptStep

(* The steps of a browser_commit thread other than taking the approval.    *)
LEMMA UseThread ==
    ASSUME TypeInv, UseInv, NEW r \in Request,
           \/ Lookup(r) \/ Resolve(r) \/ Begin(r) \/ OriginRefuses(r)
           \/ Timeout(r) \/ Finish(r) \/ Complete(r)
    PROVE  UseInv'
<1>1. UNCHANGED <<popup, human, command>>
  BY DEF Lookup, Resolve, Begin, OriginRefuses, Timeout, Finish, Complete, extVars
<1>2. RowsKept
  <2>1. req[r].phase # "idle"
    BY DEF Lookup, Resolve, Begin, OriginRefuses, Timeout, Finish, Complete
  <2>2. req[r].token \in Token
    BY <2>1 DEF TypeInv, AttemptsOK
  <2>3. row' = Removed(req[r].token) \/ row' = row
    BY DEF Lookup, Resolve, Begin, OriginRefuses, Timeout, Finish, Complete
  <2>4. QED  BY <2>2, <2>3, RemovalKeepsRows
<1>3. PICK phase, verdict :
        /\ MoveTo(r, phase) \/ Conclude(r, phase, verdict)
        /\ phase # "consumed"
        /\ phase \in Early => req[r].phase \in Early
  <2>1. CASE Lookup(r)    BY <2>1 DEF Lookup, Early
  <2>2. CASE Resolve(r)   BY <2>2 DEF Resolve, Early
  <2>3. CASE Begin(r)     BY <2>3 DEF Begin, Early
  <2>4. CASE OriginRefuses(r)  BY <2>4 DEF OriginRefuses, Early
  <2>5. CASE Timeout(r)   BY <2>5 DEF Timeout, Early
  <2>6. CASE Finish(r)    BY <2>6 DEF Finish, Early
  <2>7. CASE Complete(r)  BY <2>7 DEF Complete, Early
  <2>8. QED  BY <2>1, <2>2, <2>3, <2>4, <2>5, <2>6, <2>7
<1>4. /\ \A q \in Request : q # r => req'[q] = req[q]
      /\ req'[r].token = req[r].token /\ req'[r].phase = phase
  BY <1>3, MoveToKeeps
<1>5. QED  BY <1>1, <1>2, <1>3, <1>4, AdvanceKeeps

(* What was sent had been taken.                                           *)
LEMMA UseSend ==
    ASSUME TypeInv, UseInv, NEW r \in Request, Send(r)
    PROVE  UseInv'
<1>1. UNCHANGED <<row, popup, human>> /\ req[r].phase = "consumed"
  BY DEF Send
<1>2. PICK phase \in {"sent", "returned"} :
        MoveTo(r, phase) \/ Conclude(r, phase, "unknown")
  BY DEF Send
<1>3. /\ \A q \in Request : q # r => req'[q] = req[q]
      /\ req'[r].token = req[r].token /\ req'[r].phase = phase
  BY <1>2, MoveToKeeps
<1>4. command \in [Request -> CommandState]
  BY DEF TypeInv, TypeOK, CommandState
<1>5. \A q \in Request : q # r => command'[q] = command[q]
  BY <1>4 DEF Send
<1>6. RowsKept /\ PopupsKept
  BY <1>1 DEF RowsKept, PopupsKept
<1>7. TakesKept
  BY <1>1, <1>2, <1>3, <1>5 DEF TakesKept, Took, Early
<1>8. QED  BY <1>6, <1>7, KeptStep

(* Commands move on in the extension only once sent. *)
LEMMA UseExtension ==
    ASSUME TypeInv, UseInv, NEW r \in Request,
           ExtChecks(r) \/ ExtRefuses(r) \/ ExtPerforms(r)
    PROVE  UseInv'
<1>1. UNCHANGED <<row, popup, human, req>>
  BY DEF ExtChecks, ExtRefuses, ExtPerforms, hostVars
<1>2. command \in [Request -> CommandState]
  BY DEF TypeInv, TypeOK, CommandState
<1>3. \A q \in Request : command'[q] # command[q] => command[q] # "none"
  BY <1>2 DEF ExtChecks, ExtRefuses, ExtPerforms
<1>4. RowsKept  BY <1>1 DEF RowsKept
<1>5. QED  BY <1>1, <1>3, <1>4, CommandKeeps

(* What the native reader applies takes no approval. *)
LEMMA UseReceive ==
    ASSUME TypeInv, UseInv, Receive
    PROVE  UseInv'
<1> DEFINE m == Head(inbox)
<1>1. UNCHANGED <<popup, human, command>>
  BY DEF Receive, extVars
<1>2. /\ row \in [Token -> Row] /\ req \in [Request -> Attempt]
      /\ inbox \in Seq(Message) /\ inbox # <<>>
  BY DEF TypeInv, TypeOK, Receive
<1>3. m \in Message
  BY <1>2
<1>4. CASE m.kind = "staged" /\ UNCHANGED <<row, req>>
  <2>1. RowsKept  BY <1>4 DEF RowsKept
  <2>2. QED  BY <1>1, <1>4, <2>1, CommandKeeps
<1>5. CASE m.kind = "reply" /\ UNCHANGED row
           /\ req' = IF req[m.of].phase = "sent"
                     THEN [req EXCEPT ![m.of].phase = "returned",
                                      ![m.of].answer = m.verdict]
                     ELSE req
  <2>1. RowsKept  BY <1>5 DEF RowsKept
  <2>2. m.of \in Request /\ m.verdict \in Verdict
    BY <1>3, <1>5 DEF Message
  <2>3. CASE req[m.of].phase = "sent"
    <3>1. Conclude(m.of, "returned", m.verdict)
      BY <1>5, <2>3 DEF Conclude
    <3>2. /\ \A q \in Request : q # m.of => req'[q] = req[q]
          /\ req'[m.of].token = req[m.of].token /\ req'[m.of].phase = "returned"
      BY <2>2, <3>1, MoveToKeeps
    <3>3. QED  BY <1>1, <2>1, <2>2, <3>2, AdvanceKeeps DEF Early
  <2>4. CASE req[m.of].phase # "sent"
    BY <1>1, <1>5, <2>1, <2>4, CommandKeeps
  <2>5. QED  BY <2>3, <2>4
<1>6. CASE m.kind = "expired" /\ UNCHANGED req
           /\ (row' = Removed(m.of) \/ UNCHANGED row)
  <2>1. m.of \in Token
    BY <1>3, <1>6 DEF Message
  <2>2. RowsKept  BY <1>6, <2>1, RemovalKeepsRows
  <2>3. QED  BY <1>1, <1>6, <2>2, CommandKeeps
<1>7. QED  BY <1>4, <1>5, <1>6 DEF Receive

(* Losing the port removes rows and stages; it takes no approval.          *)
LEMMA UsePortLost ==
    ASSUME TypeInv, UseInv, PortLost
    PROVE  UseInv'
<1>1. UNCHANGED <<popup, human, req>>
  BY DEF PortLost
<1>2. row \in [Token -> Row] /\ command \in [Request -> CommandState]
  BY DEF TypeInv, TypeOK, CommandState
<1>3. RowsKept
  BY <1>2 DEF PortLost, RowsKept, Row
<1>4. \A q \in Request : command'[q] # command[q] => command[q] # "none"
  BY <1>2 DEF PortLost
<1>5. QED  BY <1>1, <1>3, <1>4, CommandKeeps

(* A restart loses the threads, and what they took stays in the rows.      *)
LEMMA UseReconnect ==
    ASSUME TypeInv, UseInv, Reconnect
    PROVE  UseInv'
<1>1. UNCHANGED <<human, command>> /\ \A t \in Token : popup'[t] = "none"
  BY DEF Reconnect
<1>2. row \in [Token -> Row] /\ req \in [Request -> Attempt]
  BY DEF TypeInv, TypeOK
<1>3. RowsKept
  BY <1>2 DEF Reconnect, RowsKept, Row
<1>4. PopupsKept  BY <1>1 DEF PopupsKept
<1>5. \A r \in Request :
        \/ req'[r] = req[r] /\ req[r].phase \in {"idle", "answered"}
        \/ req'[r].phase = "lost" /\ req'[r].token = req[r].token
  BY <1>2 DEF Reconnect, Attempt
<1>6. TakesKept
  BY <1>1, <1>5 DEF TakesKept, Took, Early
<1>7. QED  BY <1>3, <1>4, <1>6, KeptStep

(* Every step keeps UseInv. *)
LEMMA UseStep ==
    ASSUME TypeInv, UseInv, [Next]_vars
    PROVE  UseInv'
<1>1. CASE UNCHANGED vars \/ Navigate \/ HostLearns \/ Tick
  <2>1. UNCHANGED <<row, popup, human, req, command>>
    BY <1>1 DEF vars, Navigate, HostLearns, Tick, hostVars, extVars
  <2>2. RowsKept  BY <2>1 DEF RowsKept
  <2>3. QED  BY <2>1, <2>2, CommandKeeps
<1>2. ASSUME NEW t \in Token,
             \/ ExtStages(t) \/ StoreStage(t) \/ ExtBinds(t) \/ ActCompletes(t)
             \/ ActFails(t) \/ HumanDecides(t) \/ HostApproves(t)
             \/ HostAbandons(t) \/ PopupEnds(t) \/ ExtExpires(t)
             \/ ExtDrops(t)
      PROVE  UseInv'
  BY <1>2, UseReview, UseHumanDecides, UseHostApproves
<1>3. ASSUME NEW r \in Request,
             \/ Lookup(r) \/ Resolve(r) \/ Begin(r) \/ Consume(r)
             \/ OriginRefuses(r) \/ Send(r) \/ ExtChecks(r) \/ ExtRefuses(r)
             \/ ExtPerforms(r) \/ Timeout(r) \/ Finish(r) \/ Complete(r)
      PROVE  UseInv'
  BY <1>3, UseThread, UseConsume, UseSend, UseExtension
<1>4. ASSUME NEW r \in Request, NEW t \in Token,
             NEW k \in CommitKey \cup {t}, Submit(r, t, k)
      PROVE  UseInv'
  BY <1>4, UseSubmit
<1>5. CASE Receive \/ PortLost \/ Reconnect
  BY <1>5, UseReceive, UsePortLost, UseReconnect
<1>6. QED  BY <1>1, <1>2, <1>3, <1>4, <1>5 DEF Next

(* At most one browser_commit per stage reaches the extension, whatever    *)
(* the number of keys, retries and restarts: consume_staged_commit uses a  *)
(* row once, and no step un-uses a row.                                    *)
THEOREM ApprovalUsedOnce == Spec => []OneUse
<1>1. Init => TypeInv /\ UseInv  BY TypeInit, UseInit
<1>2. TypeInv /\ UseInv /\ [Next]_vars => TypeInv' /\ UseInv'
  BY TypeStep, UseStep
<1>3. TypeInv /\ UseInv => OneUse
  BY DEF UseInv, TakenOnce, Took, OneUse
<1>4. QED  BY <1>1, <1>2, <1>3, PTL DEF Spec

(* No staged action is executed that a human did not approve, although the *)
(* extension does not look at the approval: what is sent was taken, what   *)
(* was taken is used, and only an approved row is used.                    *)
THEOREM NothingWithoutApproval == Spec => []ExecutedWasApproved
<1>1. Init => TypeInv /\ UseInv  BY TypeInit, UseInit
<1>2. TypeInv /\ UseInv /\ [Next]_vars => TypeInv' /\ UseInv'
  BY TypeStep, UseStep
<1>3. TypeInv /\ UseInv => ExecutedWasApproved
  <2> SUFFICES ASSUME TypeInv, UseInv, NEW r \in Request,
                      command[r] \in {"executed", "denied"}
               PROVE  req[r].token \in human
    BY DEF ExecutedWasApproved
  <2>1. req[r].token \in Token
    BY DEF TypeInv, AttemptsOK
  <2>2. row[req[r].token].approved
    BY <2>1 DEF UseInv, TakenIsUsed, Took
  <2>3. QED  BY <2>1, <2>2 DEF UseInv, ApprovedByHuman
<1>4. QED  BY <1>1, <1>2, <1>3, PTL DEF Spec

--------------------------------
(* The key that used an approval is on record *)

(* A thread consumes after begin_mutation wrote its key, and no step takes *)
(* a journal row away.                                                     *)
KeysRecorded ==
    /\ \A t \in Token : row[t].key # None => journal[row[t].key] # "absent"
    /\ \A r \in Request : req[r].phase = "begun" => journal[req[r].key] # "absent"

JournalKept ==
    \A k \in Key : journal[k] # "absent" => journal'[k] # "absent"

(* Writing the record of a key takes no record away. *)
LEMMA RecordWritten ==
    ASSUME journal \in [Key -> {"absent", "started"} \cup Verdict],
           NEW k \in Key, NEW v, v # "absent",
           journal' = [journal EXCEPT ![k] = v]
    PROVE  JournalKept /\ journal'[k] # "absent"
  BY DEF JournalKept

(* Nor does ending the records of any keys. *)
LEMMA RecordsEnded ==
    ASSUME journal \in [Key -> {"absent", "started"} \cup Verdict],
           NEW keys, journal' = Terminated(keys)
    PROVE  JournalKept
  BY TerminatedTyped DEF JournalKept

(* No step takes a record away: rows are replaced, never deleted. *)
LEMMA JournalStep ==
    ASSUME TypeInv, [Next]_vars
    PROVE  JournalKept
<1>1. journal \in [Key -> {"absent", "started"} \cup Verdict]
  BY DEF TypeInv, TypeOK, Key
<1>2. ASSUME UNCHANGED journal PROVE JournalKept
  BY <1>2 DEF JournalKept
<1>3. ASSUME NEW t \in Token,
             ExtStages(t) \/ StoreStage(t) \/ ActCompletes(t) \/ ActFails(t)
      PROVE  JournalKept
  <2>1. t \in Key  BY DEF Key
  <2>2. UNCHANGED journal \/ \E v \in {"started", "unknown", "commit_required"} :
                                 journal' = [journal EXCEPT ![t] = v]
    BY <1>3 DEF ExtStages, StoreStage, ActCompletes, ActFails
  <2>3. QED  BY <1>1, <1>2, <2>1, <2>2, RecordWritten
<1>4. ASSUME NEW t \in Token,
             \/ ExtBinds(t) \/ HumanDecides(t) \/ HostApproves(t)
             \/ HostAbandons(t) \/ PopupEnds(t) \/ ExtExpires(t) \/ ExtDrops(t)
      PROVE  JournalKept
  BY <1>2, <1>4 DEF ExtBinds, HumanDecides, HostApproves, HostAbandons,
                    PopupEnds, ExtExpires, ExtDrops, hostVars
<1>5. ASSUME NEW r \in Request, Begin(r) \/ Complete(r)
      PROVE  JournalKept
  <2>1. req[r].key \in Key
    BY <1>5 DEF Begin, Complete, TypeInv, AttemptsOK
  <2>2. \A v \in {req[r].answer, "unknown"} : Complete(r) => v # "absent"
    BY DEF Complete, TypeInv, AttemptsOK, Verdict
  <2>3. CASE Begin(r)
    BY <1>1, <1>2, <2>1, <2>3, RecordWritten DEF Begin
  <2>4. CASE Complete(r)
    BY <1>1, <1>2, <2>1, <2>2, <2>4, RecordWritten DEF Complete
  <2>5. QED  BY <1>5, <2>3, <2>4
<1>6. ASSUME NEW r \in Request, Resolve(r) \/ Consume(r)
      PROVE  JournalKept
  <2>1. UNCHANGED journal \/ \E keys : journal' = Terminated(keys)
    BY <1>6 DEF Resolve, Consume
  <2>2. QED  BY <1>1, <1>2, <2>1, RecordsEnded
<1>7. ASSUME NEW r \in Request,
             \/ Lookup(r) \/ OriginRefuses(r) \/ Send(r) \/ ExtChecks(r)
             \/ ExtRefuses(r) \/ ExtPerforms(r) \/ Timeout(r) \/ Finish(r)
      PROVE  JournalKept
  BY <1>2, <1>7 DEF Lookup, OriginRefuses, Send, ExtChecks, ExtRefuses,
                    ExtPerforms, Timeout, Finish, hostVars
<1>8. ASSUME NEW r \in Request, NEW t \in Token,
             NEW k \in CommitKey \cup {t}, Submit(r, t, k)
      PROVE  JournalKept
  BY <1>2, <1>8 DEF Submit
<1>9. CASE Receive \/ Reconnect
  <2>1. UNCHANGED journal \/ \E keys : journal' = Terminated(keys)
    BY <1>9 DEF Receive, Reconnect
  <2>2. QED  BY <1>1, <1>2, <2>1, RecordsEnded
<1>10. CASE UNCHANGED vars \/ Navigate \/ HostLearns \/ PortLost \/ Tick
  BY <1>2, <1>10 DEF vars, Navigate, HostLearns, PortLost, Tick, hostVars
<1>11. QED
  BY <1>3, <1>4, <1>5, <1>6, <1>7, <1>8, <1>9, <1>10 DEF Next

KeysKept == \A t \in Token : row'[t].key = row[t].key

BegunKept ==
    \A r \in Request : req'[r].phase = "begun" =>
        req[r].phase = "begun" /\ req'[r].key = req[r].key

(* A step that names no new key and begins no thread keeps KeysRecorded. *)
LEMMA RecordedKeeps ==
    ASSUME TypeInv, KeysRecorded, JournalKept, KeysKept, BegunKept
    PROVE  KeysRecorded'
<1>1. \A t \in Token : row[t].key # None => row[t].key \in Key
  BY DEF TypeInv, TypeOK, Row, Key
<1>2. \A r \in Request : req[r].phase = "begun" => req[r].key \in Key
  BY DEF TypeInv, AttemptsOK
<1>3. QED
  BY <1>1, <1>2 DEF KeysRecorded, JournalKept, KeysKept, BegunKept

(* A thread goes to a step other than "begun". *)
LEMMA ThreadLeavesBegun ==
    ASSUME TypeInv, NEW r \in Request, NEW phase, NEW verdict, phase # "begun",
           MoveTo(r, phase) \/ Conclude(r, phase, verdict)
    PROVE  BegunKept
  BY MoveToKeeps DEF BegunKept

(* A removed row still names the key that consumed it. *)
LEMMA RemovalKeepsKeys ==
    ASSUME TypeInv, NEW t \in Token, row' = Removed(t) \/ row' = row
    PROVE  KeysKept
<1>1. row \in [Token -> Row]  BY DEF TypeInv, TypeOK
<1>2. QED  BY <1>1, RemovedTyped DEF KeysKept

(* begin_mutation writes the row of its key. *)
LEMMA RecordedBegin ==
    ASSUME TypeInv, KeysRecorded, JournalKept, NEW r \in Request, Begin(r)
    PROVE  KeysRecorded'
<1> DEFINE k == req[r].key
<1>1. KeysKept  BY DEF Begin, KeysKept
<1>2. CASE Conclude(r, "answered", "not_started") \/ Conclude(r, "answered", Recorded(k))
  <2>1. BegunKept  BY <1>2, ThreadLeavesBegun
  <2>2. QED  BY <1>1, <2>1, RecordedKeeps
<1>3. CASE MoveTo(r, "begun") /\ journal' = [journal EXCEPT ![k] = "started"]
  <2>1. k \in Key
    BY DEF Begin, TypeInv, AttemptsOK
  <2>2. journal'[k] # "absent"
    <3>1. journal \in [Key -> {"absent", "started"} \cup Verdict]
      BY DEF TypeInv, TypeOK, Key
    <3>2. QED  BY <1>3, <2>1, <3>1, RecordWritten
  <2>3. req'[r].key = k /\ \A q \in Request : q # r => req'[q] = req[q]
    <3>1. req \in [Request -> Attempt]  BY DEF TypeInv, TypeOK
    <3>2. QED  BY <1>3, <3>1 DEF MoveTo, Attempt
  <2>4. \A t \in Token : row[t].key # None => row[t].key \in Key
    BY DEF TypeInv, TypeOK, Row, Key
  <2>5. \A q \in Request : req[q].phase = "begun" => req[q].key \in Key
    BY DEF TypeInv, AttemptsOK
  <2>6. QED
    BY <1>1, <2>2, <2>3, <2>4, <2>5 DEF KeysRecorded, JournalKept, KeysKept
<1>4. QED  BY <1>2, <1>3 DEF Begin

(* consume_staged_commit names the key of a thread that has begun. *)
LEMMA RecordedConsume ==
    ASSUME TypeInv, KeysRecorded, JournalKept, NEW r \in Request, Consume(r)
    PROVE  KeysRecorded'
<1> DEFINE t == req[r].token
<1>1. t \in Token /\ req[r].phase = "begun"
  BY DEF Consume, TypeInv, AttemptsOK
<1>2. row \in [Token -> Row]
  BY DEF TypeInv, TypeOK
<1>3. BegunKept
  BY ThreadLeavesBegun DEF Consume
<1>4. CASE row' = Removed(t) \/ row' = row
  <2>1. KeysKept  BY <1>1, <1>4, RemovalKeepsKeys
  <2>2. QED  BY <1>3, <2>1, RecordedKeeps
<1>5. CASE row' = [row EXCEPT ![t].used = TRUE, ![t].key = req[r].key]
  <2>1. /\ row'[t].key = req[r].key
        /\ \A x \in Token : x # t => row'[x].key = row[x].key
    BY <1>1, <1>2, <1>5 DEF Row
  <2>2. \A x \in Token : row[x].key # None => row[x].key \in Key
    BY <1>2 DEF Row, Key
  <2>3. \A q \in Request : req[q].phase = "begun" => req[q].key \in Key
    BY DEF TypeInv, AttemptsOK
  <2>4. QED
    BY <1>1, <1>3, <2>1, <2>2, <2>3 DEF KeysRecorded, JournalKept, BegunKept
<1>6. QED  BY <1>4, <1>5 DEF Consume

(* Every step keeps KeysRecorded. *)
LEMMA RecordedStep ==
    ASSUME TypeInv, KeysRecorded, [Next]_vars
    PROVE  KeysRecorded'
<1>1. JournalKept  BY JournalStep
<1>2. /\ row \in [Token -> Row] /\ req \in [Request -> Attempt]
      /\ inbox \in Seq(Message)
  BY DEF TypeInv, TypeOK
<1>3. ASSUME UNCHANGED row PROVE KeysKept  BY <1>3 DEF KeysKept
<1>4. ASSUME UNCHANGED req PROVE BegunKept  BY <1>4 DEF BegunKept
<1>5. ASSUME NEW t \in Token,
             \/ ExtStages(t) \/ StoreStage(t) \/ ExtBinds(t) \/ ActCompletes(t)
             \/ ActFails(t) \/ HumanDecides(t) \/ HostApproves(t)
             \/ HostAbandons(t) \/ PopupEnds(t) \/ ExtExpires(t)
             \/ ExtDrops(t)
      PROVE  KeysRecorded'
  <2>1. UNCHANGED req
    BY <1>5 DEF ExtStages, StoreStage, ExtBinds, ActCompletes, ActFails,
                HumanDecides, HostApproves, HostAbandons, PopupEnds,
                ExtExpires, ExtDrops, hostVars
  <2>2. CASE StoreStage(t)
    <3>1. KeysKept  BY <1>2, <2>2 DEF StoreStage, KeysKept, Row
    <3>2. QED  BY <1>1, <1>4, <2>1, <3>1, RecordedKeeps
  <2>3. CASE HostApproves(t) /\ row' = [row EXCEPT ![t].approved = TRUE]
    <3>1. KeysKept  BY <1>2, <2>3 DEF KeysKept, Row
    <3>2. QED  BY <1>1, <1>4, <2>1, <3>1, RecordedKeeps
  <2>4. CASE row' = Removed(t) \/ row' = row
    <3>1. KeysKept  BY <2>4, RemovalKeepsKeys
    <3>2. QED  BY <1>1, <1>4, <2>1, <3>1, RecordedKeeps
  <2>5. QED
    BY <1>5, <2>2, <2>3, <2>4
       DEF ExtStages, ExtBinds, ActCompletes, ActFails, HumanDecides,
           HostApproves, HostAbandons, PopupEnds, ExtExpires, ExtDrops, hostVars
<1>6. ASSUME NEW r \in Request,
             \/ Lookup(r) \/ Resolve(r) \/ OriginRefuses(r) \/ Send(r)
             \/ Timeout(r) \/ Finish(r) \/ Complete(r)
      PROVE  KeysRecorded'
  <2>1. BegunKept
    BY <1>6, ThreadLeavesBegun
       DEF Lookup, Resolve, OriginRefuses, Send, Timeout, Finish, Complete
  <2>2. req[r].token \in Token
    BY <1>6 DEF Lookup, Resolve, OriginRefuses, Send, Timeout, Finish, Complete,
                TypeInv, AttemptsOK
  <2>3. row' = Removed(req[r].token) \/ row' = row
    BY <1>6 DEF Lookup, Resolve, OriginRefuses, Send, Timeout, Finish, Complete
  <2>4. KeysKept  BY <2>2, <2>3, RemovalKeepsKeys
  <2>5. QED  BY <1>1, <2>1, <2>4, RecordedKeeps
<1>7. ASSUME NEW r \in Request, Begin(r) \/ Consume(r)
      PROVE  KeysRecorded'
  BY <1>1, <1>7, RecordedBegin, RecordedConsume
<1>8. ASSUME NEW r \in Request, NEW t \in Token,
             NEW k \in CommitKey \cup {t}, Submit(r, t, k)
      PROVE  KeysRecorded'
  <2>1. UNCHANGED row /\ BegunKept
    BY <1>2, <1>8 DEF Submit, BegunKept
  <2>2. QED  BY <1>1, <1>3, <2>1, RecordedKeeps
<1>9. CASE Receive
  <2>1. BegunKept
    <3> DEFINE m == Head(inbox)
    <3>1. CASE m.kind = "reply"
      <4>1. m.of \in Request /\ m.verdict \in Verdict
        BY <1>2, <1>9, <3>1 DEF Receive, Message
      <4>2. UNCHANGED req \/ Conclude(m.of, "returned", m.verdict)
        BY <1>9, <3>1 DEF Receive, Conclude
      <4>3. QED  BY <1>4, <4>1, <4>2, ThreadLeavesBegun
    <3>2. CASE UNCHANGED req  BY <1>4, <3>2
    <3>3. QED  BY <1>9, <3>1, <3>2 DEF Receive
  <2>2. KeysKept
    <3> DEFINE m == Head(inbox)
    <3>1. CASE m.kind = "expired"
      <4>1. m.of \in Token
        BY <1>2, <1>9, <3>1 DEF Receive, Message
      <4>2. row' = Removed(m.of) \/ row' = row
        BY <1>9, <3>1 DEF Receive
      <4>3. QED  BY <4>1, <4>2, RemovalKeepsKeys
    <3>2. CASE UNCHANGED row  BY <1>3, <3>2
    <3>3. QED  BY <1>9, <3>1, <3>2 DEF Receive
  <2>3. QED  BY <1>1, <2>1, <2>2, RecordedKeeps
<1>10. CASE PortLost \/ Reconnect
  <2>1. KeysKept
    BY <1>2, <1>10 DEF PortLost, Reconnect, KeysKept, Row
  <2>2. BegunKept
    BY <1>2, <1>10 DEF PortLost, Reconnect, BegunKept, Attempt
  <2>3. QED  BY <1>1, <2>1, <2>2, RecordedKeeps
<1>11. CASE \/ UNCHANGED vars \/ Navigate \/ HostLearns \/ Tick
            \/ \E r \in Request : ExtChecks(r) \/ ExtRefuses(r) \/ ExtPerforms(r)
  <2>1. UNCHANGED <<row, req>>
    BY <1>11 DEF vars, Navigate, HostLearns, Tick, ExtChecks, ExtRefuses,
                 ExtPerforms, hostVars
  <2>2. QED  BY <1>1, <1>3, <1>4, <2>1, RecordedKeeps
<1>12. QED
  BY <1>5, <1>6, <1>7, <1>8, <1>9, <1>10, <1>11 DEF Next

(* The key that consumed a row has a journal row for as long as it is      *)
(* named, so the reconciliation of a new host and the expiry of a stage,   *)
(* which end that key, do not fail for want of one.                        *)
THEOREM ConsumersOnRecord == Spec => []ConsumedKeyJournaled
<1>1. Init => TypeInv /\ KeysRecorded
  BY TypeInit DEF Init, KeysRecorded
<1>2. TypeInv /\ KeysRecorded /\ [Next]_vars => TypeInv' /\ KeysRecorded'
  BY TypeStep, RecordedStep
<1>3. TypeInv /\ KeysRecorded => ConsumedKeyJournaled
  BY DEF KeysRecorded, ConsumedKeyJournaled
<1>4. QED  BY <1>1, <1>2, <1>3, PTL DEF Spec

--------------------------------
(* What is answered about a commit is what became of its command *)

Unsent == Early \cup {"consumed"}
Told == {"returned", "replied", "answered"}

Performed(k) == \E q \in Request : req[q].key = k /\ command[q] = "executed"

UnsentHasNoCommand ==
    \A r \in Request : req[r].phase \in Unsent => command[r] = "none"

Undecided == {"queued", "checked"}
Undenied == {"executed", "dropped"}

(* An answer on its way to the client denies no command of its own that    *)
(* the extension does not deny, is unknown while the command can still     *)
(* execute, and claims an execution only for a key that has one; so does a *)
(* record.                                                                 *)
AnswersRight ==
    \A r \in Request :
        /\ req[r].phase \in Told /\ command[r] \in Undenied
             => req[r].answer # "not_started"
        /\ req[r].phase \in Told /\ command[r] \in Undecided
             => req[r].answer = "unknown"
        /\ req[r].phase \in Told \cup {"found"} /\ req[r].answer = "completed"
             => Performed(req[r].key)

RecordsRight == \A k \in Key : journal[k] = "completed" => Performed(k)

(* The extension replies after a command is executed, denied or refused. *)
Right(m) ==
    m.kind = "reply" =>
        /\ m.verdict # "commit_required"
        /\ m.verdict = "completed" => command[m.of] = "executed"
        /\ m.verdict = "not_started" => command[m.of] \in {"refused", "denied"}

RepliesRight == \A i \in 1..Len(inbox) : Right(inbox[i])

TruthInv == UnsentHasNoCommand /\ AnswersRight /\ RecordsRight /\ RepliesRight

(* What is over stays so, under its key. *)
OverKept ==
    \A q \in Request : command[q] \in {"refused", "executed", "denied"} =>
        command'[q] = command[q] /\ req'[q].key = req[q].key

LEMMA PerformedKept ==
    ASSUME OverKept, NEW k, Performed(k)
    PROVE  Performed(k)'
  BY DEF OverKept, Performed

LEMMA RecordsKept ==
    ASSUME RecordsRight, OverKept,
           \A k \in Key : journal'[k] = "completed" =>
              journal[k] = "completed" \/ Performed(k)'
    PROVE  RecordsRight'
  BY PerformedKept DEF RecordsRight

RightAfter(m) ==
    m.kind = "reply" =>
        /\ m.verdict # "commit_required"
        /\ m.verdict = "completed" => command'[m.of] = "executed"
        /\ m.verdict = "not_started" => command'[m.of] \in {"refused", "denied"}

(* What a step leaves in the inbox, or posts there, is right after it.     *)
LEMMA RightStays ==
    ASSUME TypeInv, RepliesRight, OverKept, NEW i \in 1..Len(inbox)
    PROVE  RightAfter(inbox[i])
<1> SUFFICES ASSUME inbox[i].kind = "reply"
             PROVE  /\ inbox[i].verdict # "commit_required"
                    /\ inbox[i].verdict = "completed" => command'[inbox[i].of] = "executed"
                    /\ inbox[i].verdict = "not_started" => command'[inbox[i].of] \in {"refused", "denied"}
  BY DEF RightAfter
<1>1. inbox[i] \in Message
  BY DEF TypeInv, TypeOK
<1>2. inbox[i].of \in Request
  BY <1>1 DEF Message
<1>3. QED  BY <1>2 DEF RepliesRight, Right, OverKept

LEMMA RepliesKept ==
    ASSUME TypeInv, RepliesRight, OverKept,
           inbox' = inbox \/ (inbox # <<>> /\ inbox' = Tail(inbox)) \/ inbox' = <<>>
    PROVE  RepliesRight'
<1>1. inbox \in Seq(Message)
  BY DEF TypeInv, TypeOK
<1>2. \A j \in 1..Len(inbox') : \E i \in 1..Len(inbox) : inbox'[j] = inbox[i]
  <2>1. CASE inbox' = inbox  BY <1>1, <2>1
  <2>2. CASE inbox # <<>> /\ inbox' = Tail(inbox)
    <3>1. \A j \in 1..Len(inbox') : j + 1 \in 1..Len(inbox) /\ inbox'[j] = inbox[j + 1]
      BY <1>1, <2>2
    <3>2. QED  BY <3>1
  <2>3. CASE inbox' = <<>>  BY <2>3
  <2>4. QED  BY <2>1, <2>2, <2>3
<1>3. QED  BY <1>2, RightStays DEF RepliesRight, Right, RightAfter

LEMMA RepliesPosted ==
    ASSUME TypeInv, RepliesRight, OverKept, NEW msgs \in Seq(Message), Post(msgs),
           \A j \in 1..Len(msgs) : RightAfter(msgs[j])
    PROVE  RepliesRight'
<1>1. inbox \in Seq(Message)
  BY DEF TypeInv, TypeOK
<1>2. \A j \in 1..Len(inbox') : RightAfter(inbox'[j])
  <2>1. CASE inbox' = inbox  BY <2>1, RightStays
  <2>2. CASE inbox' = inbox \o msgs
    <3> SUFFICES ASSUME NEW j \in 1..Len(inbox') PROVE RightAfter(inbox'[j])
      OBVIOUS
    <3>1. CASE j \in 1..Len(inbox)
      <4>1. inbox'[j] = inbox[j]  BY <1>1, <2>2, <3>1
      <4>2. QED  BY <3>1, <4>1, RightStays
    <3>2. CASE j \notin 1..Len(inbox)
      <4>1. j - Len(inbox) \in 1..Len(msgs) /\ inbox'[j] = msgs[j - Len(inbox)]
        BY <1>1, <2>2, <3>2
      <4>2. QED  BY <4>1
    <3>3. QED  BY <3>1, <3>2
  <2>3. QED  BY <2>1, <2>2 DEF Post
<1>3. QED  BY <1>2 DEF RepliesRight, Right, RightAfter

LEMMA RepliedOnce ==
    ASSUME TypeInv, RepliesRight, OverKept, NEW m \in Message, RightAfter(m),
           \/ Post(<<m>>)
           \/ \E n \in Message : n.kind # "reply" /\ Post(<<n, m>>)
    PROVE  RepliesRight'
<1>1. CASE Post(<<m>>)
  <2> DEFINE msgs == <<m>>
  <2>1. msgs \in Seq(Message) /\ \A j \in 1..Len(msgs) : msgs[j] = m
    OBVIOUS
  <2>2. Post(msgs)  BY <1>1
  <2> HIDE DEF msgs
  <2>3. QED  BY <2>1, <2>2, RepliesPosted
<1>2. ASSUME NEW n \in Message, n.kind # "reply", Post(<<n, m>>)
      PROVE  RepliesRight'
  <2> DEFINE msgs == <<n, m>>
  <2>1. msgs \in Seq(Message) /\ \A j \in 1..Len(msgs) : msgs[j] = n \/ msgs[j] = m
    OBVIOUS
  <2>2. Post(msgs) /\ RightAfter(n)
    BY <1>2 DEF RightAfter
  <2> HIDE DEF msgs
  <2>3. QED  BY <2>1, <2>2, RepliesPosted
<1>3. QED  BY <1>1, <1>2

(* A step of one thread: it tells nothing worse than it may.               *)
LEMMA ThreadTells ==
    ASSUME TypeInv, TruthInv, NEW r \in Request, UNCHANGED command,
           \A q \in Request : q # r => req'[q] = req[q],
           req'[r].key = req[r].key \/ req[r].phase = "idle",
           req'[r].phase \in Unsent => req[r].phase \in Unsent,
           req'[r].phase \in Told /\ command[r] \in Undenied
              => req'[r].answer # "not_started",
           req'[r].phase \in Told /\ command[r] \in Undecided
              => req'[r].answer = "unknown",
           req'[r].phase \in Told \cup {"found"} /\ req'[r].answer = "completed"
              => Performed(req'[r].key),
           \A k \in Key : journal'[k] = "completed" =>
              journal[k] = "completed" \/ Performed(k),
           inbox' = inbox \/ (inbox # <<>> /\ inbox' = Tail(inbox))
    PROVE  TruthInv'
<1>1. OverKept
  BY DEF OverKept, TruthInv, UnsentHasNoCommand, Unsent, Early
<1>2. \A k : Performed(k) => Performed(k)'
  BY <1>1, PerformedKept
<1>3. UnsentHasNoCommand'
  BY DEF TruthInv, UnsentHasNoCommand
<1>4. AnswersRight'
  <2>1. ASSUME NEW q \in Request, req'[q].phase \in Told, command'[q] \in Undenied
        PROVE  req'[q].answer # "not_started"
    BY <2>1 DEF TruthInv, AnswersRight
  <2>2. ASSUME NEW q \in Request, req'[q].phase \in Told \cup {"found"},
               req'[q].answer = "completed"
        PROVE  \E x \in Request : req'[x].key = req'[q].key /\ command'[x] = "executed"
    <3>1. Performed(req'[q].key)
      BY <2>2 DEF TruthInv, AnswersRight
    <3>2. QED  BY <1>1, <3>1 DEF Performed, OverKept
  <2>3. ASSUME NEW q \in Request, req'[q].phase \in Told, command'[q] \in Undecided
        PROVE  req'[q].answer = "unknown"
    BY <2>3 DEF TruthInv, AnswersRight
  <2>4. QED  BY <2>1, <2>2, <2>3 DEF AnswersRight, Performed
<1>5. RecordsRight'
  BY <1>1, <1>2, RecordsKept DEF TruthInv
<1>6. RepliesRight'
  BY <1>1, RepliesKept DEF TruthInv
<1>7. QED  BY <1>3, <1>4, <1>5, <1>6 DEF TruthInv

(* Threads of the host, by what they have learnt.                          *)
LEMMA TerminatedTells ==
    ASSUME journal \in [Key -> {"absent", "started"} \cup Verdict], NEW keys
    PROVE  \A k \in Key : Terminated(keys)[k] = "completed" => journal[k] = "completed"
  BY DEF Terminated, Key

LEMMA TruthThread ==
    ASSUME TypeInv, TruthInv, NEW r \in Request,
           \/ Lookup(r) \/ Resolve(r) \/ Begin(r) \/ Consume(r)
           \/ OriginRefuses(r) \/ Timeout(r) \/ Finish(r) \/ Complete(r)
    PROVE  TruthInv'
<1>1. /\ req \in [Request -> Attempt]
      /\ journal \in [Key -> {"absent", "started"} \cup Verdict]
  BY DEF TypeInv, TypeOK, Key
<1>2. UNCHANGED <<command, inbox>>
  BY DEF Lookup, Resolve, Begin, Consume, OriginRefuses, Timeout, Finish, Complete, extVars
<1>3. /\ req[r].phase \in Unsent => command[r] = "none"
      /\ req[r].phase \in Told /\ command[r] \in Undenied => req[r].answer # "not_started"
      /\ req[r].phase \in Told /\ command[r] \in Undecided => req[r].answer = "unknown"
      /\ req[r].phase \in Told \cup {"found"} /\ req[r].answer = "completed"
           => Performed(req[r].key)
      /\ \A k \in Key : journal[k] = "completed" => Performed(k)
      /\ req[r].phase # "idle" => req[r].key \in Key
  BY DEF TruthInv, UnsentHasNoCommand, AnswersRight, RecordsRight, TypeInv, AttemptsOK
<1>4. ASSUME NEW phase \in Phase, MoveTo(r, phase), req[r].phase # "idle",
             phase \in Unsent => req[r].phase \in Unsent,
             phase \in Told => req[r].phase \in Told \cup {"found"},
             phase # "found",
             \A k \in Key : journal'[k] = "completed" => journal[k] = "completed"
      PROVE  TruthInv'
  <2>1. /\ \A q \in Request : q # r => req'[q] = req[q]
        /\ req'[r].phase = phase /\ req'[r].key = req[r].key
        /\ req'[r].answer = req[r].answer
    BY <1>1, <1>4, MoveToTyped
  <2>2. phase \in Told => /\ command[r] \in Undenied => req[r].answer # "not_started"
                          /\ command[r] \in Undecided => req[r].answer = "unknown"
    BY <1>3, <1>4 DEF Unsent, Early, Undecided, Undenied
  <2>3. QED  BY <1>2, <1>3, <1>4, <2>1, <2>2, ThreadTells
<1>5. ASSUME NEW phase \in Phase, NEW v \in Verdict, Conclude(r, phase, v),
             phase \notin Unsent \ {"found"}, phase = "found" => req[r].phase \in Unsent,
             phase # "found" /\ command[r] \in Undenied => v # "not_started",
             phase # "found" /\ command[r] \in Undecided => v = "unknown",
             v = "completed" => Performed(req[r].key),
             \A k \in Key : journal'[k] = "completed" =>
                journal[k] = "completed" \/ Performed(k)
      PROVE  TruthInv'
  <2>1. /\ \A q \in Request : q # r => req'[q] = req[q]
        /\ req'[r].phase = phase /\ req'[r].key = req[r].key
        /\ req'[r].answer = v
    BY <1>1, <1>5, ConcludeTyped
  <2>2. "found" \notin Told
    BY DEF Told
  <2>3. QED  BY <1>2, <1>5, <2>1, <2>2, ThreadTells DEF Told, Unsent
<1>6. ASSUME NEW keys PROVE
        \A k \in Key : Terminated(keys)[k] = "completed" => journal[k] = "completed"
  BY <1>1, TerminatedTells
<1>7. Recorded(req[r].key) = "completed" => journal[req[r].key] = "completed"
  BY DEF Recorded
<1>8. req[r].phase # "idle" /\ journal[req[r].key] # "absent" => Recorded(req[r].key) \in Verdict
  BY <1>1, <1>3 DEF Recorded, Verdict
<1>9. CASE Lookup(r)
  <2>1. req[r].phase = "received" /\ UNCHANGED journal
    BY <1>9 DEF Lookup
  <2>2. \/ MoveTo(r, "queued")
        \/ Conclude(r, "found", Recorded(req[r].key)) /\ journal[req[r].key] # "absent"
    BY <1>9 DEF Lookup
  <2>3. QED
    BY <1>3, <1>4, <1>5, <1>7, <1>8, <2>1, <2>2 DEF Phase, Unsent, Early, Told, Undecided, Undenied
<1>10. CASE Resolve(r)
  <2>1. req[r].phase = "found" /\ command[r] = "none"
    BY <1>3, <1>10 DEF Resolve, Unsent, Early
  <2>2. \/ MoveTo(r, "answered") /\ UNCHANGED journal
        \/ Conclude(r, "answered", "not_started") /\ \E keys : journal' = Terminated(keys)
    BY <1>10 DEF Resolve
  <2>3. QED
    BY <1>4, <1>5, <1>6, <2>1, <2>2 DEF Phase, Unsent, Early, Told, Undecided, Undenied, Verdict
<1>11. CASE Begin(r)
  <2>1. req[r].phase = "queued" /\ command[r] = "none" /\ req[r].key \in Key
    BY <1>3, <1>11 DEF Begin, Unsent, Early
  <2>2. \/ MoveTo(r, "begun") /\ journal' = [journal EXCEPT ![req[r].key] = "started"]
        \/ Conclude(r, "answered", "not_started") /\ UNCHANGED journal
        \/ /\ Conclude(r, "answered", Recorded(req[r].key)) /\ UNCHANGED journal
           /\ journal[req[r].key] # "absent"
    BY <1>11 DEF Begin
  <2>3. CASE MoveTo(r, "begun") /\ journal' = [journal EXCEPT ![req[r].key] = "started"]
    <3>1. \A k \in Key : journal'[k] = "completed" => journal[k] = "completed"
      BY <1>1, <2>3
    <3>2. QED  BY <1>4, <2>1, <2>3, <3>1 DEF Phase, Unsent, Early, Told
  <2>4. QED
    BY <1>3, <1>5, <1>7, <1>8, <2>1, <2>2, <2>3 DEF Phase, Unsent, Early, Undecided, Undenied, Verdict
<1>12. CASE Consume(r)
  <2>1. req[r].phase = "begun" /\ command[r] = "none"
    BY <1>3, <1>12 DEF Consume, Unsent, Early
  <2>2. \/ MoveTo(r, "consumed") /\ UNCHANGED journal
        \/ /\ \E v \in {"not_started", "commit_required"} : Conclude(r, "replied", v)
           /\ UNCHANGED journal \/ \E keys : journal' = Terminated(keys)
    BY <1>12 DEF Consume
  <2>3. QED
    BY <1>4, <1>5, <1>6, <2>1, <2>2 DEF Phase, Unsent, Early, Told, Undecided, Undenied, Verdict
<1>13. CASE OriginRefuses(r) \/ Timeout(r)
  <2>1. \/ Timeout(r) /\ Conclude(r, "returned", "unknown") /\ UNCHANGED journal
        \/ /\ req[r].phase = "consumed" /\ Conclude(r, "replied", "not_started")
           /\ UNCHANGED journal
    BY <1>13 DEF OriginRefuses, Timeout
  <2>2. QED
    BY <1>3, <1>5, <2>1 DEF Phase, Unsent, Early, Undecided, Undenied, Verdict
<1>14. CASE Finish(r)
  <2>1. req[r].phase = "returned" /\ MoveTo(r, "replied") /\ UNCHANGED journal
    BY <1>14 DEF Finish
  <2>2. QED  BY <1>4, <2>1 DEF Phase, Unsent, Early, Told
<1>15. CASE Complete(r)
  <2>1. /\ req[r].phase = "replied" /\ req[r].answer \in Verdict /\ req[r].key \in Key
    BY <1>15 DEF Complete, TypeInv, AttemptsOK
  <2>2. PICK v \in {req[r].answer, "unknown"} :
          \/ Conclude(r, "answered", v) /\ journal' = [journal EXCEPT ![req[r].key] = v]
          \/ Conclude(r, "answered", "unknown") /\ UNCHANGED journal
    BY <1>15 DEF Complete
  <2>3. /\ v \in Verdict
        /\ command[r] \in Undenied => v # "not_started"
        /\ command[r] \in Undecided => v = "unknown"
        /\ v = "completed" => Performed(req[r].key)
    BY <1>3, <2>1 DEF Told, Verdict
  <2>4. CASE Conclude(r, "answered", v) /\ journal' = [journal EXCEPT ![req[r].key] = v]
    <3>1. \A k \in Key : journal'[k] = "completed" =>
             journal[k] = "completed" \/ Performed(k)
      BY <1>1, <2>1, <2>3, <2>4
    <3>2. QED  BY <1>5, <2>3, <2>4, <3>1 DEF Phase, Unsent, Early
  <2>5. CASE Conclude(r, "answered", "unknown") /\ UNCHANGED journal
    BY <1>5, <2>5 DEF Phase, Unsent, Early, Undecided, Undenied, Verdict
  <2>6. QED  BY <2>2, <2>4, <2>5
<1>16. QED
  BY <1>9, <1>10, <1>11, <1>12, <1>13, <1>14, <1>15

LEMMA TruthSubmit ==
    ASSUME TypeInv, TruthInv, NEW r \in Request, NEW t \in Token,
           NEW k \in CommitKey \cup {t}, Submit(r, t, k)
    PROVE  TruthInv'
<1>1. req \in [Request -> Attempt]
  BY DEF TypeInv, TypeOK
<1>2. /\ req[r].phase = "idle" /\ req'[r].phase = "received"
      /\ \A q \in Request : q # r => req'[q] = req[q]
      /\ UNCHANGED <<command, inbox, journal>>
  BY <1>1 DEF Submit, extVars
<1>3. QED  BY <1>2, ThreadTells DEF Unsent, Early, Told

(* The command of a thread that has consumed its approval.                 *)
LEMMA TruthSend ==
    ASSUME TypeInv, TruthInv, NEW r \in Request, Send(r)
    PROVE  TruthInv'
<1>1. /\ req \in [Request -> Attempt] /\ command \in [Request -> CommandState]
      /\ req[r].phase = "consumed" /\ UNCHANGED <<inbox, journal>>
  BY DEF TypeInv, TypeOK, CommandState, Send
<1>2. command[r] = "none"
  BY <1>1 DEF TruthInv, UnsentHasNoCommand, Unsent
<1>3. CASE Conclude(r, "returned", "unknown") /\ UNCHANGED command
  <2>1. /\ \A q \in Request : q # r => req'[q] = req[q]
        /\ req'[r].phase = "returned" /\ req'[r].key = req[r].key
        /\ req'[r].answer = "unknown"
    BY <1>1, <1>3, ConcludeTyped DEF Phase, Verdict
  <2>2. QED  BY <1>1, <1>2, <1>3, <2>1, ThreadTells DEF Unsent, Early, Told, Undecided, Undenied
<1>4. CASE MoveTo(r, "sent") /\ command' = [command EXCEPT ![r] = "queued"]
  <2>1. /\ \A q \in Request : q # r => req'[q] = req[q] /\ command'[q] = command[q]
        /\ req'[r].phase = "sent" /\ req'[r].key = req[r].key
    BY <1>1, <1>4, MoveToTyped DEF Phase
  <2>2. OverKept
    BY <1>2, <2>1 DEF OverKept
  <2>3. UnsentHasNoCommand'
    BY <2>1 DEF TruthInv, UnsentHasNoCommand, Unsent, Early
  <2>4. AnswersRight'
    <3>1. ASSUME NEW q \in Request, req'[q].phase \in Told \cup {"found"}
          PROVE  q # r /\ req'[q] = req[q] /\ command'[q] = command[q]
      BY <2>1, <3>1 DEF Told
    <3>2. QED  BY <2>2, <3>1 DEF TruthInv, AnswersRight, Performed, OverKept
  <2>5. RecordsRight'
    BY <1>1, <2>2, RecordsKept DEF TruthInv
  <2>6. RepliesRight'
    BY <1>1, <2>2, RepliesKept DEF TruthInv
  <2>7. QED  BY <2>3, <2>4, <2>5, <2>6 DEF TruthInv
<1>5. QED  BY <1>3, <1>4 DEF Send

(* The command of one attempt moves on in the extension.                   *)
LEMMA CommandMoves ==
    ASSUME TypeInv, TruthInv, NEW r \in Request, UNCHANGED <<req, journal>>,
           \A q \in Request : q # r => command'[q] = command[q],
           command[r] \in Undecided, command'[r] # "none", RepliesRight'
    PROVE  TruthInv'
<1>1. OverKept
  BY DEF OverKept, Undecided, Undenied
<1>2. UnsentHasNoCommand'
  BY DEF TruthInv, UnsentHasNoCommand, Undecided, Undenied
<1>3. AnswersRight'
  <2>1. ASSUME NEW q \in Request, req[q].phase \in Told, command'[q] \in Undenied
        PROVE  req[q].answer # "not_started"
    BY <2>1 DEF TruthInv, AnswersRight
  <2>2. ASSUME NEW q \in Request, req[q].phase \in Told \cup {"found"},
               req[q].answer = "completed"
        PROVE  \E x \in Request : req[x].key = req[q].key /\ command'[x] = "executed"
    <3>1. Performed(req[q].key)
      BY <2>2 DEF TruthInv, AnswersRight
    <3>2. QED  BY <1>1, <3>1 DEF Performed, OverKept
  <2>3. ASSUME NEW q \in Request, req[q].phase \in Told, command'[q] \in Undecided
        PROVE  req[q].answer = "unknown"
    BY <2>3 DEF TruthInv, AnswersRight
  <2>4. QED  BY <2>1, <2>2, <2>3 DEF AnswersRight, Performed
<1>4. RecordsRight'
  BY <1>1, RecordsKept DEF TruthInv
<1>5. QED  BY <1>2, <1>3, <1>4 DEF TruthInv

LEMMA TruthExtension ==
    ASSUME TypeInv, TruthInv, NEW r \in Request,
           ExtChecks(r) \/ ExtRefuses(r) \/ ExtPerforms(r)
    PROVE  TruthInv'
<1>1. /\ command \in [Request -> CommandState] /\ UNCHANGED <<req, journal>>
  BY DEF TypeInv, TypeOK, CommandState, ExtChecks, ExtRefuses, ExtPerforms, hostVars
<1>2. /\ \A q \in Request : q # r => command'[q] = command[q]
      /\ command[r] \in Undecided
      /\ \/ ExtChecks(r) /\ command'[r] = "checked"
         \/ ExtRefuses(r) /\ command'[r] = "refused"
         \/ ExtPerforms(r) /\ command'[r] \in {"executed", "denied"}
  BY <1>1 DEF ExtChecks, ExtRefuses, ExtPerforms, Undecided, Undenied
<1>3. OverKept
  BY <1>1, <1>2 DEF OverKept, Undecided, Undenied
<1>4. RepliesRight'
  <2>1. CASE ExtChecks(r)
    BY <1>1, <1>3, <2>1, RepliesKept DEF ExtChecks, TruthInv
  <2>2. CASE ExtRefuses(r)
    <3> DEFINE t == req[r].token
    <3>1. command'[r] = "refused"
      BY <1>1, <2>2 DEF ExtRefuses
    <3>2. RightAfter(Reply(r, "not_started")) /\ RightAfter(ExpiredEvent(t))
      BY <3>1 DEF RightAfter, Reply, ExpiredEvent
    <3>3. Reply(r, "not_started") \in Message /\ (Held(t) => ExpiredEvent(t) \in Message)
      BY <1>2, MessageTyped DEF Verdict, Undecided, Undenied, TypeInv, AttemptsOK
    <3>4. \/ Post(<<Reply(r, "not_started")>>)
          \/ Held(t) /\ Post(<<ExpiredEvent(t), Reply(r, "not_started")>>)
      BY <2>2 DEF ExtRefuses
    <3>5. ExpiredEvent(t).kind # "reply"
      BY DEF ExpiredEvent
    <3>6. QED  BY <1>1, <1>3, <3>2, <3>3, <3>4, <3>5, RepliedOnce DEF TruthInv
  <2>3. CASE ExtPerforms(r)
    <3>1. PICK v \in {"completed", "unknown", "not_started"} :
            /\ Post(<<Reply(r, v)>>)
            /\ command'[r] = IF v = "not_started" THEN "denied" ELSE "executed"
      BY <1>1, <2>3 DEF ExtPerforms
    <3>3. RightAfter(Reply(r, v)) /\ Reply(r, v) \in Message
      BY <3>1, MessageTyped DEF RightAfter, Reply, Verdict
    <3>4. QED  BY <1>1, <1>3, <3>1, <3>3, RepliedOnce DEF TruthInv
  <2>4. QED  BY <1>2, <2>1, <2>2, <2>3
<1>5. QED  BY <1>1, <1>2, <1>4, CommandMoves

(* The reader concludes a thread with what the extension replied.          *)
LEMMA TruthReplied ==
    ASSUME TypeInv, TruthInv, NEW r \in Request, NEW v \in Verdict,
           req[r].phase = "sent", Conclude(r, "returned", v),
           v # "commit_required",
           v = "completed" => command[r] = "executed",
           v = "not_started" => command[r] \in {"refused", "denied"},
           UNCHANGED <<command, journal>>, inbox # <<>>, inbox' = Tail(inbox)
    PROVE  TruthInv'
<1>1. req \in [Request -> Attempt]
  BY DEF TypeInv, TypeOK
<1>2. /\ \A q \in Request : q # r => req'[q] = req[q]
      /\ req'[r].phase = "returned" /\ req'[r].key = req[r].key
      /\ req'[r].answer = v
  BY <1>1, ConcludeTyped DEF Phase
<1>3. /\ command[r] \in Undenied => v # "not_started"
      /\ command[r] \in Undecided => v = "unknown"
      /\ v = "completed" => Performed(req[r].key)
  BY DEF Undecided, Undenied, Verdict, Performed
<1>4. QED
  BY <1>2, <1>3, ThreadTells DEF Unsent, Early

LEMMA TruthReceive ==
    ASSUME TypeInv, TruthInv, Receive
    PROVE  TruthInv'
<1> DEFINE m == Head(inbox)
<1>1. /\ inbox \in Seq(Message) /\ inbox # <<>> /\ inbox' = Tail(inbox)
      /\ req \in [Request -> Attempt] /\ UNCHANGED command
      /\ journal \in [Key -> {"absent", "started"} \cup Verdict]
  BY DEF TypeInv, TypeOK, Key, Receive, extVars
<1>2. m \in Message /\ Right(m)
  BY <1>1 DEF TruthInv, RepliesRight
<1>3. ASSUME UNCHANGED req,
             \A k \in Key : journal'[k] = "completed" => journal[k] = "completed"
      PROVE  TruthInv'
  <2>1. OverKept  BY <1>1, <1>3 DEF OverKept
  <2>2. UnsentHasNoCommand' /\ AnswersRight'
    BY <1>1, <1>3 DEF TruthInv, UnsentHasNoCommand, AnswersRight, Performed
  <2>3. RecordsRight'  BY <1>3, <2>1, RecordsKept DEF TruthInv
  <2>4. RepliesRight'  BY <1>1, <2>1, RepliesKept DEF TruthInv
  <2>5. QED  BY <2>2, <2>3, <2>4 DEF TruthInv
<1>4. CASE m.kind = "reply"
  <2>1. m.of \in Request /\ m.verdict \in Verdict /\ UNCHANGED journal
    BY <1>2, <1>4 DEF Message, Receive
  <2>2. \/ UNCHANGED req
        \/ req[m.of].phase = "sent" /\ Conclude(m.of, "returned", m.verdict)
    BY <1>4 DEF Receive, Conclude
  <2>3. /\ m.verdict # "commit_required"
        /\ m.verdict = "completed" => command[m.of] = "executed"
        /\ m.verdict = "not_started" => command[m.of] \in {"refused", "denied"}
    BY <1>2, <1>4 DEF Right
  <2>4. QED
    <3>1. CASE UNCHANGED req  BY <1>3, <2>1, <3>1
    <3>2. CASE req[m.of].phase = "sent" /\ Conclude(m.of, "returned", m.verdict)
      <4> HIDE DEF m
      <4>1. QED  BY <1>1, <2>1, <2>3, <3>2, TruthReplied
    <3>3. QED  BY <2>2, <3>1, <3>2
<1>5. CASE m.kind # "reply"
  <2>1. UNCHANGED req /\ (UNCHANGED journal \/ \E keys : journal' = Terminated(keys))
    BY <1>5 DEF Receive
  <2>2. QED  BY <1>1, <1>3, <2>1, TerminatedTells
<1>6. QED  BY <1>4, <1>5

(* A port that goes down drops commands, none that is over.                *)
LEMMA TruthPortLost ==
    ASSUME TypeInv, TruthInv, PortLost
    PROVE  TruthInv'
<1>1. /\ command \in [Request -> CommandState] /\ UNCHANGED <<req, journal>>
      /\ inbox' = <<>>
  BY DEF TypeInv, TypeOK, CommandState, PortLost
<1>2. \A q \in Request : \/ command'[q] = command[q]
                         \/ command[q] \in Undecided /\ command'[q] = "dropped"
  BY <1>1 DEF PortLost, Undecided, Undenied
<1>3. OverKept  BY <1>1, <1>2 DEF OverKept, Undecided, Undenied
<1>4. UnsentHasNoCommand'
  BY <1>1, <1>2 DEF TruthInv, UnsentHasNoCommand, Undecided, Undenied
<1>5. AnswersRight'
  <2>1. \A q \in Request : /\ command'[q] \in Undenied => command[q] \in Undenied \cup Undecided
                           /\ command'[q] \in Undecided => command[q] \in Undecided
    BY <1>2 DEF Undecided, Undenied
  <2>2. \A k : Performed(k) => \E x \in Request : req[x].key = k /\ command'[x] = "executed"
    BY <1>3 DEF Performed, OverKept
  <2>3. QED  BY <1>1, <2>1, <2>2 DEF TruthInv, AnswersRight, Performed
<1>6. RecordsRight'  BY <1>1, <1>3, RecordsKept DEF TruthInv
<1>7. RepliesRight'  BY <1>1, <1>3, RepliesKept DEF TruthInv
<1>8. QED  BY <1>4, <1>5, <1>6, <1>7 DEF TruthInv

(* A new host tells nothing to the clients of the old one.                 *)
LEMMA TruthReconnect ==
    ASSUME TypeInv, TruthInv, Reconnect
    PROVE  TruthInv'
<1>1. /\ req \in [Request -> Attempt] /\ UNCHANGED <<command, inbox>>
      /\ journal \in [Key -> {"absent", "started"} \cup Verdict]
  BY DEF TypeInv, TypeOK, Key, Reconnect
<1>2. \A q \in Request : \/ req'[q] = req[q]
                         \/ req'[q].key = req[q].key /\ req'[q].phase = "lost"
  BY <1>1 DEF Reconnect, Attempt
<1>3. \A k \in Key : journal'[k] = "completed" => journal[k] = "completed"
  BY <1>1, TerminatedTells DEF Reconnect
<1>4. OverKept  BY <1>1, <1>2 DEF OverKept
<1>5. UnsentHasNoCommand'
  BY <1>1, <1>2 DEF TruthInv, UnsentHasNoCommand, Unsent, Early
<1>6. AnswersRight'
  <2>1. \A q \in Request : req'[q].phase \in Told \cup {"found"} => req'[q] = req[q]
    BY <1>2 DEF Told
  <2>2. ASSUME NEW q \in Request, req'[q].phase \in Told \cup {"found"},
               req'[q].answer = "completed"
        PROVE  \E x \in Request : req'[x].key = req'[q].key /\ command'[x] = "executed"
    <3>1. Performed(req'[q].key)
      BY <2>1, <2>2 DEF TruthInv, AnswersRight
    <3>2. QED  BY <1>4, <3>1 DEF Performed, OverKept
  <2>3. ASSUME NEW q \in Request, req'[q].phase \in Told
        PROVE  /\ command'[q] \in Undenied => req'[q].answer # "not_started"
               /\ command'[q] \in Undecided => req'[q].answer = "unknown"
    BY <1>1, <2>1, <2>3 DEF TruthInv, AnswersRight
  <2>4. QED  BY <2>2, <2>3 DEF AnswersRight, Performed
<1>7. RecordsRight'  BY <1>3, <1>4, RecordsKept DEF TruthInv
<1>8. RepliesRight'  BY <1>1, <1>4, RepliesKept DEF TruthInv
<1>9. QED  BY <1>5, <1>6, <1>7, <1>8 DEF TruthInv

(* Staging, review and expiry of a stage.                                  *)
LEMMA TruthReview ==
    ASSUME TypeInv, TruthInv, NEW t \in Token,
           \/ ExtStages(t) \/ StoreStage(t) \/ ExtBinds(t) \/ ActCompletes(t)
           \/ ActFails(t) \/ HumanDecides(t) \/ HostApproves(t)
           \/ HostAbandons(t) \/ PopupEnds(t) \/ ExtExpires(t)
           \/ ExtDrops(t)
    PROVE  TruthInv'
<1>1. UNCHANGED <<req, command>>
  BY DEF ExtStages, StoreStage, ExtBinds, ActCompletes, ActFails, HumanDecides,
         HostApproves, HostAbandons, PopupEnds, ExtExpires, ExtDrops, hostVars, extVars
<1>2. OverKept  BY <1>1 DEF OverKept
<1>3. \A k \in Key : journal'[k] = "completed" => journal[k] = "completed"
  <2>1. journal \in [Key -> {"absent", "started"} \cup Verdict] /\ t \in Key
    BY DEF TypeInv, TypeOK, Key
  <2>2. UNCHANGED journal \/ \E v \in {"started", "unknown", "commit_required"} :
                                 journal' = [journal EXCEPT ![t] = v]
    BY DEF ExtStages, StoreStage, ExtBinds, ActCompletes, ActFails, HumanDecides,
           HostApproves, HostAbandons, PopupEnds, ExtExpires, ExtDrops, hostVars
  <2>3. QED  BY <2>1, <2>2
<1>4. RepliesRight'
  <2>1. CASE UNCHANGED inbox
    BY <1>2, <2>1, RepliesKept DEF TruthInv
  <2>2. CASE Post(<<StagedReply(t)>>) \/ Post(<<ExpiredEvent(t)>>)
    <3>1. /\ StagedReply(t) \in Message /\ ExpiredEvent(t) \in Message
          /\ RightAfter(StagedReply(t)) /\ RightAfter(ExpiredEvent(t))
      BY MessageTyped DEF RightAfter, StagedReply, ExpiredEvent
    <3>2. QED  BY <1>2, <2>2, <3>1, RepliedOnce DEF TruthInv
  <2>3. QED
    BY <2>1, <2>2 DEF ExtStages, StoreStage, ExtBinds, ActCompletes, ActFails,
                      HumanDecides, HostApproves, HostAbandons, PopupEnds, ExtExpires,
                      ExtDrops
<1>5. UnsentHasNoCommand' /\ AnswersRight'
  BY <1>1 DEF TruthInv, UnsentHasNoCommand, AnswersRight, Performed
<1>6. RecordsRight'  BY <1>2, <1>3, RecordsKept DEF TruthInv
<1>7. QED  BY <1>4, <1>5, <1>6 DEF TruthInv

LEMMA TruthInit == Init => TruthInv
<1> SUFFICES ASSUME Init PROVE TruthInv
  OBVIOUS
<1>1. UnsentHasNoCommand /\ AnswersRight
  BY DEF Init, UnsentHasNoCommand, AnswersRight, Told
<1>2. RecordsRight /\ RepliesRight
  BY DEF Init, RecordsRight, RepliesRight, Key
<1>3. QED  BY <1>1, <1>2 DEF TruthInv

LEMMA TruthStep ==
    ASSUME TypeInv, TruthInv, [Next]_vars
    PROVE  TruthInv'
<1>1. CASE UNCHANGED vars \/ Navigate \/ HostLearns \/ Tick
  <2>1. UNCHANGED <<journal, inbox, req, command>>
    BY <1>1 DEF vars, Navigate, HostLearns, Tick, hostVars, extVars
  <2>2. OverKept  BY <2>1 DEF OverKept
  <2>3. RepliesRight'  BY <2>1, <2>2, RepliesKept DEF TruthInv
  <2>4. UnsentHasNoCommand' /\ AnswersRight' /\ RecordsRight'
    BY <2>1 DEF TruthInv, UnsentHasNoCommand, AnswersRight, RecordsRight, Performed
  <2>5. QED  BY <2>3, <2>4 DEF TruthInv
<1>2. ASSUME NEW t \in Token,
             \/ ExtStages(t) \/ StoreStage(t) \/ ExtBinds(t) \/ ActCompletes(t)
             \/ ActFails(t) \/ HumanDecides(t) \/ HostApproves(t)
             \/ HostAbandons(t) \/ PopupEnds(t) \/ ExtExpires(t)
             \/ ExtDrops(t)
      PROVE  TruthInv'
  BY <1>2, TruthReview
<1>3. ASSUME NEW r \in Request,
             \/ Lookup(r) \/ Resolve(r) \/ Begin(r) \/ Consume(r)
             \/ OriginRefuses(r) \/ Send(r) \/ ExtChecks(r) \/ ExtRefuses(r)
             \/ ExtPerforms(r) \/ Timeout(r) \/ Finish(r) \/ Complete(r)
      PROVE  TruthInv'
  BY <1>3, TruthThread, TruthSend, TruthExtension
<1>4. ASSUME NEW r \in Request, NEW t \in Token,
             NEW k \in CommitKey \cup {t}, Submit(r, t, k)
      PROVE  TruthInv'
  BY <1>4, TruthSubmit
<1>5. CASE Receive \/ PortLost \/ Reconnect
  BY <1>5, TruthReceive, TruthPortLost, TruthReconnect
<1>6. QED  BY <1>1, <1>2, <1>3, <1>4, <1>5 DEF Next

(* The host denies no commit that the extension did not deny, through      *)
(* timeouts, lost answers, replays and ended keys, and completed is only   *)
(* answered for a key whose command executed (dispatch, complete_mutation, *)
(* resolve_staged_commit_replay).                                          *)
THEOREM CommitAnswersAreTheExtensions == Spec => []HostDeniesNoCommit
<1>1. Init => TypeInv /\ TruthInv  BY TypeInit, TruthInit
<1>2. TypeInv /\ TruthInv /\ [Next]_vars => TypeInv' /\ TruthInv'
  BY TypeStep, TruthStep
<1>3. TypeInv /\ TruthInv => HostDeniesNoCommit
  BY DEF TypeInv, TypeOK, TruthInv, AnswersRight, HostDeniesNoCommit, Performed,
         Told, Undenied, Undecided
<1>4. QED  BY <1>1, <1>2, <1>3, PTL DEF Spec

--------------------------------
(* A used row has an owner *)

Owning == {"consumed", "sent", "returned", "lost"}

Unstored == {"idle", "sent", "returned"}

(* The row of a stage is written once, after its act was answered.         *)
UnstoredHasNoRow ==
    \A t \in Token : act[t] \in Unstored => ~Staged(t) /\ ~row[t].used

OwnerInv == UnstoredHasNoRow /\ UsedRowHasOwner

(* A step that uses no row, and takes the row with the phase.              *)
RowsNotTaken ==
    \A t \in Token :
        /\ Staged(t)' /\ row'[t].used => Staged(t) /\ row[t].used /\ row'[t].key = row[t].key
        /\ row'[t].used => row[t].used
        /\ Staged(t)' => Staged(t)

ActsKept ==
    \A t \in Token : act'[t] \in Unstored => act[t] \in Unstored

OwnersKept ==
    \A r \in Request : req[r].phase \in Owning =>
        /\ req'[r].token = req[r].token /\ req'[r].key = req[r].key
        /\ req'[r].phase \in Owning \/ row'[req[r].token].state # "staged"

LEMMA OwnerKeeps ==
    ASSUME OwnerInv, RowsNotTaken, ActsKept, OwnersKept
    PROVE  OwnerInv'
<1>1. UnstoredHasNoRow'
  BY DEF OwnerInv, UnstoredHasNoRow, RowsNotTaken, ActsKept
<1>2. UsedRowHasOwner'
  <2> SUFFICES ASSUME NEW t \in Token, Staged(t)', row'[t].used
               PROVE  \E r \in Request :
                         /\ req'[r].token = t /\ req'[r].key = row'[t].key
                         /\ req'[r].phase \in Owning
    BY DEF UsedRowHasOwner, Owning
  <2>1. Staged(t) /\ row[t].used /\ row'[t].key = row[t].key
    BY DEF RowsNotTaken
  <2>2. PICK r \in Request : /\ req[r].token = t /\ req[r].key = row[t].key
                             /\ req[r].phase \in Owning
    BY <2>1 DEF OwnerInv, UsedRowHasOwner, Owning
  <2>3. row'[t].state = "staged"
    BY DEF Staged
  <2>4. QED  BY <2>1, <2>2, <2>3 DEF OwnersKept
<1>3. QED  BY <1>1, <1>2 DEF OwnerInv

LEMMA RemovalTakesNothing ==
    ASSUME TypeInv, NEW t \in Token, row' = Removed(t) \/ row' = row
    PROVE  RowsNotTaken /\ (row' = Removed(t) => row'[t].state # "staged")
<1>1. row \in [Token -> Row]
  BY DEF TypeInv, TypeOK
<1>2. row' = Removed(t) => /\ row'[t].state = "removed"
                           /\ \A x \in Token : /\ row'[x].used = row[x].used
                                               /\ row'[x].key = row[x].key
                                               /\ x # t => row'[x] = row[x]
  BY <1>1 DEF Removed, Row
<1>3. QED  BY <1>2 DEF RowsNotTaken, Staged

LEMMA OwnersMove ==
    ASSUME TypeInv, NEW r \in Request, NEW phase \in Phase, NEW v,
           MoveTo(r, phase) \/ (v \in Verdict /\ Conclude(r, phase, v)),
           req[r].phase \in Owning => phase \in Owning \/ row'[req[r].token].state # "staged"
    PROVE  OwnersKept
<1>1. req \in [Request -> Attempt]
  BY DEF TypeInv, TypeOK
<1>2. /\ \A q \in Request : q # r => req'[q] = req[q]
      /\ req'[r].phase = phase /\ req'[r].key = req[r].key
      /\ req'[r].token = req[r].token
  BY <1>1, MoveToTyped, ConcludeTyped
<1>3. QED  BY <1>2 DEF OwnersKept

(* Threads that use no approval.                                           *)
LEMMA OwnerThread ==
    ASSUME TypeInv, OwnerInv, NEW r \in Request,
           \/ Lookup(r) \/ Resolve(r) \/ Begin(r) \/ OriginRefuses(r)
           \/ Send(r) \/ Timeout(r) \/ Finish(r) \/ Complete(r)
    PROVE  OwnerInv'
<1>1. req[r].phase # "idle" /\ req[r].token \in Token /\ req[r].key \in Key
  BY DEF Lookup, Resolve, Begin, OriginRefuses, Send, Timeout, Finish, Complete,
         TypeInv, AttemptsOK
<1>2. ActsKept
  BY DEF Lookup, Resolve, Begin, OriginRefuses, Send, Timeout, Finish, Complete,
         ActsKept
<1>3. row' = Removed(req[r].token) \/ row' = row
  BY DEF Lookup, Resolve, Begin, OriginRefuses, Send, Timeout, Finish, Complete
<1>4. RowsNotTaken /\ (row' = Removed(req[r].token) => row'[req[r].token].state # "staged")
  BY <1>1, <1>3, RemovalTakesNothing
<1>5. journal[req[r].key] # "absent" => Recorded(req[r].key) \in Verdict
  <2>1. journal[req[r].key] \in {"absent", "started"} \cup Verdict
    BY <1>1 DEF TypeInv, TypeOK, Key
  <2>2. QED  BY <2>1 DEF Recorded, Verdict
<1>6. OwnersKept
  <2>1. CASE Lookup(r)
    BY <1>5, <2>1, OwnersMove DEF Lookup, Phase, Owning
  <2>2. CASE Resolve(r)
    BY <2>2, OwnersMove DEF Resolve, Phase, Owning, Verdict
  <2>3. CASE Begin(r)
    BY <1>5, <2>3, OwnersMove DEF Begin, Phase, Owning, Verdict
  <2>4. CASE OriginRefuses(r) \/ Finish(r)
    BY <1>4, <2>4, OwnersMove DEF OriginRefuses, Finish, Phase, Verdict
  <2>5. CASE Send(r) \/ Timeout(r)
    BY <2>5, OwnersMove DEF Send, Timeout, Phase, Owning, Verdict
  <2>6. CASE Complete(r)
    <3>1. req[r].answer \in Verdict /\ req[r].phase \notin Owning
      BY <2>6 DEF Complete, TypeInv, AttemptsOK, Owning
    <3>2. \E v \in Verdict : Conclude(r, "answered", v)
      BY <2>6, <3>1 DEF Complete, Verdict
    <3>3. QED  BY <3>1, <3>2, OwnersMove DEF Phase
  <2>7. QED  BY <2>1, <2>2, <2>3, <2>4, <2>5, <2>6
<1>7. QED  BY <1>2, <1>4, <1>6, OwnerKeeps

(* The thread that uses a row owns it.                                     *)
LEMMA OwnerConsume ==
    ASSUME TypeInv, OwnerInv, NEW r \in Request, Consume(r)
    PROVE  OwnerInv'
<1> DEFINE t == req[r].token
<1>1. /\ t \in Token /\ req[r].phase = "begun" /\ req[r].key \in CommitKey
      /\ UNCHANGED act
  BY DEF Consume, TypeInv, AttemptsOK, ActsOK
<1>2. row \in [Token -> Row] /\ req \in [Request -> Attempt]
  BY DEF TypeInv, TypeOK
<1>3. ActsKept  BY <1>1 DEF ActsKept
<1>4. CASE /\ row' = Removed(t) \/ row' = row
           /\ \E v \in Verdict : Conclude(r, "replied", v)
  <2>1. OwnersKept
    BY <1>1, <1>4, OwnersMove DEF Phase, Owning
  <2>2. QED  BY <1>1, <1>3, <1>4, <2>1, RemovalTakesNothing, OwnerKeeps
<1>5. CASE /\ Consumable(t) /\ MoveTo(r, "consumed")
           /\ row' = [row EXCEPT ![t].used = TRUE, ![t].key = req[r].key]
  <2>1. /\ row'[t].key = req[r].key
        /\ \A x \in Token : x # t => row'[x] = row[x]
        /\ \A x \in Token : row'[x].state = row[x].state
    BY <1>1, <1>2, <1>5 DEF Row
  <2>2. /\ \A q \in Request : q # r => req'[q] = req[q]
        /\ req'[r].phase = "consumed" /\ req'[r].key = req[r].key
        /\ req'[r].token = t
    BY <1>2, <1>5, MoveToTyped DEF Phase
  <2>3. UnstoredHasNoRow'
    <3>1. act[t] \notin Unstored
      BY <1>1, <1>5 DEF Consumable, OwnerInv, UnstoredHasNoRow
    <3>2. QED  BY <1>1, <2>1, <3>1 DEF OwnerInv, UnstoredHasNoRow, Staged
  <2>4. UsedRowHasOwner'
    <3> SUFFICES ASSUME NEW x \in Token, Staged(x)', row'[x].used
                 PROVE  \E q \in Request :
                           /\ req'[q].token = x /\ req'[q].key = row'[x].key
                           /\ req'[q].phase \in Owning
      BY DEF UsedRowHasOwner, Owning
    <3>1. CASE x = t
      BY <2>1, <2>2, <3>1 DEF Owning
    <3>2. CASE x # t
      <4>1. PICK q \in Request : /\ req[q].token = x /\ req[q].key = row[x].key
                                 /\ req[q].phase \in Owning
        BY <2>1, <3>2 DEF OwnerInv, UsedRowHasOwner, Owning, Staged
      <4>2. QED  BY <1>1, <2>1, <2>2, <3>2, <4>1 DEF Owning
    <3>3. QED  BY <3>1, <3>2
  <2>5. QED  BY <2>3, <2>4 DEF OwnerInv
<1>6. QED  BY <1>4, <1>5 DEF Consume, Verdict

(* Steps about one stage.                                                  *)
LEMMA OwnerReview ==
    ASSUME TypeInv, OwnerInv, NEW t \in Token,
           \/ ExtStages(t) \/ StoreStage(t) \/ ExtBinds(t) \/ ActCompletes(t)
           \/ ActFails(t) \/ HumanDecides(t) \/ HostApproves(t)
           \/ HostAbandons(t) \/ PopupEnds(t) \/ ExtExpires(t)
           \/ ExtDrops(t)
    PROVE  OwnerInv'
<1>1. row \in [Token -> Row] /\ act \in [Token -> ActState]
  BY DEF TypeInv, TypeOK, ActState
<1>2. UNCHANGED req
  BY DEF ExtStages, StoreStage, ExtBinds, ActCompletes, ActFails,
         HumanDecides, HostApproves, HostAbandons, PopupEnds,
         ExtExpires, ExtDrops, hostVars
<1>3. OwnersKept
  BY <1>2 DEF OwnersKept
<1>4. ActsKept
  <2>1. \/ UNCHANGED act
        \/ act[t] = "idle" /\ act' = [act EXCEPT ![t] = "sent"]
        \/ \E a \in {"binding", "failed", "bound", "done"} : act' = [act EXCEPT ![t] = a]
    BY DEF ExtStages, StoreStage, ExtBinds, ActCompletes, ActFails,
           HumanDecides, HostApproves, HostAbandons, PopupEnds,
           ExtExpires, ExtDrops, hostVars
  <2>2. QED  BY <1>1, <2>1 DEF ActsKept, Unstored
<1>5. CASE row' = Removed(t) \/ row' = row
  BY <1>3, <1>4, <1>5, RemovalTakesNothing, OwnerKeeps
<1>6. CASE HostApproves(t) /\ row' = [row EXCEPT ![t].approved = TRUE]
  <2>1. \A x \in Token : /\ row'[x].used = row[x].used /\ row'[x].key = row[x].key
                         /\ row'[x].state = row[x].state
    BY <1>1, <1>6 DEF Row
  <2>2. RowsNotTaken
    BY <2>1 DEF RowsNotTaken, Staged
  <2>3. QED  BY <1>3, <1>4, <2>2, OwnerKeeps
<1>7. CASE /\ act[t] = "returned" /\ row' = [row EXCEPT ![t].state = "staged"]
           /\ act' = [act EXCEPT ![t] = "binding"]
  <2>1. /\ \A x \in Token : x # t => row'[x] = row[x] /\ act'[x] = act[x]
        /\ row'[t].used = row[t].used /\ act'[t] = "binding"
    BY <1>1, <1>7 DEF Row
  <2>2. ~row[t].used
    BY <1>7 DEF OwnerInv, UnstoredHasNoRow, Unstored
  <2>3. UnstoredHasNoRow'
    BY <2>1 DEF OwnerInv, UnstoredHasNoRow, Unstored, Staged
  <2>4. UsedRowHasOwner'
    BY <1>2, <2>1, <2>2 DEF OwnerInv, UsedRowHasOwner, Staged
  <2>5. QED  BY <2>3, <2>4 DEF OwnerInv
<1>8. QED
  BY <1>5, <1>6, <1>7 DEF ExtStages, StoreStage, ExtBinds, ActCompletes, ActFails,
         HumanDecides, HostApproves, HostAbandons, PopupEnds,
         ExtExpires, ExtDrops, hostVars

LEMMA OwnerReceive ==
    ASSUME TypeInv, OwnerInv, Receive
    PROVE  OwnerInv'
<1> DEFINE m == Head(inbox)
<1>1. /\ inbox \in Seq(Message) /\ inbox # <<>> /\ act \in [Token -> ActState]
      /\ req \in [Request -> Attempt]
  BY DEF TypeInv, TypeOK, ActState, Receive
<1>2. m \in Message
  BY <1>1
<1>3. CASE m.kind = "staged"
  <2>1. UNCHANGED <<row, req>> /\ act' = IF act[m.of] = "sent"
                                         THEN [act EXCEPT ![m.of] = "returned"] ELSE act
    BY <1>3 DEF Receive
  <2>2. ActsKept
    BY <1>1, <2>1 DEF ActsKept, Unstored
  <2>3. RowsNotTaken /\ OwnersKept
    BY <2>1 DEF RowsNotTaken, OwnersKept, Staged
  <2>4. QED  BY <2>2, <2>3, OwnerKeeps
<1>4. CASE m.kind = "reply"
  <2>1. m.of \in Request /\ m.verdict \in Verdict /\ UNCHANGED <<row, act>>
    BY <1>2, <1>4 DEF Message, Receive
  <2>2. UNCHANGED req \/ Conclude(m.of, "returned", m.verdict)
    BY <1>4 DEF Receive, Conclude
  <2>3. OwnersKept
    <3>1. CASE UNCHANGED req  BY <3>1 DEF OwnersKept
    <3>2. ASSUME NEW r \in Request, NEW v \in Verdict, Conclude(r, "returned", v)
          PROVE  OwnersKept
      BY <3>2, OwnersMove DEF Phase, Owning
    <3>3. QED  BY <2>1, <2>2, <3>1, <3>2
  <2>4. RowsNotTaken /\ ActsKept
    BY <2>1 DEF RowsNotTaken, ActsKept, Staged
  <2>5. QED  BY <2>3, <2>4, OwnerKeeps
<1>5. CASE m.kind = "expired"
  <2>1. /\ m.of \in Token /\ UNCHANGED <<act, req>>
        /\ row' = Removed(m.of) \/ row' = row
    BY <1>2, <1>5 DEF Message, Receive
  <2>2. RowsNotTaken
    <3>1. \A t \in Token : row' = Removed(t) \/ row' = row => RowsNotTaken
      BY RemovalTakesNothing
    <3>2. QED  BY <2>1, <3>1
  <2>3. ActsKept /\ OwnersKept
    BY <2>1 DEF ActsKept, OwnersKept
  <2>4. QED  BY <2>2, <2>3, OwnerKeeps
<1>6. QED  BY <1>3, <1>4, <1>5 DEF Receive

LEMMA OwnerRestart ==
    ASSUME TypeInv, OwnerInv, PortLost \/ Reconnect
    PROVE  OwnerInv'
<1>1. /\ row \in [Token -> Row] /\ act \in [Token -> ActState]
      /\ req \in [Request -> Attempt]
  BY DEF TypeInv, TypeOK, ActState
<1>2. RowsNotTaken
  BY <1>1 DEF PortLost, Reconnect, RowsNotTaken, Staged, Row
<1>3. ActsKept
  BY <1>1 DEF PortLost, Reconnect, ActsKept, Unstored, hostVars
<1>4. OwnersKept
  BY <1>1 DEF PortLost, Reconnect, OwnersKept, Owning, Attempt
<1>5. QED  BY <1>2, <1>3, <1>4, OwnerKeeps

LEMMA OwnerStep ==
    ASSUME TypeInv, OwnerInv, [Next]_vars
    PROVE  OwnerInv'
<1>1. CASE \/ UNCHANGED vars \/ Navigate \/ HostLearns \/ Tick
           \/ \E r \in Request : ExtChecks(r) \/ ExtRefuses(r) \/ ExtPerforms(r)
  <2>1. UNCHANGED <<row, act, req>>
    BY <1>1 DEF vars, Navigate, HostLearns, Tick, ExtChecks, ExtRefuses,
                ExtPerforms, hostVars
  <2>2. RowsNotTaken /\ ActsKept /\ OwnersKept
    BY <2>1 DEF RowsNotTaken, ActsKept, OwnersKept, Staged
  <2>3. QED  BY <2>2, OwnerKeeps
<1>2. ASSUME NEW t \in Token,
             \/ ExtStages(t) \/ StoreStage(t) \/ ExtBinds(t) \/ ActCompletes(t)
             \/ ActFails(t) \/ HumanDecides(t) \/ HostApproves(t)
             \/ HostAbandons(t) \/ PopupEnds(t) \/ ExtExpires(t)
             \/ ExtDrops(t)
      PROVE  OwnerInv'
  BY <1>2, OwnerReview
<1>3. ASSUME NEW r \in Request,
             \/ Lookup(r) \/ Resolve(r) \/ Begin(r) \/ Consume(r)
             \/ OriginRefuses(r) \/ Send(r) \/ Timeout(r) \/ Finish(r) \/ Complete(r)
      PROVE  OwnerInv'
  BY <1>3, OwnerThread, OwnerConsume
<1>4. ASSUME NEW r \in Request, NEW t \in Token,
             NEW k \in CommitKey \cup {t}, Submit(r, t, k)
      PROVE  OwnerInv'
  <2>1. /\ UNCHANGED <<row, act>> /\ req[r].phase = "idle"
        /\ \A q \in Request : q # r => req'[q] = req[q]
    BY <1>4 DEF Submit, TypeInv, TypeOK
  <2>2. RowsNotTaken /\ ActsKept /\ OwnersKept
    BY <2>1 DEF RowsNotTaken, ActsKept, OwnersKept, Staged, Owning
  <2>3. QED  BY <2>2, OwnerKeeps
<1>5. CASE Receive \/ PortLost \/ Reconnect
  BY <1>5, OwnerReceive, OwnerRestart
<1>6. QED  BY <1>1, <1>2, <1>3, <1>4, <1>5 DEF Next

(* A used row that is still there belongs to a thread that is at work on   *)
(* it, or was when its host died: no timeout, refusal or lost answer       *)
(* leaves one behind (finish_staged_commit).                               *)
THEOREM UsedRowsOwned == Spec => []UsedRowHasOwner
<1>1. Init => TypeInv /\ OwnerInv
  BY TypeInit DEF Init, OwnerInv, UnstoredHasNoRow, UsedRowHasOwner, Staged
<1>2. TypeInv /\ OwnerInv /\ [Next]_vars => TypeInv' /\ OwnerInv'
  BY TypeStep, OwnerStep
<1>3. TypeInv /\ OwnerInv => UsedRowHasOwner
  BY DEF OwnerInv
<1>4. QED  BY <1>1, <1>2, <1>3, PTL DEF Spec

================================
