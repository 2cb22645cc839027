---- MODULE StagedCommits ----
(***************************************************************************)
(* Reviewed actions: a browser_act stops before a consequential action and *)
(* stages it in the extension and in the host (store_staged_commit); a     *)
(* human approves it in the popup; a browser_commit consumes the approval  *)
(* and sends the action to the extension.  One task with one tab; a stage  *)
(* is named by its token, and so is the idempotency key of its browser_act.*)
(* browser_commit takes the host-wide global lock.                         *)
(*                                                                         *)
(* Retention of journal rows (seven days) is far beyond the life of a      *)
(* stage (five minutes): rows are never purged here.                       *)
(***************************************************************************)
EXTENDS Naturals, Sequences

CONSTANTS
    Token,        \* stages
    CommitKey,    \* idempotency keys of browser_commit requests
    Request,      \* requests that clients send
    None,         \* absence of a value
    StageLife,    \* lifetime of a stage
    MaxClock,     \* bound: the clock stops here
    MaxRevision,  \* bound: page revisions
    MaxLosses     \* bound: lost native ports

ASSUME StagesAssumption ==
    /\ StageLife \in Nat /\ MaxClock \in Nat /\ MaxRevision \in Nat
    /\ MaxLosses \in Nat
    /\ Token \cap CommitKey = {}
    /\ None \notin Token \cup CommitKey \cup Request \cup Nat

VARIABLES
    now,
    page,     \* revision of the tab in the extension
    known,    \* its revision in the host, None when the task does not own it
    linked,   \* the native port is up
    losses,
    inbox,    \* extension -> host messages, in order
    stage,    \* token -> the stage in the extension's storage
    row,      \* token -> staged_commits row (durable)
    journal,  \* key -> idempotency_journal row (durable)
    act,      \* token -> where its browser_act thread is in dispatch
    popup,    \* token -> the review event under way
    req,      \* request -> where its thread is
    command,  \* request -> its commit in the extension
    human     \* history: tokens a human approved

hostVars == <<row, journal, act, req>>
extVars == <<page, stage, command>>
vars == <<now, page, known, linked, losses, inbox, stage, row, journal, act,
          popup, req, command, human>>

Verdict == {"completed", "not_started", "unknown", "commit_required"}

Stage == [state : {"none", "held", "bound", "approved", "gone"},
          revision : Nat, expiry : Nat]

Row == [state : {"absent", "staged", "removed"}, approved : BOOLEAN,
        used : BOOLEAN, key : CommitKey \cup {None}]

Message ==
    [kind : {"reply"}, of : Request, verdict : Verdict]
    \cup [kind : {"staged", "expired"}, of : Token]

Attempt == [phase : {"idle", "received", "found", "queued", "begun",
                     "consumed", "sent", "returned", "replied",
                     "answered", "lost"},
            key : CommitKey \cup Token \cup {None}, token : Token \cup {None},
            answer : Verdict \cup {None}]

Init ==
    /\ now = 0 /\ page = 0 /\ known = 0 /\ linked = TRUE /\ losses = 0
    /\ inbox = <<>>
    /\ stage = [t \in Token |-> [state |-> "none", revision |-> 0, expiry |-> 0]]
    /\ row = [t \in Token |-> [state |-> "absent", approved |-> FALSE,
                               used |-> FALSE, key |-> None]]
    /\ journal = [k \in CommitKey \cup Token |-> "absent"]
    /\ act = [t \in Token |-> "idle"]
    /\ popup = [t \in Token |-> "none"]
    /\ req = [r \in Request |-> [phase |-> "idle", key |-> None, token |-> None,
                                 answer |-> None]]
    /\ command = [r \in Request |-> "none"]
    /\ human = {}

--------------------------------
(* Helpers *)

Held(t) == stage[t].state \in {"held", "bound", "approved"}
Staged(t) == row[t].state = "staged"
Expired(t) == stage[t].expiry <= now
RowExpired(t) == Staged(t) /\ Expired(t)

(* staged_binding_revision *)
BindingHolds(t) == known = stage[t].revision

Removed(t) == [row EXCEPT ![t].state = "removed"]
SetStage(t, state) == stage' = [stage EXCEPT ![t].state = state]

(* The extension posts to the port while it is up. *)
Post(msgs) == inbox' = IF linked THEN inbox \o msgs ELSE inbox
Reply(r, verdict) == [kind |-> "reply", of |-> r, verdict |-> verdict]
StagedReply(t) == [kind |-> "staged", of |-> t]
ExpiredEvent(t) == [kind |-> "expired", of |-> t]

(* replace_terminal_mutation, whatever the state of the row. *)
Terminated(keys) ==
    [k \in CommitKey \cup Token |->
        IF k \in keys /\ journal[k] # "absent" THEN "not_started" ELSE journal[k]]

(* A row that was only started reads as unknown. *)
Recorded(k) == IF journal[k] = "started" THEN "unknown" ELSE journal[k]

ConsumedBy(t) == {row[t].key} \ {None}

MoveTo(r, phase) == req' = [req EXCEPT ![r].phase = phase]
Conclude(r, phase, verdict) ==
    req' = [req EXCEPT ![r].phase = phase, ![r].answer = verdict]

--------------------------------
(* browser_act that stages: dispatch, store_staged_commit, review binding *)

(* The extension stages the action and answers the batch with it. *)
ExtStages(t) ==
    /\ act[t] = "idle" /\ linked
    /\ journal' = [journal EXCEPT ![t] = "started"]
    /\ act' = [act EXCEPT ![t] = "sent"]
    /\ stage' = [stage EXCEPT ![t] = [state |-> "held", revision |-> page,
                                      expiry |-> now + StageLife]]
    /\ Post(<<StagedReply(t)>>)
    /\ UNCHANGED <<now, page, known, linked, losses, row, popup, req, command,
                   human>>

(* store_staged_commit; a stage that expired or whose page moved on is     *)
(* reported as unknown.                                                    *)
StoreStage(t) ==
    /\ act[t] = "returned"
    /\ \/ /\ ~Expired(t) /\ BindingHolds(t)
          /\ row' = [row EXCEPT ![t].state = "staged"]
          /\ act' = [act EXCEPT ![t] = "binding"]
          /\ UNCHANGED journal
       \/ /\ Expired(t) \/ ~BindingHolds(t)
          /\ journal' = [journal EXCEPT ![t] = "unknown"]
          /\ act' = [act EXCEPT ![t] = "failed"]
          /\ UNCHANGED row
    /\ UNCHANGED <<now, known, linked, losses, inbox, extVars, popup, req,
                   human>>

(* commit_review_bind in the extension. *)
ExtBinds(t) ==
    /\ act[t] = "binding" /\ linked
    /\ stage[t].state = "held"
    /\ SetStage(t, "bound")
    /\ act' = [act EXCEPT ![t] = "bound"]
    /\ UNCHANGED <<now, page, known, linked, losses, inbox, row, journal,
                   popup, req, command, human>>

ActCompletes(t) ==
    /\ act[t] = "bound"
    /\ journal' = [journal EXCEPT ![t] = "commit_required"]
    /\ act' = [act EXCEPT ![t] = "done"]
    /\ UNCHANGED <<now, known, linked, losses, inbox, extVars, row, popup,
                   req, human>>

(* No answer to the act, or to the binding: the row goes unless a commit   *)
(* consumed it, and the extension is told to drop the stage.               *)
ActFails(t) ==
    /\ act[t] \in {"sent", "binding", "bound"}
    /\ journal' = [journal EXCEPT ![t] = "unknown"]
    /\ act' = [act EXCEPT ![t] = "failed"]
    /\ IF act[t] = "sent"
       THEN UNCHANGED <<row, stage>>
       ELSE /\ row' = IF Staged(t) /\ ~row[t].used THEN Removed(t) ELSE row
            /\ \/ UNCHANGED stage
               \/ linked /\ Held(t) /\ SetStage(t, "gone")
    /\ UNCHANGED <<now, page, known, linked, losses, inbox, popup, req,
                   command, human>>

--------------------------------
(* Review in the popup: an event with a fresh id, handled on a host thread *)

HumanDecides(t) ==
    /\ stage[t].state = "bound" /\ popup[t] = "none" /\ linked
    /\ \/ popup' = [popup EXCEPT ![t] = "approving"] /\ human' = human \cup {t}
       \/ popup' = [popup EXCEPT ![t] = "abandoning"] /\ UNCHANGED human
    /\ UNCHANGED <<now, known, linked, losses, inbox, extVars, hostVars>>

(* approve_popup_staged_commit; when it fails the row is abandoned, unless *)
(* a commit already used it.                                               *)
HostApproves(t) ==
    /\ popup[t] = "approving"
    /\ \/ /\ Staged(t) /\ ~row[t].used /\ ~Expired(t) /\ BindingHolds(t)
          /\ row' = [row EXCEPT ![t].approved = TRUE]
          /\ popup' = [popup EXCEPT ![t] = "accepted"]
       \/ /\ ~Staged(t) \/ row[t].used \/ Expired(t) \/ ~BindingHolds(t)
          /\ row' = IF Staged(t) /\ ~row[t].used THEN Removed(t) ELSE row
          /\ popup' = [popup EXCEPT ![t] = "refused"]
    /\ UNCHANGED <<now, known, linked, losses, inbox, extVars, journal, act,
                   req, human>>

(* abandon_popup_staged_commit *)
HostAbandons(t) ==
    /\ popup[t] = "abandoning"
    /\ row' = IF Staged(t) /\ ~row[t].used THEN Removed(t) ELSE row
    /\ popup' = [popup EXCEPT ![t] = "refused"]
    /\ UNCHANGED <<now, known, linked, losses, inbox, extVars, journal, act,
                   req, human>>

(* The acknowledgement: only an accepted approval leaves a stage behind.   *)
(* Without one (30 s, or the port is lost) the review stays on offer.      *)
PopupEnds(t) ==
    /\ popup[t] # "none"
    /\ popup' = [popup EXCEPT ![t] = "none"]
    /\ \/ UNCHANGED stage
       \/ /\ linked /\ stage[t].state = "bound"
          /\ \/ popup[t] = "accepted" /\ SetStage(t, "approved")
             \/ popup[t] = "refused" /\ SetStage(t, "gone")
    /\ UNCHANGED <<now, page, known, linked, losses, inbox, hostVars, command,
                   human>>

--------------------------------
(* browser_commit *)

(* A client that was given the token commits it, or repeats its act. *)
Submit(r, t, k) ==
    /\ req[r].phase = "idle"
    /\ \/ k \in CommitKey /\ act[t] = "done"
       \/ k = t /\ act[t] # "idle"
    /\ \A q \in Request : req[q].key = k => req[q].token = t
    /\ req' = [req EXCEPT ![r] = [phase |-> "received", key |-> k, token |-> t,
                                  answer |-> None]]
    /\ UNCHANGED <<now, known, linked, losses, inbox, extVars, row, journal,
                   act, popup, human>>

(* lookup_mutation *)
Lookup(r) ==
    LET k == req[r].key IN
    /\ req[r].phase = "received"
    /\ \/ journal[k] = "absent" /\ MoveTo(r, "queued")
       \/ journal[k] # "absent" /\ Conclude(r, "found", Recorded(k))
    /\ UNCHANGED <<now, known, linked, losses, inbox, extVars, row, journal,
                   act, popup, human>>

(* resolve_staged_commit_replay for a repeated commit, and for a repeated  *)
(* act whose recorded answer holds a staged token: an expired stage ends   *)
(* the repeated key and the key that consumed it; an act whose stage is    *)
(* used or gone is ended too.                                              *)
Resolve(r) ==
    LET k == req[r].key
        t == req[r].token
        ended == k = t /\ (~Staged(t) \/ row[t].used)
        resolves == k # t \/ req[r].answer = "commit_required"
    IN
    /\ req[r].phase = "found"
    /\ \/ /\ resolves /\ RowExpired(t)
          /\ journal' = Terminated(ConsumedBy(t) \cup {k})
          /\ row' = Removed(t)
          /\ Conclude(r, "answered", "not_started")
       \/ /\ resolves /\ ~RowExpired(t) /\ ended
          /\ journal' = Terminated({k})
          /\ Conclude(r, "answered", "not_started")
          /\ UNCHANGED row
       \/ /\ ~resolves \/ (~RowExpired(t) /\ ~ended)
          /\ MoveTo(r, "answered")
          /\ UNCHANGED <<row, journal>>
    /\ UNCHANGED <<now, known, linked, losses, inbox, extVars, act, popup,
                   human>>

Working == {r \in Request : req[r].phase \in {"begun", "consumed", "sent",
                                              "returned", "replied"}}

(* Mutant: the started row is not written. *)
BeginUnrecorded(r) ==
    /\ req[r].phase = "queued" /\ Working = {}
    /\ linked /\ MoveTo(r, "begun")
    /\ UNCHANGED <<now, known, linked, losses, inbox, extVars, row, journal,
                   act, popup, human>>

(* The global lock, admission, and begin_mutation. *)
Begin(r) ==
    LET k == req[r].key IN
    /\ req[r].phase = "queued" /\ Working = {}
    /\ \/ /\ linked /\ journal[k] = "absent"
          /\ journal' = [journal EXCEPT ![k] = "started"]
          /\ MoveTo(r, "begun")
       \/ /\ ~linked
          /\ Conclude(r, "answered", "not_started")
          /\ UNCHANGED journal
       \/ /\ linked /\ journal[k] # "absent"
          /\ Conclude(r, "answered", Recorded(k))
          /\ UNCHANGED journal
    /\ UNCHANGED <<now, known, linked, losses, inbox, extVars, row, act,
                   popup, human>>

(* Mutant: the approval is not looked at. *)
ConsumableUnapproved(t) ==
    Staged(t) /\ ~Expired(t) /\ ~row[t].used /\ BindingHolds(t)

(* Mutant: a used row can be used again. *)
ConsumableAgain(t) ==
    Staged(t) /\ ~Expired(t) /\ row[t].approved /\ BindingHolds(t)

(* consume_staged_commit *)
Consumable(t) ==
    /\ Staged(t) /\ ~Expired(t) /\ ~row[t].used /\ row[t].approved
    /\ BindingHolds(t)

(* dispatch up to the native command: consume the approval, then check the *)
(* tab's origin, which may end the attempt and the stage.  An expired row  *)
(* ends this key and the one that consumed it.                             *)
Consume(r) ==
    LET t == req[r].token IN
    /\ req[r].phase = "begun"
    /\ \/ /\ Consumable(t)
          /\ row' = [row EXCEPT ![t].used = TRUE, ![t].key = req[r].key]
          /\ MoveTo(r, "consumed")
          /\ UNCHANGED journal
       \/ /\ RowExpired(t)
          /\ journal' = Terminated(ConsumedBy(t) \cup {req[r].key})
          /\ row' = Removed(t)
          /\ Conclude(r, "replied", "not_started")
       \/ /\ Staged(t) /\ ~Expired(t) /\ ~row[t].used /\ ~row[t].approved
          /\ Conclude(r, "replied", "commit_required")
          /\ UNCHANGED <<row, journal>>
       \/ /\ ~RowExpired(t) /\ ~Consumable(t)
          /\ ~Staged(t) \/ row[t].used \/ row[t].approved
          /\ Conclude(r, "replied", "not_started")
          /\ UNCHANGED <<row, journal>>
    /\ UNCHANGED <<now, known, linked, losses, inbox, extVars, act, popup,
                   human>>

OriginRefuses(r) ==
    /\ req[r].phase = "consumed"
    /\ row' = Removed(req[r].token)
    /\ Conclude(r, "replied", "not_started")
    /\ UNCHANGED <<now, known, linked, losses, inbox, extVars, journal, act,
                   popup, human>>

(* The command is written to the port; a failed write is unknown. *)
Send(r) ==
    /\ req[r].phase = "consumed"
    /\ \/ /\ linked
          /\ command' = [command EXCEPT ![r] = "queued"]
          /\ MoveTo(r, "sent")
       \/ /\ Conclude(r, "returned", "unknown")
          /\ UNCHANGED command
    /\ UNCHANGED <<now, page, known, linked, losses, inbox, stage, row,
                   journal, act, popup, human>>

(* commit() in the extension: everything that can refuse, then the stage   *)
(* is deleted and the action performed.  Others may drop the stage between *)
(* the checks and the action.                                              *)
ExtChecks(r) ==
    LET t == req[r].token IN
    /\ command[r] = "queued"
    /\ Held(t) /\ ~Expired(t) /\ page = stage[t].revision
    /\ command' = [command EXCEPT ![r] = "checked"]
    /\ UNCHANGED <<now, page, known, linked, losses, inbox, stage, hostVars,
                   popup, human>>

ExtRefuses(r) ==
    LET t == req[r].token IN
    /\ command[r] = "queued"
    /\ command' = [command EXCEPT ![r] = "refused"]
    /\ \/ /\ ~Held(t)
          /\ Post(<<Reply(r, "not_started")>>)
          /\ UNCHANGED stage
       \/ /\ Held(t) /\ Expired(t)
          /\ SetStage(t, "gone")
          /\ Post(<<ExpiredEvent(t), Reply(r, "not_started")>>)
       \/ /\ Held(t) /\ ~Expired(t) /\ page # stage[t].revision
          /\ Post(<<Reply(r, "not_started")>>)
          /\ UNCHANGED stage
       \/ /\ Held(t) /\ ~Expired(t) /\ page = stage[t].revision
          /\ SetStage(t, "gone")
          /\ Post(<<Reply(r, "not_started")>>)
    /\ UNCHANGED <<now, page, known, linked, losses, hostVars, popup, human>>

(* An action whose page is lost before its result is stale_ref, which      *)
(* errorOutcome turns into not_started: the extension denies what it did.  *)
ExtPerforms(r) ==
    LET t == req[r].token IN
    /\ command[r] = "checked"
    /\ SetStage(t, "gone")
    /\ \/ /\ command' = [command EXCEPT ![r] = "executed"]
          /\ \E verdict \in {"completed", "unknown"} : Post(<<Reply(r, verdict)>>)
       \/ /\ command' = [command EXCEPT ![r] = "denied"]
          /\ Post(<<Reply(r, "not_started")>>)
    /\ UNCHANGED <<now, page, known, linked, losses, hostVars, popup, human>>

(* The native reader handles the extension's messages in order; an answer  *)
(* nobody waits for any more is dropped.                                   *)
Receive ==
    /\ inbox # <<>> /\ linked
    /\ inbox' = Tail(inbox)
    /\ LET msg == Head(inbox)  x == msg.of IN
       \/ /\ msg.kind = "staged"
          /\ act' = IF act[x] = "sent" THEN [act EXCEPT ![x] = "returned"]
                    ELSE act
          /\ UNCHANGED <<row, journal, req>>
       \/ /\ msg.kind = "reply"
          /\ req' = IF req[x].phase = "sent"
                    THEN [req EXCEPT ![x].phase = "returned",
                                     ![x].answer = msg.verdict]
                    ELSE req
          /\ UNCHANGED <<row, journal, act>>
       \/ /\ msg.kind = "expired"
          /\ IF Staged(x)
             THEN journal' = Terminated(ConsumedBy(x)) /\ row' = Removed(x)
             ELSE UNCHANGED <<row, journal>>
          /\ UNCHANGED <<act, req>>
    /\ UNCHANGED <<now, known, linked, losses, extVars, popup, human>>

(* Mutant: a timeout leaves the answer unset. *)
TimeoutSilent(r) ==
    /\ req[r].phase = "sent"
    /\ MoveTo(r, "returned")
    /\ UNCHANGED <<now, known, linked, losses, inbox, extVars, row, journal,
                   act, popup, human>>

(* Mutant: a timeout is reported as not started. *)
TimeoutNotStarted(r) ==
    /\ req[r].phase = "sent"
    /\ Conclude(r, "returned", "not_started")
    /\ UNCHANGED <<now, known, linked, losses, inbox, extVars, row, journal,
                   act, popup, human>>

Timeout(r) ==
    /\ req[r].phase = "sent"
    /\ Conclude(r, "returned", "unknown")
    /\ UNCHANGED <<now, known, linked, losses, inbox, extVars, row, journal,
                   act, popup, human>>

(* finish_staged_commit: whatever the answer, the stage is over. *)
Finish(r) ==
    /\ req[r].phase = "returned"
    /\ MoveTo(r, "replied")
    /\ row' = Removed(req[r].token)
    /\ UNCHANGED <<now, known, linked, losses, inbox, extVars, journal, act,
                   popup, human>>

(* The audit record, which can fail, and complete_mutation, which finds no *)
(* started row when the key was ended meanwhile.                           *)
Complete(r) ==
    LET k == req[r].key IN
    /\ req[r].phase = "replied"
    /\ \E verdict \in {req[r].answer, "unknown"} :
        \/ /\ journal[k] = "started"
           /\ journal' = [journal EXCEPT ![k] = verdict]
           /\ Conclude(r, "answered", verdict)
        \/ /\ journal[k] # "started"
           /\ Conclude(r, "answered", "unknown")
           /\ UNCHANGED journal
    /\ UNCHANGED <<now, known, linked, losses, inbox, extVars, row, act,
                   popup, human>>

--------------------------------
(* Time, the page, and the native port *)

(* The expiry alarm. *)
ExtExpires(t) ==
    /\ Held(t) /\ Expired(t)
    /\ SetStage(t, "gone")
    /\ Post(<<ExpiredEvent(t)>>)
    /\ UNCHANGED <<now, page, known, linked, losses, hostVars, command, popup,
                   human>>

Discarded(stages) ==
    [t \in Token |-> IF stages[t].state \in {"held", "bound", "approved"}
                     THEN [stages[t] EXCEPT !.state = "gone"] ELSE stages[t]]

(* The extension drops a stage and the host is not told: review mode was   *)
(* turned off, or the dialog the stage is about has closed.                *)
ExtDrops(t) ==
    /\ Held(t)
    /\ SetStage(t, "gone")
    /\ UNCHANGED <<now, page, known, linked, losses, inbox, hostVars, command,
                   popup, human>>

Navigate ==
    /\ page < MaxRevision
    /\ page' = page + 1
    /\ UNCHANGED <<now, known, linked, losses, inbox, stage, hostVars, command,
                   popup, human>>

(* An inventory: the tab's revision, or the task no longer owns it. *)
HostLearns ==
    /\ linked
    /\ known' \in {page, None} \ {known}
    /\ UNCHANGED <<now, linked, losses, inbox, extVars, hostVars, popup, human>>

(* The port goes down.  Either the worker lives on and drops its stages,   *)
(* or it died with the commits under way.  The reader abandons the unused  *)
(* rows, unless the host died first; until it exits its threads run on.    *)
PortLost ==
    /\ linked /\ losses < MaxLosses
    /\ linked' = FALSE /\ losses' = losses + 1
    /\ inbox' = <<>>
    /\ \/ UNCHANGED row
       \/ row' = [t \in Token |-> IF Staged(t) /\ ~row[t].used
                                  THEN [row[t] EXCEPT !.state = "removed"]
                                  ELSE row[t]]
    /\ \/ stage' = Discarded(stage) /\ UNCHANGED command
       \/ /\ command' = [r \in Request |-> IF command[r] \in {"queued", "checked"}
                                           THEN "dropped" ELSE command[r]]
          /\ UNCHANGED stage
    /\ UNCHANGED <<now, page, known, journal, act, popup, req, human>>

(* A new host: the threads of the old one are lost.  It reconciles its     *)
(* rows with the stages of the hello; its ready names none to discard, and *)
(* the extension drops them all.                                           *)
Reconnect ==
    LET over == {t \in Token : RowExpired(t)}
        orphans == {t \in Token : Staged(t) /\ ~row[t].used /\ ~Held(t)}
    IN
    /\ ~linked
    /\ linked' = TRUE /\ known' = page
    /\ act' = [t \in Token |-> IF act[t] \in {"sent", "returned", "binding", "bound"}
                               THEN "lost" ELSE act[t]]
    /\ req' = [r \in Request |->
                 IF req[r].phase \in {"idle", "answered"} THEN req[r]
                 ELSE [req[r] EXCEPT !.phase = "lost"]]
    /\ popup' = [t \in Token |-> "none"]
    /\ journal' = Terminated(UNION {ConsumedBy(t) : t \in over})
    /\ row' = [t \in Token |-> IF t \in over \cup orphans
                               THEN [row[t] EXCEPT !.state = "removed"] ELSE row[t]]
    /\ stage' = Discarded(stage)
    /\ UNCHANGED <<now, page, losses, inbox, command, human>>

Tick ==
    /\ now < MaxClock
    /\ now' = now + 1
    /\ UNCHANGED <<page, known, linked, losses, inbox, stage, hostVars,
                   command, popup, human>>

--------------------------------
Next ==
    \/ \E t \in Token :
          \/ ExtStages(t) \/ StoreStage(t) \/ ExtBinds(t) \/ ActCompletes(t)
          \/ ActFails(t) \/ HumanDecides(t) \/ HostApproves(t)
          \/ HostAbandons(t) \/ PopupEnds(t) \/ ExtExpires(t)
          \/ ExtDrops(t)
    \/ \E r \in Request, t \in Token : \E k \in CommitKey \cup {t} : Submit(r, t, k)
    \/ \E r \in Request :
          \/ Lookup(r) \/ Resolve(r) \/ Begin(r) \/ Consume(r)
          \/ OriginRefuses(r) \/ Send(r) \/ ExtChecks(r) \/ ExtRefuses(r)
          \/ ExtPerforms(r) \/ Timeout(r) \/ Finish(r) \/ Complete(r)
    \/ Receive \/ Navigate \/ HostLearns
    \/ PortLost \/ Reconnect \/ Tick

Spec == Init /\ [][Next]_vars

--------------------------------
(* Properties *)

(* Every variable has its type. *)
TypeOK ==
    /\ now \in 0..MaxClock /\ page \in 0..MaxRevision
    /\ known \in 0..MaxRevision \cup {None}
    /\ linked \in BOOLEAN /\ losses \in 0..MaxLosses
    /\ inbox \in Seq(Message)
    /\ stage \in [Token -> Stage] /\ row \in [Token -> Row]
    /\ journal \in [CommitKey \cup Token -> {"absent", "started"} \cup Verdict]
    /\ act \in [Token -> {"idle", "sent", "returned", "binding", "bound",
                          "done", "failed", "lost"}]
    /\ popup \in [Token -> {"none", "approving", "abandoning", "accepted",
                            "refused"}]
    /\ req \in [Request -> Attempt]
    /\ command \in [Request -> {"none", "queued", "checked", "refused",
                                "executed", "denied", "dropped"}]
    /\ human \subseteq Token

(* The row is removed when the commit is over and kept by a crash: still   *)
(* at most one browser_commit per stage reaches the extension, with any    *)
(* number of keys, retries and restarts (consume_staged_commit's used).    *)
OneUse ==
    \A r, q \in Request :
        /\ command[r] # "none" /\ command[q] # "none"
        /\ req[r].token = req[q].token
        => r = q

(* The extension does not look at the approval: that no staged action runs *)
(* without a human's rests on the host consuming approved rows only.       *)
ExecutedWasApproved ==
    \A r \in Request :
        command[r] \in {"executed", "denied"} => req[r].token \in human

(* The host denies no commit on its own: an attempt is answered            *)
(* not_started only if its command was never sent or the extension itself  *)
(* said so, though it timed out, lost its answer or had its key ended      *)
(* meanwhile; completed is only answered for a key one of whose attempts   *)
(* executed.                                                               *)
HostDeniesNoCommit ==
    \A r \in Request : req[r].phase = "answered" =>
        /\ req[r].answer = "not_started" => command[r] \in {"none", "refused", "denied"}
        /\ req[r].answer = "completed" =>
              \E q \in Request : req[q].key = req[r].key /\ command[q] = "executed"

(* reconcile_staged_commits, expire_staged_commit and the replays end the  *)
(* key that consumed a row, and fail (the host with them) when that key    *)
(* has no journal row.                                                     *)
ConsumedKeyJournaled ==
    \A t \in Token : Staged(t) /\ row[t].key # None => journal[row[t].key] # "absent"

(* A used row outlives its commit only if the host died under it: no       *)
(* timeout, refusal or lost answer leaves one behind, where it would hold  *)
(* off the closing of its task.                                            *)
UsedRowHasOwner ==
    \A t \in Token : Staged(t) /\ row[t].used =>
        \E r \in Request :
            /\ req[r].token = t /\ req[r].key = row[t].key
            /\ req[r].phase \in {"consumed", "sent", "returned", "lost"}

(* What the documents say of not_started ("The operation did not begin"),  *)
(* and of a key found started after a crash (unknown, not replayed): no    *)
(* key is answered not_started although its command executed.  The replays *)
(* of an expired stage and reconcile_staged_commits do.                    *)
NotStartedMeansNoEffect ==
    \A r, q \in Request :
        /\ req[r].phase = "answered" /\ req[r].answer = "not_started"
        /\ req[r].key = req[q].key
        => command[q] \notin {"executed", "denied"}
================================
