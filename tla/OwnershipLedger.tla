---- MODULE OwnershipLedger ----
(* The extension's ledger of owned tabs (ownership.ts): which task owns which *)
(* Chrome tab, in which tab group, and which tabs it may close when it ends.  *)
(* Operations queue on a BoundedChain and take one await at a time, between   *)
(* which the user moves and closes tabs; one that overruns its hold goes on   *)
(* beside its successors.  Tab events come through the startup queue, one at  *)
(* a time, and the service worker may be stopped at any await.                *)
EXTENDS Integers, Sequences

CONSTANTS Task, Tab, Op, None,
          MaxGroups,        \* tab groups Chrome creates
          MaxTouches,       \* things the user and pages do to tabs
          MaxCommands,      \* operations asked for by clients, popup and pages
          MaxFaults         \* overruns and restarts, together

ASSUME OwnershipAssumption ==
    /\ MaxGroups \in Nat
    /\ None \notin Tab \cup Task \cup Op

NoGroup == 0
Group == 1..MaxGroups

VARIABLES
    tab,         \* Chrome: each tab's state, group and who opened it
    nextGroup,   \* Chrome: the next group id
    events,      \* Chrome: tab events the startup queue has not handled
    ledger,      \* chrome.storage: the task records (tasks)
    staged,      \* chrome.storage: tasks with a staged commit (stagedCommits)
    policy,      \* chrome.storage: cleanupPolicy
    ended,       \* memory: endedTaskIds
    call,        \* memory: the operations in flight
    chain,       \* memory: the transitions chain, its holder first
    publisher,   \* memory: the operation at the head of inventoryTail
    host,        \* the inventory the host got last
    touches, commands, overruns, restarts, touched, letGo, ambiguous, closedForTask

chromeVars == <<tab, nextGroup, events, touches, touched>>
stored == <<ledger, staged, policy>>
ghosts == <<letGo, ambiguous, closedForTask>>
faults == <<commands, overruns, restarts>>
vars == <<chromeVars, stored, ended, call, chain, publisher, host, faults, ghosts>>

--------------------------------
NoTask == [group |-> NoGroup, tabs |-> {}, created |-> {}, known |-> FALSE]

Idle == [kind |-> "idle", pc |-> "idle", task |-> None, tab |-> None,
         parent |-> None, event |-> FALSE, group |-> NoGroup, was |-> NoGroup,
         seen |-> NoTask, keep |-> {}, doomed |-> {}, pairs |-> {}, then |-> "done"]

(* The task that owns a tab, if any, in the ledger l. *)
Owners(l, t) == {k \in Task : t \in l[k].tabs}
Owned(t) == Owners(ledger, t) # {}
OwnerOf(t) == CHOOSE k \in Owners(ledger, t) : TRUE

IsOpen(t) == t \in Tab /\ tab[t].state = "open"
InGroup(t, g) == IsOpen(t) /\ g # NoGroup /\ tab[t].group = g
GroupExists(g) == \E t \in Tab : InGroup(t, g)

(* Ownership is unambiguous: a tab has one task, a group has one task, and *)
(* a task with tabs has a group.                                           *)
Unambiguous(l) ==
    /\ \A j, k \in Task : j # k => l[j].tabs \cap l[k].tabs = {}
    /\ \A k \in Task : l[k].group = NoGroup => l[k].tabs = {}
    /\ \A j, k \in Task : j # k /\ l[j].group # NoGroup => l[j].group # l[k].group

(* The rules parseState checks of every state to be stored. *)
WellFormed(l) ==
    Unambiguous(l) /\ \A k \in Task : l[k].created \subseteq l[k].tabs

(* A tab, or several, leave a task's record. *)
Without(record, ts) ==
    LET left == record.tabs \ ts IN
    [record EXCEPT !.tabs = left, !.created = @ \ ts,
                   !.group = IF left = {} THEN NoGroup ELSE @]

--------------------------------
Init ==
    /\ tab = [t \in Tab |-> [state |-> "new", group |-> NoGroup, by |-> "user"]]
    /\ nextGroup = 1 /\ events = <<>>
    /\ ledger = [k \in Task |-> NoTask] /\ staged = {}
    /\ policy = "automatic" /\ ended = {}
    /\ call = [o \in Op |-> Idle] /\ chain = <<>> /\ publisher = None
    /\ host = {} /\ touches = 0 /\ commands = 0 /\ overruns = 0 /\ restarts = 0
    /\ touched = {} /\ letGo = {} /\ ambiguous = FALSE /\ closedForTask = {}

--------------------------------
(* Chrome and the user *)

Touch == touches < MaxTouches /\ touches' = touches + 1

(* A second onUpdated of a tab while one is pending adds nothing: the handler *)
(* asks Chrome where the tab is.                                              *)
Raised(kind, t, p) ==
    LET e == [kind |-> kind, tab |-> t, parent |-> p] IN
    IF kind = "moved" /\ \E i \in 1..Len(events) : events[i] = e
    THEN events ELSE Append(events, e)
Raise(kind, t, p) == events' = Raised(kind, t, p)

(* Chrome opens a new tab, or closes the tabs ts. *)
Opens(t, by) ==
    /\ tab[t].state = "new"
    /\ tab' = [tab EXCEPT ![t] = [state |-> "open", group |-> NoGroup, by |-> by]]
Closes(ts) ==
    tab' = [t \in Tab |-> IF t \in ts
                            THEN [state |-> "closed", group |-> NoGroup, by |-> tab[t].by]
                            ELSE tab[t]]

(* What Chrome tells when the user takes a tab from its group: the tab is  *)
(* updated or removed, and a group without tabs is removed as well, which  *)
(* has the ledger reconciled.                                              *)
Leaves(kind, t) ==
    LET alone == \A u \in Tab \ {t} : ~InGroup(u, tab[t].group)
        gone == alone /\ \E k \in Task : ledger[k].group # NoGroup
                                           /\ ledger[k].group = tab[t].group
        e == [kind |-> "reconcile", tab |-> None, parent |-> None]
    IN
    events' = Raised(kind, t, None) \o IF gone THEN <<e>> ELSE <<>>

UserOpens(t) ==
    /\ Touch /\ Opens(t, "user")
    /\ UNCHANGED <<nextGroup, events, touched, stored, ended, call, chain, publisher, host,
                   faults, ghosts>>

(* A page in tab p opens a tab: onCreated with its opener. *)
PageOpens(t, p) ==
    /\ Touch /\ IsOpen(p) /\ Opens(t, "child")
    /\ Raise("child", t, p)
    /\ UNCHANGED <<nextGroup, touched, stored, ended, call, chain, publisher, host,
                   faults, ghosts>>

(* The user drags a tab into or out of a group: onUpdated with groupId. *)
UserMoves(t, g) ==
    /\ Touch /\ IsOpen(t) /\ tab[t].group # g
    /\ g = NoGroup \/ GroupExists(g)
    /\ tab' = [tab EXCEPT ![t].group = g]
    /\ touched' = touched \cup {t}
    /\ Leaves("moved", t)
    /\ UNCHANGED <<nextGroup, stored, ended, call, chain, publisher, host, faults, ghosts>>

UserCloses(t) ==
    /\ Touch /\ IsOpen(t)
    /\ Closes({t})
    /\ touched' = touched \cup {t}
    /\ Leaves("removed", t)
    /\ UNCHANGED <<nextGroup, stored, ended, call, chain, publisher, host, faults, ghosts>>

(* The popup sets the cleanup policy; a command stages a commit of a task. *)
SetPolicy(p) ==
    /\ Touch /\ policy # p /\ policy' = p
    /\ UNCHANGED <<tab, nextGroup, events, touched, ledger, staged, ended, call, chain,
                   publisher, host, faults, ghosts>>

Stage(k) ==
    /\ Touch /\ k \notin staged /\ staged' = staged \cup {k}
    /\ UNCHANGED <<tab, nextGroup, events, touched, ledger, policy, ended, call, chain,
                   publisher, host, faults, ghosts>>

--------------------------------
(* The transitions chain *)

(* Operation o steps to pc with the fields of its record changed. *)
Goto(o, c, pc) == call' = [call EXCEPT ![o] = [c EXCEPT !.pc = pc]]
Finished(o) ==
    /\ call' = [call EXCEPT ![o] = Idle]
    /\ chain' = IF chain # <<>> /\ Head(chain) = o THEN Tail(chain) ELSE chain
OnChain(o) == \E i \in 1..Len(chain) : chain[i] = o

Submitted(o, c) ==
    /\ call[o].pc = "idle"
    /\ call' = [call EXCEPT ![o] = [c EXCEPT !.pc = "queued"]]
    /\ chain' = Append(chain, o)

(* A client, the popup or a page (through its tab p) asks for an operation. *)
Submit(o, kind, k, t, p) ==
    /\ commands < MaxCommands /\ commands' = commands + 1
    /\ Submitted(o, [Idle EXCEPT !.kind = kind, !.task = k, !.tab = t, !.parent = p])
    /\ UNCHANGED <<chromeVars, stored, ended, publisher, host, overruns, restarts, ghosts>>

(* The startup queue hands the next tab event to the ledger, when the one  *)
(* before is over.                                                         *)
Deliver(o) ==
    /\ events # <<>> /\ \A p \in Op : ~call[p].event
    /\ LET e == Head(events) IN
       Submitted(o, [Idle EXCEPT !.kind = e.kind, !.tab = e.tab,
                                 !.parent = e.parent, !.event = TRUE])
    /\ events' = Tail(events)
    /\ UNCHANGED <<tab, nextGroup, touches, touched, stored, ended, publisher, host,
                   faults, ghosts>>

(* The hold of a running operation ends; its successor may begin. *)
Overrun ==
    /\ overruns + restarts < MaxFaults /\ Len(chain) > 1
    /\ ~(call[Head(chain)].pc = "queued")
    /\ chain' = Tail(chain) /\ overruns' = overruns + 1
    /\ UNCHANGED <<chromeVars, stored, ended, call, publisher, host, commands, restarts,
                   ghosts>>

Starts(o, kind) ==
    chain # <<>> /\ Head(chain) = o /\ call[o].pc = "queued" /\ call[o].kind = kind

At(o, pc) == call[o].pc = pc
Quietly == UNCHANGED <<chromeVars, ghosts, faults>>

(* A ledger is stored, or letGo for what parseState finds in it. *)
Stored(l) ==
    /\ ledger' = IF WellFormed(l) THEN l ELSE ledger
    /\ ambiguous' = (ambiguous \/ ~Unambiguous(l))

--------------------------------
(* assertOwned, also the first half of adopting a child of an owned tab *)

Subject(c) == IF c.parent = None THEN c.tab ELSE c.parent

(* The ledger is read; for a child, to find the task of its parent. *)
AssertBegin(o) ==
    LET c == call[o]
        k == IF c.kind = "assert" THEN c.task
             ELSE IF Owned(c.parent) THEN OwnerOf(c.parent) ELSE None
        held == k # None /\ Subject(c) \in ledger[k].tabs
    IN
    /\ \E kind \in {"assert", "child", "request"} : Starts(o, kind)
    /\ IF held THEN /\ Goto(o, [c EXCEPT !.task = k, !.seen = ledger[k]], "check")
                    /\ UNCHANGED chain
               ELSE Finished(o)
    /\ Quietly /\ UNCHANGED <<stored, ended, publisher, host>>

(* Chrome is asked; a tab that left its group is revoked. *)
AssertCheck(o) ==
    LET c == call[o] IN
    /\ At(o, "check")
    /\ IF InGroup(Subject(c), c.seen.group)
       THEN Goto(o, c, "recheck")
       ELSE Goto(o, [c EXCEPT !.then = "done"], "revoke")
    /\ Quietly /\ UNCHANGED <<stored, ended, chain, publisher, host>>

StillOwned(k, t, record) ==
    /\ t \in ledger[k].tabs /\ ledger[k].group = record.group
    /\ Owners(ledger, t) = {k}

(* The ledger is read again.  A child that is in another group is left     *)
(* alone; a tab the page asked for is created; either is then granted.     *)
AssertRecheck(o) ==
    LET c == call[o] IN
    /\ At(o, "recheck")
    /\ IF ~StillOwned(c.task, Subject(c), c.seen) \/ c.kind = "assert"
       THEN Finished(o) /\ UNCHANGED <<tab, events>>
       ELSE IF c.kind = "child"
       THEN /\ IF /\ IsOpen(c.tab) /\ IsOpen(c.parent)
                  /\ tab[c.tab].group \in {NoGroup, c.seen.group}
               THEN Goto(o, c, "look") /\ UNCHANGED chain
               ELSE Finished(o)
            /\ UNCHANGED <<tab, events>>
       ELSE \E t \in Tab :
            /\ Opens(t, "agent")
            /\ Raise("child", t, c.parent)
            /\ Goto(o, [c EXCEPT !.tab = t], "look") /\ UNCHANGED chain
    /\ UNCHANGED <<nextGroup, touches, touched, stored, ended, publisher, host,
                   faults, ghosts>>

--------------------------------
(* open and adoptActive, and the grant they share with children *)

(* A tab is created for the task. *)
OpenBegin(o, t) ==
    /\ Starts(o, "open") /\ Opens(t, "agent")
    /\ Goto(o, [call[o] EXCEPT !.tab = t], "look")
    /\ UNCHANGED <<nextGroup, events, touches, touched, stored, ended, chain, publisher,
                   host, faults, ghosts>>

(* The user's active tab is taken. *)
AdoptBegin(o, t) ==
    /\ Starts(o, "adopt") /\ IsOpen(t)
    /\ Goto(o, [call[o] EXCEPT !.tab = t], "look")
    /\ Quietly /\ UNCHANGED <<stored, ended, chain, publisher, host>>

(* Whether the grant makes the tab one the task may close. *)
Makes(c) == c.kind # "adopt"

(* Mutant: the tab made for a grant that failed stays. *)
FailsOpen(o, c) == Finished(o)

(* Where a grant that fails goes: a tab made for it is closed again. *)
Fails(o, c) ==
    IF c.kind \in {"open", "request"} THEN Goto(o, c, "discard") /\ UNCHANGED chain
                                      ELSE Finished(o)

(* The tab and its owner are looked at. *)
GrantLook(o) ==
    LET c == call[o]
        k == IF Owned(c.tab) THEN OwnerOf(c.tab) ELSE None
    IN
    /\ At(o, "look")
    /\ \/ /\ ~IsOpen(c.tab) \/ k \notin {None, c.task}
          /\ Fails(o, c)
       \/ /\ IsOpen(c.tab) /\ k = c.task /\ InGroup(c.tab, ledger[k].group)
          /\ IF Makes(c) /\ c.tab \notin ledger[k].created
             THEN Goto(o, c, "mark") /\ UNCHANGED chain
             ELSE Finished(o)
       \/ /\ IsOpen(c.tab) /\ k = c.task /\ ~InGroup(c.tab, ledger[k].group)
          /\ Goto(o, [c EXCEPT !.was = tab[c.tab].group, !.then = "group"], "revoke")
          /\ UNCHANGED chain
       \/ /\ IsOpen(c.tab) /\ k = None
          /\ Goto(o, [c EXCEPT !.was = tab[c.tab].group], "group") /\ UNCHANGED chain
    /\ Quietly /\ UNCHANGED <<stored, ended, publisher, host>>

(* A tab of the task becomes one it may close. *)
GrantMark(o) ==
    LET c == call[o]
        marked == [ledger EXCEPT ![c.task].created = @ \cup {c.tab}]
    IN
    /\ At(o, "mark")
    /\ Stored(IF ledger[c.task].known THEN marked ELSE ledger)
    /\ IF ledger[c.task].known /\ ~WellFormed(marked) THEN Fails(o, c) ELSE Finished(o)
    /\ UNCHANGED <<chromeVars, staged, policy, ended, publisher, host, faults, letGo,
                   closedForTask>>

(* The tab is put into the group of the task, or into a new one. *)
GrantGroup(o) ==
    LET c == call[o]
        g == IF ledger[c.task].group = NoGroup THEN nextGroup ELSE ledger[c.task].group
    IN
    /\ At(o, "group") /\ nextGroup <= MaxGroups
    /\ IF IsOpen(c.tab) /\ (g = nextGroup \/ GroupExists(g))
       THEN /\ tab' = [tab EXCEPT ![c.tab].group = g]
            /\ nextGroup' = IF g = nextGroup THEN g + 1 ELSE nextGroup
            /\ Raise("moved", c.tab, None)
            /\ Goto(o, [c EXCEPT !.group = g, !.seen = ledger[c.task]], "verify")
       ELSE Goto(o, c, "undo") /\ UNCHANGED <<tab, nextGroup, events>>
    /\ UNCHANGED <<touches, touched, stored, ended, chain, publisher, host, faults, ghosts>>

(* Chrome is asked whether the tab is where it was put. *)
GrantVerify(o) ==
    LET c == call[o] IN
    /\ At(o, "verify")
    /\ Goto(o, c, IF InGroup(c.tab, c.group) THEN "record" ELSE "undo")
    /\ Quietly /\ UNCHANGED <<stored, ended, chain, publisher, host>>

(* Mutant: a task that ended meanwhile gets a new record. *)
RecordableLate(c) == Owners(ledger, c.tab) \subseteq {c.task}

(* The checks of the record: nobody else took the tab, and the task has not *)
(* ended meanwhile.                                                         *)
Recordable(c) ==
    /\ Owners(ledger, c.tab) \subseteq {c.task}
    /\ ledger[c.task].known \/ c.task \notin ended

(* The ownership is recorded. *)
GrantRecord(o) ==
    LET c == call[o]
        base == IF ledger[c.task].known THEN ledger[c.task] ELSE c.seen
        record == [known |-> TRUE, group |-> c.group, tabs |-> base.tabs \cup {c.tab},
                   created |-> base.created \cup IF Makes(c) THEN {c.tab} ELSE {}]
        recorded == [ledger EXCEPT ![c.task] = record]
    IN
    /\ At(o, "record")
    /\ IF Recordable(c)
       THEN /\ Stored(recorded)
            /\ Goto(o, [c EXCEPT !.then = "done"],
                    IF WellFormed(recorded) THEN "publish" ELSE "undo")
       ELSE Goto(o, c, "undo") /\ UNCHANGED <<ledger, ambiguous>>
    /\ UNCHANGED <<chromeVars, staged, policy, ended, chain, publisher, host, faults,
                   letGo, closedForTask>>

(* The tab goes back to where it was. *)
GrantUndo(o) ==
    LET c == call[o]
        back == IF c.was = NoGroup \/ GroupExists(c.was) THEN c.was ELSE tab[c.tab].group
    IN
    /\ At(o, "undo")
    /\ tab' = IF IsOpen(c.tab) THEN [tab EXCEPT ![c.tab].group = back] ELSE tab
    /\ events' = IF tab' = tab THEN events ELSE Raised("moved", c.tab, None)
    /\ Fails(o, c)
    /\ UNCHANGED <<nextGroup, touches, touched, stored, ended, publisher, host, faults,
                   ghosts>>

(* A tab made for a grant that failed is closed. *)
Discard(o) ==
    /\ At(o, "discard")
    /\ Closes({call[o].tab})
    /\ events' = IF IsOpen(call[o].tab) THEN Raised("removed", call[o].tab, None) ELSE events
    /\ Finished(o)
    /\ UNCHANGED <<nextGroup, touches, touched, stored, ended, publisher, host, faults,
                   ghosts>>

--------------------------------
(* revoke, revokeIfMoved and reconcile *)

RevokeBegin(o) ==
    /\ Starts(o, "removed")
    /\ Goto(o, call[o], "revoke")
    /\ Quietly /\ UNCHANGED <<stored, ended, chain, publisher, host>>

(* revokeIfMoved reads the owner and its group ... *)
MovedBegin(o) ==
    LET c == call[o] IN
    /\ Starts(o, "moved")
    /\ IF Owned(c.tab)
       THEN Goto(o, [c EXCEPT !.group = ledger[OwnerOf(c.tab)].group], "where")
            /\ UNCHANGED chain
       ELSE Finished(o)
    /\ Quietly /\ UNCHANGED <<stored, ended, publisher, host>>

(* ... and asks Chrome where the tab is. *)
MovedWhere(o) ==
    LET c == call[o] IN
    /\ At(o, "where")
    /\ IF InGroup(c.tab, c.group) THEN Finished(o)
                                  ELSE Goto(o, c, "revoke") /\ UNCHANGED chain
    /\ Quietly /\ UNCHANGED <<stored, ended, publisher, host>>

(* revokeNow: the tab leaves the record of its task. *)
Revoke(o) ==
    LET c == call[o]
        t == IF At(o, "revoke") /\ c.then = "group" THEN c.tab ELSE Subject(c)
    IN
    /\ At(o, "revoke")
    /\ Stored([k \in Task |-> IF t \in ledger[k].tabs THEN Without(ledger[k], {t})
                                                      ELSE ledger[k]])
    /\ IF Owned(t) THEN Goto(o, c, "publish") /\ UNCHANGED chain
       ELSE IF c.then = "group" THEN Goto(o, c, "group") /\ UNCHANGED chain
       ELSE Finished(o)
    /\ UNCHANGED <<chromeVars, staged, policy, ended, publisher, host, faults, letGo,
                   closedForTask>>

(* reconcile asks Chrome for every tab ... *)
ReconcileBegin(o) ==
    /\ Starts(o, "reconcile")
    /\ Goto(o, [call[o] EXCEPT !.pairs = {<<t, tab[t].group>> : t \in {u \in Tab : IsOpen(u)}}],
            "sweep")
    /\ Quietly /\ UNCHANGED <<stored, ended, chain, publisher, host>>

(* ... and takes those that are not in their group out of the ledger. *)
Sweep(o) ==
    LET c == call[o]
        lost(k) == {t \in ledger[k].tabs : <<t, ledger[k].group>> \notin c.pairs}
    IN
    /\ At(o, "sweep")
    /\ Stored([k \in Task |-> IF lost(k) = {} THEN ledger[k]
                                              ELSE Without(ledger[k], lost(k))])
    /\ Goto(o, [c EXCEPT !.pairs = {}], "publish")
    /\ UNCHANGED <<chromeVars, staged, policy, ended, chain, publisher, host, faults,
                   letGo, closedForTask>>

--------------------------------
(* finishTask ("auto", "keep", or "finish" for close) and closeTask ("close") *)

EndKinds == {"auto", "keep", "finish", "close"}

(* Mutant: an automatic end keeps only what it is told to keep. *)
KeptAsked(c, record, asked) ==
    IF c.kind = "keep" \/ (c.kind = "auto" /\ policy = "keep") THEN record.tabs ELSE asked

(* The tabs the task keeps: all, or those it was asked to keep and, in an *)
(* automatic end, those it did not create.                               *)
Kept(c, record, asked) ==
    IF c.kind = "keep" \/ (c.kind = "auto" /\ policy = "keep") THEN record.tabs
    ELSE asked \cup (IF c.kind = "auto" THEN record.tabs \ record.created ELSE {})

(* keepTabIds: a list that names a tab of another task is refused, as     *)
(* None here; closeTask has no list.                                      *)
KeepLists(c, record) ==
    IF c.kind = "close" \/ ~record.known THEN {{}} ELSE {None} \cup SUBSET record.tabs

(* The record is read.  A review, or a user to be asked, defers the end;  *)
(* closeTask drops stages even when there is no record.                   *)
EndBegin(o) ==
    LET c == call[o]
        record == ledger[c.task]
        deferred == c.kind # "close" /\ (c.task \in staged
                      \/ (record.known /\ c.kind = "auto" /\ policy = "ask"))
    IN
    /\ \E kind \in EndKinds : Starts(o, kind)
    /\ \E asked \in KeepLists(c, record) :
       IF deferred \/ asked = None \/ ~record.known
       THEN /\ Finished(o)
            /\ ended' = IF deferred \/ asked = None THEN ended ELSE ended \cup {c.task}
            /\ staged' = IF c.kind = "close" THEN staged \ {c.task} ELSE staged
       ELSE /\ Goto(o, [c EXCEPT !.seen = record, !.keep = Kept(c, record, asked)],
                    IF c.kind = "close" THEN "forget" ELSE "classify")
            /\ UNCHANGED <<chain, ended, staged>>
    /\ Quietly /\ UNCHANGED <<ledger, policy, publisher, host>>

(* finishTask asks where each tab is: one that left the group is kept. *)
Classify(o) ==
    LET c == call[o] IN
    /\ At(o, "classify")
    /\ Goto(o, [c EXCEPT !.keep = {t \in c.seen.tabs : IsOpen(t)
                                      /\ (t \in @ \/ ~InGroup(t, c.seen.group))},
                         !.doomed = {t \in c.seen.tabs \ c.keep :
                                        InGroup(t, c.seen.group)}], "forget")
    /\ Quietly /\ UNCHANGED <<stored, ended, chain, publisher, host>>

(* The record and the stages are deleted.  closeTask takes the tabs from   *)
(* the record it deletes, finishTask from the one it read.                 *)
Forget(o) ==
    LET c == call[o] IN
    /\ At(o, "forget")
    /\ Stored([ledger EXCEPT ![c.task] = NoTask])
    /\ ended' = ended \cup {c.task} /\ staged' = staged \ {c.task}
    /\ Goto(o, IF c.kind = "close" THEN [c EXCEPT !.doomed = ledger[c.task].tabs] ELSE c,
            "release")
    /\ UNCHANGED <<chromeVars, policy, chain, publisher, host, faults, letGo,
                   closedForTask>>

(* Kept tabs leave the group; of the others, those still in it will go. *)
Release(o) ==
    LET c == call[o]
        leaving == {t \in c.keep : InGroup(t, c.seen.group)}
    IN
    /\ At(o, "release")
    /\ tab' = [t \in Tab |-> IF t \in leaving THEN [tab[t] EXCEPT !.group = NoGroup]
                                              ELSE tab[t]]
    /\ Goto(o, [c EXCEPT !.doomed = {t \in @ : InGroup(t, c.seen.group)}], "remove")
    /\ letGo' = letGo \cup c.keep
    /\ UNCHANGED <<nextGroup, events, touches, touched, stored, ended, chain, publisher,
                   host, faults, ambiguous, closedForTask>>

(* removeTabs: Chrome closes some at once; a page may hold the others open *)
(* with its leave prompt, and Chrome may refuse.                           *)
Remove(o) ==
    LET c == call[o] IN
    /\ At(o, "remove")
    /\ \E held \in SUBSET {t \in c.doomed : IsOpen(t)} :
          /\ Closes(c.doomed \ held)
          /\ letGo' = letGo \cup held
    /\ closedForTask' = IF c.kind = "auto" THEN closedForTask \cup c.doomed
                        ELSE closedForTask
    /\ Goto(o, [c EXCEPT !.then = "done", !.doomed = {}, !.keep = {}], "publish")
    /\ UNCHANGED <<nextGroup, events, touches, touched, stored, ended, chain, publisher,
                   host, faults, ambiguous>>

--------------------------------
(* emitInventory: publications run one after the other *)

(* onUpdated with a new address publishes beside the chain. *)
Announce(o) ==
    /\ call[o].pc = "idle" /\ \E t \in Tab : Owned(t)
    /\ commands < MaxCommands /\ commands' = commands + 1
    /\ Goto(o, [Idle EXCEPT !.kind = "announce"], "publish")
    /\ UNCHANGED <<chromeVars, stored, ended, chain, publisher, host, overruns, restarts,
                   ghosts>>

(* Mutant: publications do not wait for one another. *)
PublishReadAtOnce(o) ==
    /\ At(o, "publish")
    /\ publisher' = o
    /\ Goto(o, [call[o] EXCEPT !.pairs = {p \in Task \X Tab : p[2] \in ledger[p[1]].tabs},
                               !.keep = {<<k, ledger[k].group>> : k \in Task}], "send")
    /\ Quietly /\ UNCHANGED <<stored, ended, chain, host>>

(* The ledger is read ... *)
PublishRead(o) ==
    /\ At(o, "publish") /\ publisher = None
    /\ publisher' = o
    /\ Goto(o, [call[o] EXCEPT !.pairs = {p \in Task \X Tab : p[2] \in ledger[p[1]].tabs},
                               !.keep = {<<k, ledger[k].group>> : k \in Task}], "send")
    /\ Quietly /\ UNCHANGED <<stored, ended, chain, host>>

(* ... and compared with the tabs of Chrome, then sent. *)
PublishSend(o) ==
    LET c == call[o] IN
    /\ At(o, "send")
    /\ host' = {p \in c.pairs : \E g \in Group : <<p[1], g>> \in c.keep /\ InGroup(p[2], g)}
    /\ publisher' = None
    /\ IF c.then = "group"
       THEN Goto(o, [c EXCEPT !.pairs = {}, !.keep = {}], "group") /\ UNCHANGED chain
       ELSE Finished(o)
    /\ Quietly /\ UNCHANGED <<stored, ended>>

--------------------------------
(* Chrome stops the service worker; the next event starts it and reconciles *)
(* before anything else.                                                    *)
Restart ==
    /\ overruns + restarts < MaxFaults /\ restarts' = restarts + 1
    /\ ended' = {} /\ publisher' = None
    /\ \E o \in Op :
          /\ call' = [p \in Op |-> IF p = o THEN [Idle EXCEPT !.kind = "reconcile",
                                                             !.pc = "queued"]
                                            ELSE Idle]
          /\ chain' = <<o>>
    /\ UNCHANGED <<chromeVars, stored, host, commands, overruns, ghosts>>

--------------------------------
Commands ==
    \E o \in Op :
        \/ \E k \in Task : \/ Submit(o, "open", k, None, None)
                           \/ Submit(o, "adopt", k, None, None)
                           \/ \E t \in ledger[k].tabs : Submit(o, "assert", k, t, None)
                           \/ \E kind \in EndKinds : Submit(o, kind, k, None, None)
        \/ \E p \in Tab : Owned(p) /\ Submit(o, "request", None, None, p)
        \/ Announce(o)

Steps(o) ==
    \/ AssertBegin(o) \/ AssertCheck(o) \/ AssertRecheck(o)
    \/ \E t \in Tab : OpenBegin(o, t) \/ AdoptBegin(o, t)
    \/ GrantLook(o) \/ GrantMark(o) \/ GrantGroup(o) \/ GrantVerify(o)
    \/ GrantRecord(o) \/ GrantUndo(o) \/ Discard(o)
    \/ RevokeBegin(o) \/ MovedBegin(o) \/ MovedWhere(o) \/ Revoke(o)
    \/ ReconcileBegin(o) \/ Sweep(o)
    \/ EndBegin(o) \/ Classify(o) \/ Forget(o) \/ Release(o) \/ Remove(o)
    \/ PublishRead(o) \/ PublishSend(o)

Chrome ==
    \/ \E t \in Tab : \/ UserOpens(t) \/ UserCloses(t)
                      \/ \E p \in Tab : PageOpens(t, p)
                      \/ \E g \in Group \cup {NoGroup} : UserMoves(t, g)
    \/ \E p \in {"automatic", "ask", "keep"} : SetPolicy(p)
    \/ \E k \in Task : Stage(k)

Next ==
    \/ Commands \/ Chrome \/ Overrun \/ Restart
    \/ \E o \in Op : Deliver(o) \/ Steps(o)

Spec == Init /\ [][Next]_vars

--------------------------------
(* Properties *)

Quiet == events = <<>> /\ \A o \in Op : call[o].pc = "idle"
Orderly == overruns = 0

(* No operation, not even one that ran on beside its successors, tries to   *)
(* store an ambiguous ledger: parseState is never what keeps a tab out of   *)
(* two tasks, two tasks out of one group, or a task with tabs in a group.   *)
NothingAmbiguous == ~ambiguous

(* A task that finished or was closed gets no new record while the service  *)
(* worker lives, even from a grant that was on its way when it ended.       *)
EndedStaysEnded ==
    [][\A k \in ended \cap ended' : ~ledger[k].known => ~ledger'[k].known]_vars

(* The automatic end of a task closes no tab that the user opened.          *)
UserTabsSurvive == \A t \in closedForTask : tab[t].by # "user"

(* When everything is handled, the tabs in the ledger are open and in the   *)
(* group of their task.                                                     *)
LedgerMatchesChrome ==
    Quiet /\ Orderly => \A k \in Task : \A t \in ledger[k].tabs : InGroup(t, ledger[k].group)

(* When everything is handled, the host believes in no tab that its task    *)
(* does not own: publications that overlap are sent in the order in which   *)
(* they read the ledger.                                                    *)
HostKnowsNoMore == Quiet => \A p \in host : p[2] \in ledger[p[1]].tabs

(* A grant that fails leaves nothing behind: a tab made for a task is owned *)
(* or gone, and so is every other tab from the group AgentTab put it in,    *)
(* unless the user moved it or the task let it go when it ended.            *)
NothingLeftBehind ==
    Quiet /\ Orderly /\ restarts = 0 =>
        \A t \in Tab : /\ IsOpen(t) /\ t \notin touched \cup letGo
                       /\ tab[t].by = "agent" \/ tab[t].group # NoGroup
                       => Owned(t)

(* Every variable has its type. *)
TypeOK ==
    /\ tab \in [Tab -> [state : {"new", "open", "closed"}, group : Group \cup {NoGroup},
                        by : {"user", "agent", "child"}]]
    /\ nextGroup \in 1..(MaxGroups + 1)
    /\ ledger \in [Task -> [group : Group \cup {NoGroup}, tabs : SUBSET Tab,
                            created : SUBSET Tab, known : BOOLEAN]]
    /\ staged \subseteq Task /\ ended \subseteq Task
    /\ policy \in {"automatic", "ask", "keep"}
    /\ \A o \in Op : call[o].tab \in Tab \cup {None} /\ call[o].task \in Task \cup {None}
    /\ \A i \in 1..Len(chain) : chain[i] \in Op
    /\ publisher \in Op \cup {None}
    /\ host \subseteq Task \X Tab
    /\ touched \cup letGo \cup closedForTask \subseteq Tab
    /\ ambiguous \in BOOLEAN

\* At rest the ledger, the tab groups of Chrome and the inventory of the host agree, and no
\* tab is ever in two tasks (OwnershipLedger).
RecordsAgree == TypeOK /\ NothingAmbiguous /\ LedgerMatchesChrome /\ HostKnowsNoMore

================================
