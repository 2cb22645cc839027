---- MODULE OwnershipLedgerProofs ----
(***************************************************************************)
(* Theorems about OwnershipLedger for any number of tabs, tasks and        *)
(* operations, and any bounds on groups, touches, commands and faults.     *)
(* The second half is about places: while no operation overruns its hold,  *)
(* the ledger matches the tab groups of Chrome when everything is handled; *)
(* and while no worker dies at its work either, every tab and group made   *)
(* for a task has an owner.                                                *)
(***************************************************************************)
EXTENDS OwnershipLedger, SequenceTheorems, TLAPS

--------------------------------
(* What an operation knows by the time it is at an await *)

Groups == Group \cup {NoGroup}

Grants == {"open", "adopt", "child", "request"}

Kind == Grants \cup EndKinds
          \cup {"idle", "assert", "moved", "removed", "reconcile", "announce"}

Granting == {"look", "mark", "group", "verify", "record", "undo", "discard"}
Ending == {"classify", "forget", "release", "remove"}

Place == Granting \cup Ending
           \cup {"idle", "queued", "check", "recheck", "revoke", "where", "sweep",
                 "publish", "send"}

TaskRecord == [group : Groups, tabs : SUBSET Tab, created : SUBSET Tab, known : BOOLEAN]

Call ==
    [kind : Kind, pc : Place, task : Task \cup {None}, tab : Tab \cup {None},
     parent : Tab \cup {None}, event : BOOLEAN, group : Groups, was : Groups,
     seen : TaskRecord, keep : SUBSET (Tab \cup (Task \X Groups)),
     doomed : SUBSET Tab, pairs : SUBSET ((Tab \X Groups) \cup (Task \X Tab)),
     then : {"done", "group"}]

Event == [kind : {"child", "moved", "removed", "reconcile"},
          tab : Tab \cup {None}, parent : Tab \cup {None}]

(* The events that the startup queue has not handled, without their order. *)
Heard == {events[i] : i \in 1..Len(events)}

EventOK(e) ==
    /\ e.kind \in {"child", "moved", "removed"} => e.tab \in Tab
    /\ IF e.kind = "child" THEN e.parent \in Tab ELSE e.parent = None

(* On the way from a look at a tab to its record, or back. *)
InGrant(c) ==
    c.pc \in Granting \/ (c.pc \in {"revoke", "publish", "send"} /\ c.then = "group")

CallOK(c) ==
    /\ c.pc = "idle" => c = Idle
    /\ c.kind = "idle" => c.pc = "idle"
    /\ c.kind \in {"open", "adopt", "assert"} \cup EndKinds => c.task \in Task
    /\ c.kind \in {"assert", "child", "moved", "removed"} => c.tab \in Tab
    /\ IF c.kind \in {"child", "request"} THEN c.parent \in Tab ELSE c.parent = None
    /\ InGrant(c) => c.tab \in Tab /\ c.task \in Task /\ c.kind \in Grants
    /\ c.pc \in {"check", "recheck"} => c.task \in Task /\ c.kind \in {"assert", "child", "request"}
    /\ c.pc \in Ending => c.kind \in EndKinds /\ c.keep \subseteq Tab
    /\ c.pc \in {"queued", "where", "sweep"} => c.then = "done"
    /\ c.kind = "announce" => c.pc \in {"publish", "send"} /\ c.then = "done"
    /\ c.pc = "where" => c.kind = "moved"
    /\ c.pc = "sweep" => c.kind = "reconcile"

TypeInv ==
    /\ TypeOK
    /\ call \in [Op -> Call]
    /\ events \in Seq(Event) /\ chain \in Seq(Op)
    /\ \A e \in Heard : EventOK(e)
    /\ \A o \in Op : CallOK(call[o])
    /\ WellFormed(ledger)
    /\ \A k \in Task : ~ledger[k].known => ledger[k] = NoTask
    /\ \A o \in Op : call[o].pc = "send" => call[o].pairs \subseteq Task \X Tab

--------------------------------
(* What a step does to an operation *)

(* Operation x is c but for the fields F. *)
Keeps(x, c, F) ==
    /\ "kind" \in F \/ x.kind = c.kind
    /\ "pc" \in F \/ x.pc = c.pc
    /\ "task" \in F \/ x.task = c.task
    /\ "tab" \in F \/ x.tab = c.tab
    /\ "parent" \in F \/ x.parent = c.parent
    /\ "event" \in F \/ x.event = c.event
    /\ "group" \in F \/ x.group = c.group
    /\ "was" \in F \/ x.was = c.was
    /\ "seen" \in F \/ x.seen = c.seen
    /\ "keep" \in F \/ x.keep = c.keep
    /\ "doomed" \in F \/ x.doomed = c.doomed
    /\ "pairs" \in F \/ x.pairs = c.pairs
    /\ "then" \in F \/ x.then = c.then

(* Operation o becomes x; the others stay. *)
Becomes(o, x) ==
    /\ call' \in [Op -> Call] /\ call'[o] = x
    /\ \A p \in Op : p # o => call'[p] = call[p]

LEMMA IdleIsCall == Idle \in Call /\ CallOK(Idle)
BY OwnershipAssumption DEF Idle, Call, CallOK, Kind, Place, Groups, NoGroup, NoTask, TaskRecord,
   InGrant, Granting, Ending, EndKinds, Grants

LEMMA Went ==
    ASSUME TypeInv, NEW o \in Op, NEW c \in Call, NEW pc \in Place, Goto(o, c, pc)
    PROVE  \E x \in Call : Becomes(o, x) /\ Keeps(x, c, {"pc"}) /\ x.pc = pc
<1>1. PICK x : x = [c EXCEPT !.pc = pc]
  OBVIOUS
<1>2. x \in Call /\ Keeps(x, c, {"pc"}) /\ x.pc = pc
  BY <1>1 DEF Call, Keeps
<1>3. call' = [call EXCEPT ![o] = x]
  BY <1>1 DEF Goto
<1>4. Becomes(o, x)
  BY <1>2, <1>3 DEF TypeInv, Becomes
<1>5. QED  BY <1>2, <1>4

LEMMA Over ==
    ASSUME TypeInv, NEW o \in Op, Finished(o)
    PROVE  Becomes(o, Idle)
BY IdleIsCall DEF Finished, TypeInv, Becomes

(* Only the ends of the chain change. *)
LEMMA ChainOver ==
    ASSUME TypeInv, NEW o \in Op, Finished(o)
    PROVE  chain' \in Seq(Op)
BY DEF Finished, TypeInv

LEMMA OwnerIs ==
    ASSUME NEW t, Owned(t)
    PROVE  OwnerOf(t) \in Task /\ t \in ledger[OwnerOf(t)].tabs
<1>1. Owners(ledger, t) # {}
  BY DEF Owned
<1>2. OwnerOf(t) \in Owners(ledger, t)
  BY <1>1 DEF OwnerOf
<1>3. QED  BY <1>2 DEF Owners

(* Operation o goes on as x, c but for the fields F, and keeps its place in *)
(* the chain.                                                              *)
Walks(o, x, F) == Becomes(o, x) /\ Keeps(x, call[o], F) /\ chain' = chain

LEMMA MovesSubmitted ==
    ASSUME TypeInv, NEW o \in Op, NEW c \in Call, Submitted(o, c)
    PROVE  /\ \E x \in Call : Becomes(o, x) /\ Keeps(x, c, {"pc"}) /\ x.pc = "queued"
           /\ call[o].pc = "idle" /\ chain' = Append(chain, o) /\ chain' \in Seq(Op)
<1>1. Goto(o, c, "queued") /\ "queued" \in Place
  BY DEF Submitted, Goto, Place
<1>2. \E x \in Call : Becomes(o, x) /\ Keeps(x, c, {"pc"}) /\ x.pc = "queued"
  BY <1>1, Went
<1>3. QED  BY <1>2 DEF Submitted, TypeInv

LEMMA MovesSubmit ==
    ASSUME TypeInv, NEW o \in Op, NEW kind \in Kind, NEW k \in Task \cup {None},
           NEW t \in Tab \cup {None}, NEW p \in Tab \cup {None}, Submit(o, kind, k, t, p)
    PROVE  /\ \E x \in Call :
                /\ Becomes(o, x) /\ x.pc = "queued"
                /\ Keeps(x, Idle, {"pc", "kind", "task", "tab", "parent"})
                /\ x.kind = kind /\ x.task = k /\ x.tab = t /\ x.parent = p
           /\ call[o].pc = "idle" /\ chain' = Append(chain, o) /\ chain' \in Seq(Op)
<1>1. PICK d : d = [Idle EXCEPT !.kind = kind, !.task = k, !.tab = t, !.parent = p]
  OBVIOUS
<1>2. /\ d \in Call /\ Keeps(d, Idle, {"kind", "task", "tab", "parent"})
      /\ d.kind = kind /\ d.task = k /\ d.tab = t /\ d.parent = p
  BY <1>1, IdleIsCall DEF Call, Keeps
<1>3. Submitted(o, d)
  BY <1>1 DEF Submit
<1>4. /\ \E x \in Call : Becomes(o, x) /\ Keeps(x, d, {"pc"}) /\ x.pc = "queued"
      /\ call[o].pc = "idle" /\ chain' = Append(chain, o) /\ chain' \in Seq(Op)
  BY <1>2, <1>3, MovesSubmitted
<1>5. QED  BY <1>2, <1>4 DEF Keeps

LEMMA MovesDeliver ==
    ASSUME TypeInv, NEW o \in Op, Deliver(o)
    PROVE  /\ \E x \in Call, e \in Heard :
                /\ Becomes(o, x) /\ x.pc = "queued"
                /\ Keeps(x, Idle, {"pc", "kind", "tab", "parent", "event"})
                /\ x.kind = e.kind /\ x.tab = e.tab /\ x.parent = e.parent /\ e \in Event
                /\ \A f \in Heard : f = e \/ f \in Heard'
           /\ Heard' \subseteq Heard
           /\ events' \in Seq(Event)
           /\ call[o].pc = "idle" /\ chain' = Append(chain, o) /\ chain' \in Seq(Op)
<1>1. events \in Seq(Event) /\ events # <<>> /\ events' = Tail(events)
  BY DEF Deliver, TypeInv
<1>2. PICK e : e = events[1]
  OBVIOUS
<1>3. e = Head(events) /\ e \in Event /\ e \in Heard
  <2>1. Len(events) \in Nat /\ Len(events) >= 1 /\ 1 \in 1..Len(events)
    BY <1>1
  <2>2. QED  BY <1>1, <1>2, <2>1 DEF Heard
<1>4. events' \in Seq(Event) /\ Heard' \subseteq Heard /\ \A f \in Heard : f = e \/ f \in Heard'
  <2>1. /\ events' \in Seq(Event) /\ Len(events') = Len(events) - 1 /\ Len(events) \in Nat
        /\ \A i \in 1..Len(events') : events'[i] = events[i + 1]
    BY <1>1
  <2>2. ASSUME NEW f \in Heard' PROVE f \in Heard
    <3>1. PICK i \in 1..Len(events') : f = events'[i]
      BY <2>2 DEF Heard
    <3>2. i + 1 \in 1..Len(events) /\ f = events[i + 1]
      BY <2>1, <3>1
    <3>3. QED  BY <3>2 DEF Heard
  <2>3. ASSUME NEW f \in Heard, f # e PROVE f \in Heard'
    <3>1. PICK i \in 1..Len(events) : f = events[i]
      BY <2>3 DEF Heard
    <3>2. i # 1
      BY <1>2, <2>3, <3>1
    <3>3. i - 1 \in 1..Len(events') /\ events'[i - 1] = events[(i - 1) + 1] /\ (i - 1) + 1 = i
      BY <2>1, <3>1, <3>2
    <3>4. f = events'[i - 1] /\ i - 1 \in 1..Len(events')
      BY <3>1, <3>3
    <3>5. QED  BY <3>4 DEF Heard
  <2>4. QED  BY <2>1, <2>2, <2>3
<1>5. PICK d : d = [Idle EXCEPT !.kind = e.kind, !.tab = e.tab, !.parent = e.parent, !.event = TRUE]
  OBVIOUS
<1>6. /\ d \in Call /\ Keeps(d, Idle, {"kind", "tab", "parent", "event"})
      /\ d.kind = e.kind /\ d.tab = e.tab /\ d.parent = e.parent
  <2>1. e.kind \in Kind /\ e.tab \in Tab \cup {None} /\ e.parent \in Tab \cup {None}
    BY <1>3 DEF Event, Kind, Grants
  <2>2. QED  BY <1>5, <2>1, IdleIsCall DEF Call, Keeps
<1>7. Submitted(o, d)
  BY <1>3, <1>5 DEF Deliver
<1>8. /\ \E x \in Call : Becomes(o, x) /\ Keeps(x, d, {"pc"}) /\ x.pc = "queued"
      /\ call[o].pc = "idle" /\ chain' = Append(chain, o) /\ chain' \in Seq(Op)
  BY <1>6, <1>7, MovesSubmitted
<1>9. PICK x \in Call : Becomes(o, x) /\ Keeps(x, d, {"pc"}) /\ x.pc = "queued"
  BY <1>8
<1>10. Keeps(x, Idle, {"pc", "kind", "tab", "parent", "event"})
       /\ x.kind = e.kind /\ x.tab = e.tab /\ x.parent = e.parent
  BY <1>6, <1>9 DEF Keeps
<1>11. QED  BY <1>3, <1>4, <1>8, <1>9, <1>10

(* The events after one more. *)
LEMMA HeardRaised ==
    ASSUME TypeInv, NEW kind \in {"child", "moved", "removed"}, NEW t \in Tab,
           NEW p \in Tab \cup {None}, Raise(kind, t, p)
    PROVE  /\ events' \in Seq(Event)
           /\ Heard' = Heard \cup {[kind |-> kind, tab |-> t, parent |-> p]}
<1>1. PICK e : e = [kind |-> kind, tab |-> t, parent |-> p]
  OBVIOUS
<1>2. e \in Event /\ events \in Seq(Event)
  BY <1>1 DEF Event, TypeInv
<1>3. (events' = events /\ e \in Heard) \/ events' = Append(events, e)
  BY <1>1 DEF Raise, Raised, Heard
<1>4. CASE events' = events /\ e \in Heard
  BY <1>1, <1>2, <1>4 DEF Heard
<1>5. CASE events' = Append(events, e)
  <2>1. /\ events' \in Seq(Event) /\ Len(events') = Len(events) + 1 /\ Len(events) \in Nat
        /\ \A i \in 1..Len(events) : events'[i] = events[i]
        /\ events'[Len(events) + 1] = e
    BY <1>2, <1>5
  <2>2. \A f \in Heard' : f \in Heard \cup {e}
    <3>1. ASSUME NEW i \in 1..Len(events')
          PROVE  events'[i] \in Heard \cup {e}
      <4>1. CASE i \in 1..Len(events)
        BY <2>1, <4>1 DEF Heard
      <4>2. CASE i \notin 1..Len(events)
        BY <2>1, <4>2
      <4>3. QED  BY <4>1, <4>2
    <3>2. QED  BY <3>1 DEF Heard
  <2>3. \A f \in Heard : f \in Heard'
    <3>1. ASSUME NEW i \in 1..Len(events)
          PROVE  events[i] \in Heard'
      <4>1. i \in 1..Len(events') /\ events[i] = events'[i]
        BY <2>1
      <4>2. QED  BY <4>1 DEF Heard
    <3>2. QED  BY <3>1 DEF Heard
  <2>4. e \in Heard'
    <3>1. Len(events) + 1 \in 1..Len(events')
      BY <2>1
    <3>2. QED  BY <2>1, <3>1 DEF Heard
  <2>5. QED  BY <1>1, <2>1, <2>2, <2>3, <2>4
<1>6. QED  BY <1>3, <1>4, <1>5

(* What the user does to a tab is told, and once more when a group of a    *)
(* task goes with it.                                                      *)
LEMMA HeardLeaves ==
    ASSUME TypeInv, NEW kind \in {"moved", "removed"}, NEW t \in Tab, Leaves(kind, t)
    PROVE  /\ events' \in Seq(Event)
           /\ Heard \subseteq Heard'
           /\ [kind |-> kind, tab |-> t, parent |-> None] \in Heard'
           /\ \A e \in Heard' : \/ e \in Heard
                                \/ e = [kind |-> kind, tab |-> t, parent |-> None]
                                \/ e = [kind |-> "reconcile", tab |-> None, parent |-> None]
<1>1. PICK e, f : /\ e = [kind |-> kind, tab |-> t, parent |-> None]
                  /\ f = [kind |-> "reconcile", tab |-> None, parent |-> None]
  OBVIOUS
<1>2. e \in Event /\ f \in Event /\ events \in Seq(Event)
  BY <1>1 DEF Event, TypeInv
<1>3. PICK s : s = Raised(kind, t, None)
  OBVIOUS
<1>4. PICK r \in {<<f>>, <<>>} : events' = s \o r
  BY <1>1, <1>3 DEF Leaves
<1>5. (s = events /\ \E i \in 1..Len(events) : events[i] = e) \/ s = Append(events, e)
  BY <1>1, <1>3 DEF Raised
<1>6. /\ s \in Seq(Event)
      /\ \A i \in 1..Len(s) : s[i] = e \/ s[i] \in Heard
      /\ \E i \in 1..Len(s) : s[i] = e
      /\ \A g \in Heard : \E i \in 1..Len(s) : s[i] = g
  <2>1. CASE s = events /\ (\E i \in 1..Len(events) : events[i] = e)
    BY <1>2, <2>1 DEF Heard
  <2>2. CASE s = Append(events, e)
    <3>1. /\ s \in Seq(Event) /\ Len(s) = Len(events) + 1 /\ Len(events) \in Nat
          /\ \A i \in 1..Len(events) : s[i] = events[i]
          /\ s[Len(events) + 1] = e
      BY <1>2, <2>2
    <3>2. \A i \in 1..Len(s) : i \in 1..Len(events) \/ i = Len(events) + 1
      BY <3>1
    <3>3. \A i \in 1..Len(s) : s[i] = e \/ s[i] \in Heard
      BY <3>1, <3>2 DEF Heard
    <3>4. \A i \in 1..Len(events) : i \in 1..Len(s)
      BY <3>1
    <3>5. Len(events) + 1 \in 1..Len(s)
      BY <3>1
    <3>6. \A g \in Heard : \E i \in 1..Len(s) : s[i] = g
      BY <3>1, <3>4 DEF Heard
    <3>7. QED  BY <3>1, <3>3, <3>5, <3>6
  <2>3. QED  BY <1>5, <2>1, <2>2
<1>7. /\ events' \in Seq(Event) /\ Len(s) \in Nat
      /\ \A i \in 1..Len(s) : i \in 1..Len(events') /\ events'[i] = s[i]
      /\ \A i \in 1..Len(events') : i \in 1..Len(s) \/ events'[i] = f
  <2>1. CASE r = <<>>
    BY <1>2, <1>4, <1>6, <2>1
  <2>2. CASE r = <<f>>
    <3>1. events' = Append(s, f)
      BY <1>2, <1>4, <1>6, <2>2
    <3>2. /\ events' \in Seq(Event) /\ Len(events') = Len(s) + 1 /\ Len(s) \in Nat
          /\ \A i \in 1..Len(s) : events'[i] = s[i]
          /\ events'[Len(s) + 1] = f
      BY <1>2, <1>6, <3>1
    <3>3. \A i \in 1..Len(events') : i \in 1..Len(s) \/ i = Len(s) + 1
      BY <3>2
    <3>4. \A i \in 1..Len(s) : i \in 1..Len(events')
      BY <3>2
    <3>5. QED  BY <3>2, <3>3, <3>4
  <2>3. QED  BY <2>1, <2>2
<1>8. \A i \in 1..Len(s) : s[i] \in Heard'
  BY <1>7 DEF Heard
<1>9. Heard \subseteq Heard' /\ e \in Heard'
  BY <1>6, <1>8
<1>10. \A g \in Heard' : g \in Heard \/ g = e \/ g = f
  <2>1. \A i \in 1..Len(events') : events'[i] \in Heard \/ events'[i] = e \/ events'[i] = f
    BY <1>6, <1>7
  <2>2. QED  BY <2>1 DEF Heard
<1>11. QED  BY <1>1, <1>7, <1>9, <1>10

LEMMA Walked ==
    ASSUME TypeInv, NEW o \in Op, NEW d \in Call, NEW F, NEW pc \in Place,
           Keeps(d, call[o], F), "pc" \in F, Goto(o, d, pc), UNCHANGED chain
    PROVE  \E x \in Call : Walks(o, x, F) /\ Keeps(x, d, {"pc"}) /\ x.pc = pc
<1>1. PICK x \in Call : Becomes(o, x) /\ Keeps(x, d, {"pc"}) /\ x.pc = pc
  BY Went
<1>2. Keeps(x, call[o], F)
  BY <1>1 DEF Keeps
<1>3. QED  BY <1>1, <1>2 DEF Walks

LEMMA CallFacts ==
    ASSUME TypeInv, NEW o \in Op
    PROVE  call[o] \in Call /\ CallOK(call[o]) /\ Keeps(call[o], call[o], {"pc"})
BY DEF TypeInv, Keeps

LEMMA Walked1 ==
    ASSUME TypeInv, NEW o \in Op, NEW pc \in Place, Goto(o, call[o], pc), UNCHANGED chain
    PROVE  \E x \in Call : Walks(o, x, {"pc"}) /\ x.pc = pc
BY CallFacts, Walked

LEMMA LedgerType ==
    ASSUME TypeInv
    PROVE  ledger \in [Task -> TaskRecord]
BY DEF TypeInv, TypeOK, TaskRecord, Groups

LEMMA LedgerFacts ==
    ASSUME TypeInv, NEW k \in Task
    PROVE  /\ ledger[k] \in TaskRecord
           /\ ledger[k].created \subseteq ledger[k].tabs
           /\ ledger[k].group = NoGroup => ledger[k].tabs = {}
           /\ ~ledger[k].known => ledger[k] = NoTask
BY DEF TypeInv, TypeOK, WellFormed, Unambiguous, TaskRecord, Groups

LEMMA MovesAssertBegin ==
    ASSUME TypeInv, NEW o \in Op, AssertBegin(o)
    PROVE  /\ call[o].pc = "queued" /\ call[o].kind \in {"assert", "child", "request"}
           /\ \/ Finished(o)
              \/ \E x \in Call : /\ Walks(o, x, {"pc", "task", "seen"}) /\ x.pc = "check"
                                 /\ x.task \in Task /\ x.seen = ledger[x.task]
                                 /\ Subject(x) \in x.seen.tabs
<1>1. PICK c : c = call[o]
  OBVIOUS
<1>2. PICK k : k = IF c.kind = "assert" THEN c.task
                   ELSE IF Owned(c.parent) THEN OwnerOf(c.parent) ELSE None
  OBVIOUS
<1>3. PICK d : d = [c EXCEPT !.task = k, !.seen = ledger[k]]
  OBVIOUS
<1>4. c.pc = "queued" /\ c.kind \in {"assert", "child", "request"} /\ c \in Call /\ CallOK(c)
  BY <1>1, CallFacts DEF AssertBegin, Starts
<1>5. CASE ~(k # None /\ Subject(c) \in ledger[k].tabs)
  BY <1>1, <1>2, <1>4, <1>5 DEF AssertBegin
<1>6. CASE k # None /\ Subject(c) \in ledger[k].tabs
  <2>1. Goto(o, d, "check") /\ chain' = chain
    BY <1>1, <1>2, <1>3, <1>6 DEF AssertBegin
  <2>2. k \in Task
    BY <1>2, <1>4, <1>6, OwnerIs DEF CallOK
  <2>3. ledger[k] \in TaskRecord
    BY <2>2, LedgerFacts
  <2>4. /\ d \in Call /\ Keeps(d, c, {"pc", "task", "seen"})
        /\ d.task = k /\ d.seen = ledger[k] /\ d.tab = c.tab /\ d.parent = c.parent
    BY <1>3, <1>4, <2>2, <2>3 DEF Call, Keeps
  <2>5. PICK x \in Call : /\ Walks(o, x, {"pc", "task", "seen"}) /\ Keeps(x, d, {"pc"})
                          /\ x.pc = "check"
    BY <1>1, <2>1, <2>4, Walked DEF Place
  <2>6. x.task = k /\ x.seen = ledger[k] /\ Subject(x) = Subject(c)
    BY <2>4, <2>5 DEF Keeps, Subject
  <2>7. QED  BY <1>1, <1>4, <1>6, <2>2, <2>5, <2>6
<1>7. QED  BY <1>5, <1>6

LEMMA MovesAssertCheck ==
    ASSUME TypeInv, NEW o \in Op, AssertCheck(o)
    PROVE  /\ call[o].pc = "check"
           /\ \E x \in Call :
                /\ Walks(o, x, {"pc", "then"})
                /\ \/ /\ x.pc = "recheck" /\ x.then = call[o].then
                      /\ InGroup(Subject(call[o]), call[o].seen.group)
                   \/ /\ x.pc = "revoke" /\ x.then = "done"
                      /\ ~InGroup(Subject(call[o]), call[o].seen.group)
<1>1. PICK c : c = call[o] /\ c \in Call /\ c.pc = "check"
  BY CallFacts DEF AssertCheck, At
<1>2. chain' = chain
  BY DEF AssertCheck
<1>3. CASE InGroup(Subject(c), c.seen.group)
  <2>1. Goto(o, c, "recheck")
    BY <1>1, <1>3 DEF AssertCheck
  <2>2. Keeps(c, c, {"pc", "then"})
    BY DEF Keeps
  <2>3. PICK x \in Call : Walks(o, x, {"pc", "then"}) /\ Keeps(x, c, {"pc"}) /\ x.pc = "recheck"
    BY <1>1, <1>2, <2>1, <2>2, Walked DEF Place
  <2>4. x.then = c.then
    BY <2>3 DEF Keeps
  <2>5. QED  BY <1>1, <1>3, <2>3, <2>4
<1>4. CASE ~InGroup(Subject(c), c.seen.group)
  <2>1. PICK d : d = [c EXCEPT !.then = "done"]
    OBVIOUS
  <2>2. Goto(o, d, "revoke")
    BY <1>1, <1>4, <2>1 DEF AssertCheck
  <2>3. d \in Call /\ Keeps(d, c, {"pc", "then"}) /\ d.then = "done"
    BY <1>1, <2>1 DEF Call, Keeps
  <2>4. PICK x \in Call : Walks(o, x, {"pc", "then"}) /\ Keeps(x, d, {"pc"}) /\ x.pc = "revoke"
    BY <1>1, <1>2, <2>2, <2>3, Walked DEF Place
  <2>5. x.then = "done"
    BY <2>3, <2>4 DEF Keeps
  <2>6. QED  BY <1>1, <1>4, <2>4, <2>5
<1>5. QED  BY <1>3, <1>4

LEMMA MovesAssertRecheck ==
    ASSUME TypeInv, NEW o \in Op, AssertRecheck(o)
    PROVE  /\ call[o].pc = "recheck"
           /\ \/ Finished(o) /\ UNCHANGED <<tab, events>>
              \/ /\ \E x \in Call : Walks(o, x, {"pc"}) /\ x.pc = "look"
                 /\ call[o].kind = "child" /\ UNCHANGED <<tab, events>>
                 /\ IsOpen(call[o].tab)
              \/ /\ call[o].kind \notin {"child", "assert"}
                 /\ \E t \in Tab : /\ Opens(t, "agent") /\ Raise("child", t, call[o].parent)
                                   /\ \E x \in Call : /\ Walks(o, x, {"pc", "tab"})
                                                      /\ x.pc = "look" /\ x.tab = t
<1>1. PICK c : c = call[o] /\ c \in Call /\ c.pc = "recheck"
  BY CallFacts DEF AssertRecheck, At
<1>2. CASE ~StillOwned(c.task, Subject(c), c.seen) \/ c.kind = "assert"
  BY <1>1, <1>2 DEF AssertRecheck
<1>3. CASE ~(~StillOwned(c.task, Subject(c), c.seen) \/ c.kind = "assert") /\ c.kind = "child"
  <2>1. /\ UNCHANGED <<tab, events>>
        /\ Finished(o) \/ (IsOpen(c.tab) /\ Goto(o, c, "look") /\ chain' = chain)
    BY <1>1, <1>3 DEF AssertRecheck
  <2>2. QED  BY <1>1, <1>3, <2>1, Walked1 DEF Place, Granting
<1>4. CASE ~(~StillOwned(c.task, Subject(c), c.seen) \/ c.kind = "assert") /\ c.kind # "child"
  <2>1. PICK t \in Tab : /\ Opens(t, "agent")
                         /\ Raise("child", t, c.parent)
                         /\ Goto(o, [c EXCEPT !.tab = t], "look") /\ UNCHANGED chain
    BY <1>1, <1>4 DEF AssertRecheck
  <2>2. PICK d : d = [c EXCEPT !.tab = t]
    OBVIOUS
  <2>3. d \in Call /\ Keeps(d, c, {"pc", "tab"}) /\ d.tab = t
    BY <1>1, <2>2 DEF Call, Keeps
  <2>4. PICK x \in Call : Walks(o, x, {"pc", "tab"}) /\ Keeps(x, d, {"pc"}) /\ x.pc = "look"
    <3>1. Goto(o, d, "look") /\ UNCHANGED chain
      BY <2>1, <2>2
    <3>2. "look" \in Place /\ "pc" \in {"pc", "tab"}
      BY DEF Place, Granting
    <3>3. Keeps(d, call[o], {"pc", "tab"})
      BY <1>1, <2>3
    <3>4. QED  BY <2>3, <3>1, <3>2, <3>3, Walked
  <2>5. x.tab = t
    BY <2>3, <2>4 DEF Keeps
  <2>6. QED  BY <1>1, <1>4, <2>1, <2>4, <2>5
<1>5. QED  BY <1>2, <1>3, <1>4

LEMMA MovesBegin ==
    ASSUME TypeInv, NEW o \in Op, NEW t \in Tab, OpenBegin(o, t) \/ AdoptBegin(o, t)
    PROVE  /\ call[o].pc = "queued"
           /\ \E x \in Call : Walks(o, x, {"pc", "tab"}) /\ x.pc = "look" /\ x.tab = t
           /\ \/ call[o].kind = "open" /\ Opens(t, "agent")
              \/ call[o].kind = "adopt" /\ IsOpen(t) /\ UNCHANGED tab
<1>1. PICK c : c = call[o] /\ c \in Call
  BY CallFacts
<1>2. PICK d : d = [c EXCEPT !.tab = t]
  OBVIOUS
<1>3. d \in Call /\ Keeps(d, call[o], {"pc", "tab"}) /\ d.tab = t
  BY <1>1, <1>2 DEF Call, Keeps
<1>4. Goto(o, d, "look") /\ UNCHANGED chain
  BY <1>1, <1>2 DEF OpenBegin, AdoptBegin
<1>5. "look" \in Place /\ "pc" \in {"pc", "tab"}
  BY DEF Place, Granting
<1>6. PICK x \in Call : Walks(o, x, {"pc", "tab"}) /\ Keeps(x, d, {"pc"}) /\ x.pc = "look"
  BY <1>3, <1>4, <1>5, Walked
<1>7. x.tab = t
  BY <1>3, <1>6 DEF Keeps
<1>8. QED  BY <1>6, <1>7 DEF OpenBegin, AdoptBegin, Starts, Quietly, chromeVars

LEMMA MovesFails ==
    ASSUME TypeInv, NEW o \in Op, Fails(o, call[o])
    PROVE  \/ call[o].kind \notin {"open", "request"} /\ Finished(o)
           \/ /\ call[o].kind \in {"open", "request"}
              /\ \E x \in Call : Walks(o, x, {"pc"}) /\ x.pc = "discard"
BY Walked1 DEF Fails, Place, Granting

LEMMA MovesLook ==
    ASSUME TypeInv, NEW o \in Op, GrantLook(o)
    PROVE  LET c == call[o] IN
           /\ c.pc = "look"
           /\ \/ /\ c.kind \notin {"open", "request"} /\ Finished(o)
                 /\ ~IsOpen(c.tab) \/ (\E k \in Task : k # c.task /\ c.tab \in ledger[k].tabs)
              \/ Finished(o) /\ IsOpen(c.tab) /\ c.tab \in ledger[c.task].tabs
              \/ /\ c.kind \in {"open", "request"}
                 /\ \E x \in Call : Walks(o, x, {"pc"}) /\ x.pc = "discard"
              \/ /\ c.tab \in ledger[c.task].tabs /\ Makes(c)
                 /\ \E x \in Call : Walks(o, x, {"pc"}) /\ x.pc = "mark"
              \/ /\ c.tab \in ledger[c.task].tabs /\ ~InGroup(c.tab, ledger[c.task].group)
                 /\ IsOpen(c.tab)
                 /\ \E x \in Call : /\ Walks(o, x, {"pc", "was", "then"})
                                    /\ x.pc = "revoke" /\ x.then = "group"
                                    /\ x.was = tab[c.tab].group
              \/ /\ ~Owned(c.tab) /\ IsOpen(c.tab)
                 /\ \E x \in Call : /\ Walks(o, x, {"pc", "was"})
                                    /\ x.pc = "group" /\ x.was = tab[c.tab].group
<1>1. PICK c : c = call[o] /\ c \in Call /\ c.pc = "look" /\ CallOK(c)
  BY CallFacts DEF GrantLook, At
<1>2. c.tab \in Tab /\ c.task \in Task
  BY <1>1 DEF CallOK, InGrant, Granting
<1>3. PICK k : k = IF Owned(c.tab) THEN OwnerOf(c.tab) ELSE None
  OBVIOUS
<1>4. IF Owned(c.tab) THEN k \in Task /\ c.tab \in ledger[k].tabs ELSE k = None
  BY <1>3, OwnerIs
<1>5. None \notin Task
  BY OwnershipAssumption
<1>6. tab[c.tab].group \in Groups
  BY <1>2 DEF TypeInv, TypeOK, Groups
<1>7. CASE (~IsOpen(c.tab) \/ k \notin {None, c.task}) /\ Fails(o, c)
  <2>1. ~IsOpen(c.tab) \/ (\E j \in Task : j # c.task /\ c.tab \in ledger[j].tabs)
    BY <1>4, <1>7
  <2>2. QED  BY <1>1, <1>7, <2>1, MovesFails
<1>8. CASE IsOpen(c.tab) /\ k = c.task /\ InGroup(c.tab, ledger[k].group)
  <2>1. c.tab \in ledger[c.task].tabs
    BY <1>2, <1>4, <1>5, <1>8
  <2>2. Finished(o) \/ (Makes(c) /\ Goto(o, c, "mark") /\ chain' = chain)
    BY <1>1, <1>2, <1>3, <1>5, <1>8 DEF GrantLook
  <2>3. "mark" \in Place
    BY DEF Place, Granting
  <2>4. QED  BY <1>1, <1>8, <2>1, <2>2, <2>3, Walked1
<1>9. CASE IsOpen(c.tab) /\ k = c.task /\ ~InGroup(c.tab, ledger[k].group)
  <2>1. c.tab \in ledger[c.task].tabs
    BY <1>2, <1>4, <1>5, <1>9
  <2>2. PICK d : d = [c EXCEPT !.was = tab[c.tab].group, !.then = "group"]
    OBVIOUS
  <2>3. Goto(o, d, "revoke") /\ chain' = chain
    BY <1>1, <1>2, <1>3, <1>5, <1>9, <2>2 DEF GrantLook
  <2>4. /\ d \in Call /\ Keeps(d, call[o], {"pc", "was", "then"})
        /\ d.was = tab[c.tab].group /\ d.then = "group"
    BY <1>1, <1>6, <2>2 DEF Call, Keeps
  <2>5. "revoke" \in Place /\ "pc" \in {"pc", "was", "then"}
    BY DEF Place
  <2>6. PICK x \in Call : /\ Walks(o, x, {"pc", "was", "then"}) /\ Keeps(x, d, {"pc"})
                          /\ x.pc = "revoke"
    BY <2>3, <2>4, <2>5, Walked
  <2>7. x.was = tab[c.tab].group /\ x.then = "group"
    BY <2>4, <2>6 DEF Keeps
  <2>8. QED  BY <1>1, <1>9, <2>1, <2>6, <2>7
<1>10. CASE IsOpen(c.tab) /\ k = None
  <2>1. ~Owned(c.tab)
    BY <1>4, <1>5, <1>10
  <2>2. PICK d : d = [c EXCEPT !.was = tab[c.tab].group]
    OBVIOUS
  <2>3. Goto(o, d, "group") /\ chain' = chain
    BY <1>1, <1>2, <1>3, <1>5, <1>10, <2>2 DEF GrantLook
  <2>4. d \in Call /\ Keeps(d, call[o], {"pc", "was"}) /\ d.was = tab[c.tab].group
    BY <1>1, <1>6, <2>2 DEF Call, Keeps
  <2>5. "group" \in Place /\ "pc" \in {"pc", "was"}
    BY DEF Place, Granting
  <2>6. PICK x \in Call : Walks(o, x, {"pc", "was"}) /\ Keeps(x, d, {"pc"}) /\ x.pc = "group"
    BY <2>3, <2>4, <2>5, Walked
  <2>7. x.was = tab[c.tab].group
    BY <2>4, <2>6 DEF Keeps
  <2>8. QED  BY <1>1, <1>10, <2>1, <2>6, <2>7
<1>11. QED
  <2>1. \/ (~IsOpen(c.tab) \/ k \notin {None, c.task}) /\ Fails(o, c)
        \/ IsOpen(c.tab) /\ k = c.task
        \/ IsOpen(c.tab) /\ k = None
    BY <1>1, <1>3 DEF GrantLook
  <2>2. QED  BY <2>1, <1>7, <1>8, <1>9, <1>10

LEMMA MovesMark ==
    ASSUME TypeInv, NEW o \in Op, GrantMark(o)
    PROVE  LET c == call[o]
               marked == [ledger EXCEPT ![c.task].created = @ \cup {c.tab}]
           IN
           /\ c.pc = "mark"
           /\ Stored(IF ledger[c.task].known THEN marked ELSE ledger)
           /\ \/ Finished(o)
              \/ /\ c.kind \in {"open", "request"}
                 /\ ledger[c.task].known /\ ~WellFormed(marked)
                 /\ \E x \in Call : Walks(o, x, {"pc"}) /\ x.pc = "discard"
BY MovesFails DEF GrantMark, At

LEMMA MovesGroup ==
    ASSUME TypeInv, NEW o \in Op, GrantGroup(o)
    PROVE  LET c == call[o] IN
           /\ c.pc = "group" /\ c.tab \in Tab
           /\ \/ \E x \in Call :
                   /\ Walks(o, x, {"pc", "group", "seen"}) /\ x.pc = "verify"
                   /\ x.seen = ledger[c.task] /\ x.group \in Group
                   /\ IF ledger[c.task].group = NoGroup
                      THEN x.group = nextGroup /\ nextGroup' = nextGroup + 1
                      ELSE x.group = ledger[c.task].group
                             /\ (nextGroup' = nextGroup \/ nextGroup' = nextGroup + 1)
                   /\ tab' = [tab EXCEPT ![c.tab].group = x.group]
                   /\ Raise("moved", c.tab, None) /\ IsOpen(c.tab)
                   /\ nextGroup' \in 1..(MaxGroups + 1)
              \/ /\ \E x \in Call : Walks(o, x, {"pc"}) /\ x.pc = "undo"
                 /\ UNCHANGED <<tab, nextGroup, events>>
<1>1. PICK c : c = call[o] /\ c \in Call /\ c.pc = "group" /\ CallOK(c)
  BY CallFacts DEF GrantGroup, At
<1>2. c.tab \in Tab /\ c.task \in Task
  BY <1>1 DEF CallOK, InGrant, Granting
<1>3. PICK g : g = IF ledger[c.task].group = NoGroup THEN nextGroup ELSE ledger[c.task].group
  OBVIOUS
<1>4. /\ nextGroup \in 1..(MaxGroups + 1) /\ nextGroup <= MaxGroups /\ MaxGroups \in Nat
      /\ ledger[c.task] \in TaskRecord
  BY <1>1, <1>2, LedgerFacts, OwnershipAssumption DEF TypeInv, TypeOK, GrantGroup
<1>5. g \in Group /\ nextGroup + 1 \in 1..(MaxGroups + 1)
  BY <1>3, <1>4 DEF TaskRecord, Groups, Group, NoGroup
<1>6. chain' = chain
  BY DEF GrantGroup
<1>7. CASE IsOpen(c.tab) /\ (g = nextGroup \/ GroupExists(g))
  <2>1. PICK d : d = [c EXCEPT !.group = g, !.seen = ledger[c.task]]
    OBVIOUS
  <2>2. /\ tab' = [tab EXCEPT ![c.tab].group = g]
        /\ nextGroup' = IF g = nextGroup THEN g + 1 ELSE nextGroup
        /\ Raise("moved", c.tab, None) /\ Goto(o, d, "verify")
    BY <1>1, <1>3, <1>7, <2>1 DEF GrantGroup
  <2>3. /\ d \in Call /\ Keeps(d, call[o], {"pc", "group", "seen"})
        /\ d.group = g /\ d.seen = ledger[c.task]
    BY <1>1, <1>4, <1>5, <2>1 DEF Call, Keeps, Groups
  <2>4. "verify" \in Place /\ "pc" \in {"pc", "group", "seen"}
    BY DEF Place, Granting
  <2>5. PICK x \in Call : /\ Walks(o, x, {"pc", "group", "seen"}) /\ Keeps(x, d, {"pc"})
                          /\ x.pc = "verify"
    BY <1>6, <2>2, <2>3, <2>4, Walked
  <2>6. x.group = g /\ x.seen = ledger[c.task]
    BY <2>3, <2>5 DEF Keeps
  <2>7. /\ nextGroup' \in 1..(MaxGroups + 1)
        /\ g = nextGroup => nextGroup' = nextGroup + 1
        /\ g # nextGroup => nextGroup' = nextGroup
    BY <1>4, <1>5, <2>2
  <2>8. IF ledger[c.task].group = NoGroup
        THEN x.group = nextGroup /\ nextGroup' = nextGroup + 1
        ELSE x.group = ledger[c.task].group
               /\ (nextGroup' = nextGroup \/ nextGroup' = nextGroup + 1)
    BY <1>3, <2>6, <2>7
  <2>9. QED  BY <1>1, <1>2, <1>5, <1>7, <2>2, <2>5, <2>6, <2>7, <2>8
<1>8. CASE ~(IsOpen(c.tab) /\ (g = nextGroup \/ GroupExists(g)))
  <2>1. Goto(o, c, "undo") /\ UNCHANGED <<tab, nextGroup, events>>
    BY <1>1, <1>3, <1>8 DEF GrantGroup
  <2>2. "undo" \in Place
    BY DEF Place, Granting
  <2>3. QED  BY <1>1, <1>2, <1>6, <2>1, <2>2, Walked1
<1>9. QED  BY <1>7, <1>8

LEMMA MovesVerify ==
    ASSUME TypeInv, NEW o \in Op, GrantVerify(o)
    PROVE  /\ call[o].pc = "verify"
           /\ \E x \in Call : /\ Walks(o, x, {"pc"})
                              /\ \/ x.pc = "record" /\ InGroup(call[o].tab, call[o].group)
                                 \/ x.pc = "undo"
<1>1. chain' = chain
  BY DEF GrantVerify
<1>2. "record" \in Place /\ "undo" \in Place
  BY DEF Place, Granting
<1>3. CASE InGroup(call[o].tab, call[o].group)
  <2>1. Goto(o, call[o], "record")
    BY <1>3 DEF GrantVerify
  <2>2. QED  BY <1>1, <1>2, <1>3, <2>1, Walked1 DEF GrantVerify, At
<1>4. CASE ~InGroup(call[o].tab, call[o].group)
  <2>1. Goto(o, call[o], "undo")
    BY <1>4 DEF GrantVerify
  <2>2. QED  BY <1>1, <1>2, <2>1, Walked1 DEF GrantVerify, At
<1>5. QED  BY <1>3, <1>4

(* The record that a grant of operation c would store. *)
Base(c) == IF ledger[c.task].known THEN ledger[c.task] ELSE c.seen
Granted(c) ==
    [known |-> TRUE, group |-> c.group, tabs |-> Base(c).tabs \cup {c.tab},
     created |-> Base(c).created \cup IF Makes(c) THEN {c.tab} ELSE {}]

LEMMA MovesRecord ==
    ASSUME TypeInv, NEW o \in Op, GrantRecord(o)
    PROVE  LET c == call[o]
               recorded == [ledger EXCEPT ![c.task] = Granted(c)]
           IN
           /\ c.pc = "record" /\ c.tab \in Tab /\ c.task \in Task
           /\ \/ /\ Recordable(c) /\ Stored(recorded)
                 /\ \E x \in Call :
                      /\ Walks(o, x, {"pc", "then"}) /\ x.then = "done"
                      /\ x.pc = IF WellFormed(recorded) THEN "publish" ELSE "undo"
              \/ /\ ~Recordable(c) /\ UNCHANGED <<ledger, ambiguous>>
                 /\ \E x \in Call : Walks(o, x, {"pc"}) /\ x.pc = "undo"
<1>1. PICK c : c = call[o] /\ c \in Call /\ c.pc = "record" /\ CallOK(c)
  BY CallFacts DEF GrantRecord, At
<1>2. c.tab \in Tab /\ c.task \in Task
  BY <1>1 DEF CallOK, InGrant, Granting
<1>3. PICK recorded : recorded = [ledger EXCEPT ![c.task] = Granted(c)]
  OBVIOUS
<1>4. chain' = chain
  BY DEF GrantRecord
<1>5. CASE Recordable(c)
  <2>1. PICK d : d = [c EXCEPT !.then = "done"]
    OBVIOUS
  <2>2. PICK pc : pc = IF WellFormed(recorded) THEN "publish" ELSE "undo"
    OBVIOUS
  <2>3. Stored(recorded) /\ Goto(o, d, pc)
    BY <1>1, <1>3, <1>5, <2>1, <2>2 DEF GrantRecord, Granted, Base
  <2>4. d \in Call /\ Keeps(d, call[o], {"pc", "then"}) /\ d.then = "done"
    BY <1>1, <2>1 DEF Call, Keeps
  <2>5. pc \in Place /\ "pc" \in {"pc", "then"}
    BY <2>2 DEF Place, Granting
  <2>6. PICK x \in Call : Walks(o, x, {"pc", "then"}) /\ Keeps(x, d, {"pc"}) /\ x.pc = pc
    BY <1>4, <2>3, <2>4, <2>5, Walked
  <2>7. x.then = "done"
    BY <2>4, <2>6 DEF Keeps
  <2>8. QED  BY <1>1, <1>2, <1>3, <1>5, <2>2, <2>3, <2>6, <2>7
<1>6. CASE ~Recordable(c)
  <2>1. Goto(o, c, "undo") /\ UNCHANGED <<ledger, ambiguous>>
    BY <1>1, <1>6 DEF GrantRecord
  <2>2. "undo" \in Place
    BY DEF Place, Granting
  <2>3. QED  BY <1>1, <1>2, <1>4, <1>6, <2>1, <2>2, Walked1
<1>7. QED  BY <1>5, <1>6

LEMMA MovesUndo ==
    ASSUME TypeInv, NEW o \in Op, GrantUndo(o)
    PROVE  LET c == call[o] IN
           /\ c.pc = "undo" /\ c.tab \in Tab
           /\ \/ UNCHANGED <<tab, events>>
              \/ \E g \in Groups : /\ tab' = [tab EXCEPT ![c.tab].group = g]
                                   /\ IsOpen(c.tab)
                                   /\ g # tab[c.tab].group => g = c.was
                                   /\ Raise("moved", c.tab, None)
           /\ \/ c.kind \notin {"open", "request"} /\ Finished(o)
                 /\ \/ tab' = [tab EXCEPT ![c.tab].group = c.was]
                    \/ c.was # NoGroup /\ UNCHANGED tab
                    \/ ~IsOpen(c.tab) /\ UNCHANGED tab
              \/ /\ c.kind \in {"open", "request"}
                 /\ \E x \in Call : Walks(o, x, {"pc"}) /\ x.pc = "discard"
<1>1. PICK c : c = call[o] /\ c \in Call /\ c.pc = "undo" /\ CallOK(c)
  BY CallFacts DEF GrantUndo, At
<1>2. c.tab \in Tab
  BY <1>1 DEF CallOK, InGrant, Granting
<1>3. PICK g : g = IF c.was = NoGroup \/ GroupExists(c.was) THEN c.was ELSE tab[c.tab].group
  OBVIOUS
<1>4. /\ tab[c.tab].group \in Groups /\ g \in Groups
      /\ tab = [tab EXCEPT ![c.tab].group = tab[c.tab].group]
  BY <1>1, <1>2, <1>3 DEF TypeInv, TypeOK, Groups, Call
<1>5. /\ tab' = IF IsOpen(c.tab) THEN [tab EXCEPT ![c.tab].group = g] ELSE tab
      /\ events' = IF tab' = tab THEN events ELSE Raised("moved", c.tab, None)
  BY <1>1, <1>3 DEF GrantUndo
<1>6. \/ UNCHANGED <<tab, events>>
      \/ /\ tab' = [tab EXCEPT ![c.tab].group = g] /\ IsOpen(c.tab)
         /\ Raise("moved", c.tab, None)
  BY <1>5 DEF Raise
<1>7. g # tab[c.tab].group => g = c.was
  BY <1>3
<1>8. \/ tab' = [tab EXCEPT ![c.tab].group = c.was]
      \/ c.was # NoGroup /\ UNCHANGED tab
      \/ ~IsOpen(c.tab) /\ UNCHANGED tab
  BY <1>3, <1>4, <1>5
<1>9. \/ c.kind \notin {"open", "request"} /\ Finished(o)
      \/ /\ c.kind \in {"open", "request"}
         /\ \E x \in Call : Walks(o, x, {"pc"}) /\ x.pc = "discard"
  BY <1>1, MovesFails DEF GrantUndo
<1>10. QED  BY <1>1, <1>2, <1>4, <1>6, <1>7, <1>8, <1>9

LEMMA MovesDiscard ==
    ASSUME TypeInv, NEW o \in Op, Discard(o)
    PROVE  LET c == call[o] IN
           /\ c.pc = "discard" /\ c.tab \in Tab /\ Finished(o) /\ Closes({c.tab})
           /\ UNCHANGED events \/ Raise("removed", c.tab, None)
<1>1. PICK t : t = call[o].tab /\ t \in Tab /\ call[o].pc = "discard"
  BY CallFacts DEF Discard, At, CallOK, InGrant, Granting
<1>2. UNCHANGED events \/ Raise("removed", t, None)
  BY <1>1 DEF Discard, Raise
<1>3. QED  BY <1>1, <1>2 DEF Discard

LEMMA MovesRevokeBegin ==
    ASSUME TypeInv, NEW o \in Op, RevokeBegin(o)
    PROVE  /\ call[o].pc = "queued" /\ call[o].kind = "removed"
           /\ \E x \in Call : Walks(o, x, {"pc"}) /\ x.pc = "revoke"
BY Walked1 DEF RevokeBegin, Starts, Place

LEMMA MovesMovedBegin ==
    ASSUME TypeInv, NEW o \in Op, MovedBegin(o)
    PROVE  LET c == call[o] IN
           /\ c.pc = "queued" /\ c.kind = "moved" /\ c.tab \in Tab
           /\ \/ ~Owned(c.tab) /\ Finished(o)
              \/ \E x \in Call : /\ Walks(o, x, {"pc", "group"}) /\ x.pc = "where"
                                 /\ \E k \in Task : /\ c.tab \in ledger[k].tabs
                                                    /\ x.group = ledger[k].group
<1>1. PICK c : c = call[o] /\ c \in Call /\ c.pc = "queued" /\ c.kind = "moved" /\ c.tab \in Tab
  BY CallFacts DEF MovedBegin, Starts, CallOK
<1>2. CASE ~Owned(c.tab)
  BY <1>1, <1>2 DEF MovedBegin
<1>3. CASE Owned(c.tab)
  <2>1. PICK k \in Task : k = OwnerOf(c.tab) /\ c.tab \in ledger[k].tabs
    BY <1>3, OwnerIs
  <2>2. ledger[k].group \in Groups
    BY LedgerFacts DEF TaskRecord
  <2>3. PICK d : d = [c EXCEPT !.group = ledger[k].group]
    OBVIOUS
  <2>4. Goto(o, d, "where") /\ UNCHANGED chain
    BY <1>1, <1>3, <2>1, <2>3 DEF MovedBegin
  <2>5. d \in Call /\ Keeps(d, call[o], {"pc", "group"}) /\ d.group = ledger[k].group
    BY <1>1, <2>2, <2>3 DEF Call, Keeps
  <2>6. "where" \in Place /\ "pc" \in {"pc", "group"}
    BY DEF Place
  <2>7. PICK x \in Call : Walks(o, x, {"pc", "group"}) /\ Keeps(x, d, {"pc"}) /\ x.pc = "where"
    BY <2>4, <2>5, <2>6, Walked
  <2>8. x.group = ledger[k].group
    BY <2>5, <2>7 DEF Keeps
  <2>9. QED  BY <1>1, <2>1, <2>7, <2>8
<1>4. QED  BY <1>2, <1>3

LEMMA MovesMovedWhere ==
    ASSUME TypeInv, NEW o \in Op, MovedWhere(o)
    PROVE  LET c == call[o] IN
           /\ c.pc = "where" /\ c.kind = "moved" /\ c.tab \in Tab
           /\ \/ InGroup(c.tab, c.group) /\ Finished(o)
              \/ /\ ~InGroup(c.tab, c.group)
                 /\ \E x \in Call : Walks(o, x, {"pc"}) /\ x.pc = "revoke"
<1>1. call[o].pc = "where" /\ call[o].kind = "moved" /\ call[o].tab \in Tab
  BY CallFacts DEF MovedWhere, At, CallOK
<1>2. QED  BY <1>1, Walked1 DEF MovedWhere, Place

(* The ledger without a tab, or without those that reconcile found gone. *)
Revoked(t) == [k \in Task |-> IF t \in ledger[k].tabs THEN Without(ledger[k], {t}) ELSE ledger[k]]
Gone(k, pairs) == {t \in ledger[k].tabs : <<t, ledger[k].group>> \notin pairs}
Swept(pairs) ==
    [k \in Task |-> IF Gone(k, pairs) = {} THEN ledger[k]
                    ELSE Without(ledger[k], Gone(k, pairs))]

LEMMA MovesRevoke ==
    ASSUME TypeInv, NEW o \in Op, Revoke(o)
    PROVE  LET c == call[o]
               t == IF c.then = "group" THEN c.tab ELSE Subject(c)
           IN
           /\ c.pc = "revoke" /\ Stored(Revoked(t))
           /\ \/ Owned(t) /\ \E x \in Call : Walks(o, x, {"pc"}) /\ x.pc = "publish"
              \/ /\ ~Owned(t) /\ c.then = "group"
                 /\ \E x \in Call : Walks(o, x, {"pc"}) /\ x.pc = "group"
              \/ ~Owned(t) /\ c.then = "done" /\ Finished(o)
<1>1. PICK c : c = call[o] /\ c \in Call /\ c.pc = "revoke"
  BY CallFacts DEF Revoke, At
<1>2. PICK t : t = IF c.then = "group" THEN c.tab ELSE Subject(c)
  OBVIOUS
<1>3. /\ Stored(Revoked(t))
      /\ IF Owned(t) THEN Goto(o, c, "publish") /\ UNCHANGED chain
         ELSE IF c.then = "group" THEN Goto(o, c, "group") /\ UNCHANGED chain
         ELSE Finished(o)
  BY <1>1, <1>2 DEF Revoke, At, Revoked
<1>4. "publish" \in Place /\ "group" \in Place /\ c.then \in {"done", "group"}
  BY <1>1 DEF Place, Granting, Call
<1>5. QED  BY <1>1, <1>2, <1>3, <1>4, Walked1

LEMMA MovesReconcileBegin ==
    ASSUME TypeInv, NEW o \in Op, ReconcileBegin(o)
    PROVE  /\ call[o].pc = "queued" /\ call[o].kind = "reconcile"
           /\ \E x \in Call :
                /\ Walks(o, x, {"pc", "pairs"}) /\ x.pc = "sweep"
                /\ x.pairs = {<<t, tab[t].group>> : t \in {u \in Tab : IsOpen(u)}}
<1>1. PICK c : c = call[o] /\ c \in Call /\ c.pc = "queued" /\ c.kind = "reconcile"
  BY CallFacts DEF ReconcileBegin, Starts
<1>2. PICK s : s = {<<t, tab[t].group>> : t \in {u \in Tab : IsOpen(u)}}
  OBVIOUS
<1>3. PICK d : d = [c EXCEPT !.pairs = s]
  OBVIOUS
<1>4. s \in SUBSET ((Tab \X Groups) \cup (Task \X Tab))
  <2>1. \A t \in Tab : tab[t].group \in Groups
    BY DEF TypeInv, TypeOK, Groups
  <2>2. \A t \in Tab : <<t, tab[t].group>> \in Tab \X Groups
    BY <2>1
  <2>3. QED  BY <1>2, <2>2
<1>5. Goto(o, d, "sweep") /\ UNCHANGED chain
  BY <1>1, <1>2, <1>3 DEF ReconcileBegin
<1>6. d \in Call /\ Keeps(d, call[o], {"pc", "pairs"}) /\ d.pairs = s
  BY <1>1, <1>3, <1>4 DEF Call, Keeps
<1>7. "sweep" \in Place /\ "pc" \in {"pc", "pairs"}
  BY DEF Place
<1>8. PICK x \in Call : Walks(o, x, {"pc", "pairs"}) /\ Keeps(x, d, {"pc"}) /\ x.pc = "sweep"
  BY <1>5, <1>6, <1>7, Walked
<1>9. x.pairs = s
  BY <1>6, <1>8 DEF Keeps
<1>10. QED  BY <1>1, <1>2, <1>8, <1>9

LEMMA MovesSweep ==
    ASSUME TypeInv, NEW o \in Op, Sweep(o)
    PROVE  /\ call[o].pc = "sweep" /\ call[o].kind = "reconcile" /\ Stored(Swept(call[o].pairs))
           /\ \E x \in Call : Walks(o, x, {"pc", "pairs"}) /\ x.pc = "publish" /\ x.pairs = {}
<1>1. PICK c : c = call[o] /\ c \in Call /\ c.pc = "sweep" /\ c.kind = "reconcile"
  BY CallFacts DEF Sweep, At, CallOK
<1>2. PICK d : d = [c EXCEPT !.pairs = {}]
  OBVIOUS
<1>3. Goto(o, d, "publish") /\ UNCHANGED chain /\ Stored(Swept(c.pairs))
  BY <1>1, <1>2 DEF Sweep, Swept, Gone
<1>4. d \in Call /\ Keeps(d, call[o], {"pc", "pairs"}) /\ d.pairs = {}
  BY <1>1, <1>2 DEF Call, Keeps
<1>5. "publish" \in Place /\ "pc" \in {"pc", "pairs"}
  BY DEF Place
<1>6. PICK x \in Call : Walks(o, x, {"pc", "pairs"}) /\ Keeps(x, d, {"pc"}) /\ x.pc = "publish"
  BY <1>3, <1>4, <1>5, Walked
<1>7. x.pairs = {}
  BY <1>4, <1>6 DEF Keeps
<1>8. QED  BY <1>1, <1>3, <1>6, <1>7

LEMMA MovesEndBegin ==
    ASSUME TypeInv, NEW o \in Op, EndBegin(o)
    PROVE  LET c == call[o] IN
           /\ c.pc = "queued" /\ c.kind \in EndKinds /\ c.task \in Task
           /\ \/ Finished(o) /\ (ended' = ended \/ ended' = ended \cup {c.task})
                 /\ staged' \subseteq staged
              \/ /\ ended' = ended /\ staged' = staged
                 /\ \E x \in Call :
                      /\ Walks(o, x, {"pc", "seen", "keep"})
                      /\ x.pc = IF c.kind = "close" THEN "forget" ELSE "classify"
                      /\ x.seen = ledger[c.task] /\ x.keep \subseteq Tab
                      /\ x.keep \subseteq x.seen.tabs
                      /\ c.kind = "auto" => x.seen.tabs \ x.seen.created \subseteq x.keep
<1>1. PICK c : /\ c = call[o] /\ c \in Call /\ c.pc = "queued"
               /\ c.kind \in EndKinds /\ c.task \in Task
  BY CallFacts DEF EndBegin, Starts, CallOK
<1>2. PICK record : record = ledger[c.task] /\ record \in TaskRecord
  BY <1>1, LedgerFacts
<1>3. PICK deferred \in BOOLEAN : deferred <=>
         c.kind # "close" /\ (c.task \in staged
           \/ (record.known /\ c.kind = "auto" /\ policy = "ask"))
  OBVIOUS
<1>4. PICK asked \in KeepLists(c, record) :
         IF deferred \/ asked = None \/ ~record.known
         THEN /\ Finished(o)
              /\ ended' = IF deferred \/ asked = None THEN ended ELSE ended \cup {c.task}
              /\ staged' = IF c.kind = "close" THEN staged \ {c.task} ELSE staged
         ELSE /\ Goto(o, [c EXCEPT !.seen = record, !.keep = Kept(c, record, asked)],
                      IF c.kind = "close" THEN "forget" ELSE "classify")
              /\ UNCHANGED <<chain, ended, staged>>
  BY <1>1, <1>2, <1>3, Zenon DEF EndBegin
<1>4a. PICK keep : keep = Kept(c, record, asked)
  OBVIOUS
<1>4b. asked # None => asked \subseteq record.tabs
  BY DEF KeepLists
<1>4c. asked # None =>
        /\ keep \subseteq record.tabs /\ record.tabs \subseteq Tab
        /\ c.kind = "auto" => record.tabs \ record.created \subseteq keep
  BY <1>2, <1>4b, <1>4a DEF Kept, TaskRecord
<1>5. PICK d : d = [c EXCEPT !.seen = record, !.keep = keep]
  OBVIOUS
<1>6. PICK pc : pc = IF c.kind = "close" THEN "forget" ELSE "classify"
  OBVIOUS
<1>7. \/ /\ Finished(o) /\ (ended' = ended \/ ended' = ended \cup {c.task})
         /\ staged' \subseteq staged
      \/ Goto(o, d, pc) /\ UNCHANGED <<chain, ended, staged>> /\ asked # None
  <2>1. CASE deferred \/ asked = None \/ ~record.known
    BY <1>4, <2>1
  <2>2. CASE ~(deferred \/ asked = None \/ ~record.known)
    BY <1>4, <1>5, <1>6, <1>4a, <2>2, Zenon
  <2>3. QED  BY <2>1, <2>2
<1>8. CASE Goto(o, d, pc) /\ UNCHANGED <<chain, ended, staged>> /\ asked # None
  <2>1. d \in Call /\ Keeps(d, call[o], {"pc", "seen", "keep"}) /\ d.seen = record /\ d.keep = keep
    <3>1. keep \in SUBSET (Tab \cup (Task \X Groups))
      BY <1>8, <1>4c
    <3>2. d \in Call /\ d.seen = record /\ d.keep = keep
      BY <1>1, <1>2, <1>5, <3>1 DEF Call
    <3>3. Keeps(d, c, {"pc", "seen", "keep"})
      BY <1>1, <1>5 DEF Call, Keeps
    <3>4. QED  BY <1>1, <3>2, <3>3
  <2>2. pc \in Place /\ "pc" \in {"pc", "seen", "keep"}
    BY <1>6 DEF Place, Ending
  <2>3. PICK x \in Call : Walks(o, x, {"pc", "seen", "keep"}) /\ Keeps(x, d, {"pc"}) /\ x.pc = pc
    BY <1>8, <2>1, <2>2, Walked
  <2>4. x.seen = record /\ x.keep = keep
    BY <2>1, <2>3 DEF Keeps
  <2>5. QED  BY <1>1, <1>2, <1>4c, <1>6, <1>8, <2>3, <2>4
<1>9. QED  BY <1>1, <1>7, <1>8

LEMMA MovesClassify ==
    ASSUME TypeInv, NEW o \in Op, Classify(o)
    PROVE  LET c == call[o] IN
           /\ c.pc = "classify"
           /\ \E x \in Call :
                /\ Walks(o, x, {"pc", "keep", "doomed"}) /\ x.pc = "forget"
                /\ x.keep = {t \in c.seen.tabs : IsOpen(t)
                               /\ (t \in c.keep \/ ~InGroup(t, c.seen.group))}
                /\ x.doomed = {t \in c.seen.tabs \ c.keep : InGroup(t, c.seen.group)}
                /\ x.keep \subseteq Tab
<1>1. PICK c : c = call[o] /\ c \in Call /\ c.pc = "classify"
  BY CallFacts DEF Classify, At
<1>2. PICK keep, doomed :
         /\ keep = {t \in c.seen.tabs : IsOpen(t) /\ (t \in c.keep \/ ~InGroup(t, c.seen.group))}
         /\ doomed = {t \in c.seen.tabs \ c.keep : InGroup(t, c.seen.group)}
  OBVIOUS
<1>3. keep \in SUBSET Tab /\ doomed \in SUBSET Tab
  BY <1>1, <1>2 DEF Call, TaskRecord
<1>4. PICK d : d = [c EXCEPT !.keep = keep, !.doomed = doomed]
  OBVIOUS
<1>5. Goto(o, d, "forget") /\ UNCHANGED chain
  BY <1>1, <1>2, <1>4 DEF Classify
<1>6. /\ d \in Call /\ Keeps(d, call[o], {"pc", "keep", "doomed"})
      /\ d.keep = keep /\ d.doomed = doomed
  BY <1>1, <1>3, <1>4 DEF Call, Keeps
<1>7. "forget" \in Place /\ "pc" \in {"pc", "keep", "doomed"}
  BY DEF Place, Ending
<1>8. PICK x \in Call : /\ Walks(o, x, {"pc", "keep", "doomed"}) /\ Keeps(x, d, {"pc"})
                        /\ x.pc = "forget"
  BY <1>5, <1>6, <1>7, Walked
<1>9. x.keep = keep /\ x.doomed = doomed
  BY <1>6, <1>8 DEF Keeps
<1>10. QED  BY <1>1, <1>2, <1>3, <1>8, <1>9

LEMMA MovesForget ==
    ASSUME TypeInv, NEW o \in Op, Forget(o)
    PROVE  LET c == call[o] IN
           /\ c.pc = "forget" /\ c.task \in Task /\ c.kind \in EndKinds
           /\ Stored([ledger EXCEPT ![c.task] = NoTask])
           /\ ended' = ended \cup {c.task} /\ staged' \subseteq staged
           /\ \E x \in Call :
                /\ Walks(o, x, {"pc", "doomed"}) /\ x.pc = "release"
                /\ x.doomed = IF c.kind = "close" THEN ledger[c.task].tabs ELSE c.doomed
<1>1. PICK c : /\ c = call[o] /\ c \in Call /\ c.pc = "forget"
               /\ c.task \in Task /\ c.kind \in EndKinds
  BY CallFacts DEF Forget, At, CallOK, Ending
<1>2. PICK doomed : doomed = IF c.kind = "close" THEN ledger[c.task].tabs ELSE c.doomed
  OBVIOUS
<1>3. ledger[c.task] \in TaskRecord
  BY <1>1, LedgerFacts
<1>4. doomed \in SUBSET Tab
  BY <1>1, <1>2, <1>3 DEF Call, TaskRecord
<1>5. PICK d : d = IF c.kind = "close" THEN [c EXCEPT !.doomed = ledger[c.task].tabs] ELSE c
  OBVIOUS
<1>6. Goto(o, d, "release") /\ UNCHANGED chain
  BY <1>1, <1>5 DEF Forget
<1>7. d \in Call /\ Keeps(d, call[o], {"pc", "doomed"}) /\ d.doomed = doomed
  <2>1. CASE c.kind = "close"
    BY <1>1, <1>2, <1>4, <1>5, <2>1 DEF Call, Keeps
  <2>2. CASE c.kind # "close"
    BY <1>1, <1>2, <1>5, <2>2 DEF Keeps
  <2>3. QED  BY <2>1, <2>2
<1>8. "release" \in Place /\ "pc" \in {"pc", "doomed"}
  BY DEF Place, Ending
<1>9. PICK x \in Call : Walks(o, x, {"pc", "doomed"}) /\ Keeps(x, d, {"pc"}) /\ x.pc = "release"
  BY <1>6, <1>7, <1>8, Walked
<1>10. x.doomed = doomed
  BY <1>7, <1>9 DEF Keeps
<1>11. QED  BY <1>1, <1>2, <1>9, <1>10 DEF Forget

LEMMA MovesRelease ==
    ASSUME TypeInv, NEW o \in Op, Release(o)
    PROVE  LET c == call[o] IN
           /\ c.pc = "release" /\ c.keep \subseteq Tab /\ c.kind \in EndKinds
           /\ \E x \in Call :
                /\ Walks(o, x, {"pc", "doomed"}) /\ x.pc = "remove"
                /\ x.doomed = {t \in c.doomed : InGroup(t, c.seen.group)}
<1>1. PICK c : /\ c = call[o] /\ c \in Call /\ c.pc = "release"
               /\ c.keep \subseteq Tab /\ c.kind \in EndKinds
  BY CallFacts DEF Release, At, CallOK, Ending
<1>2. PICK doomed : doomed = {t \in c.doomed : InGroup(t, c.seen.group)}
  OBVIOUS
<1>3. doomed \in SUBSET Tab
  BY <1>1, <1>2 DEF Call
<1>4. PICK d : d = [c EXCEPT !.doomed = doomed]
  OBVIOUS
<1>5. Goto(o, d, "remove") /\ UNCHANGED chain
  BY <1>1, <1>2, <1>4 DEF Release
<1>6. d \in Call /\ Keeps(d, call[o], {"pc", "doomed"}) /\ d.doomed = doomed
  BY <1>1, <1>3, <1>4 DEF Call, Keeps
<1>7. "remove" \in Place /\ "pc" \in {"pc", "doomed"}
  BY DEF Place, Ending
<1>8. PICK x \in Call : Walks(o, x, {"pc", "doomed"}) /\ Keeps(x, d, {"pc"}) /\ x.pc = "remove"
  BY <1>5, <1>6, <1>7, Walked
<1>9. x.doomed = doomed
  BY <1>6, <1>8 DEF Keeps
<1>10. QED  BY <1>1, <1>2, <1>8, <1>9

LEMMA MovesRemove ==
    ASSUME TypeInv, NEW o \in Op, Remove(o)
    PROVE  LET c == call[o] IN
           /\ c.pc = "remove" /\ c.kind \in EndKinds
           /\ \E x \in Call :
                /\ Walks(o, x, {"pc", "then", "doomed", "keep"})
                /\ x.pc = "publish" /\ x.then = "done" /\ x.doomed = {} /\ x.keep = {}
<1>1. PICK c : c = call[o] /\ c \in Call /\ c.pc = "remove" /\ c.kind \in EndKinds
  BY CallFacts DEF Remove, At, CallOK, Ending
<1>2. PICK d : d = [c EXCEPT !.then = "done", !.doomed = {}, !.keep = {}]
  OBVIOUS
<1>3. Goto(o, d, "publish") /\ UNCHANGED chain
  BY <1>1, <1>2 DEF Remove
<1>4. /\ d \in Call /\ Keeps(d, call[o], {"pc", "then", "doomed", "keep"})
      /\ d.then = "done" /\ d.doomed = {} /\ d.keep = {}
  BY <1>1, <1>2 DEF Call, Keeps
<1>5. "publish" \in Place /\ "pc" \in {"pc", "then", "doomed", "keep"}
  BY DEF Place
<1>6. PICK x \in Call : /\ Walks(o, x, {"pc", "then", "doomed", "keep"}) /\ Keeps(x, d, {"pc"})
                        /\ x.pc = "publish"
  BY <1>3, <1>4, <1>5, Walked
<1>7. x.then = "done" /\ x.doomed = {} /\ x.keep = {}
  BY <1>4, <1>6 DEF Keeps
<1>8. QED  BY <1>1, <1>6, <1>7

LEMMA MovesAnnounce ==
    ASSUME TypeInv, NEW o \in Op, Announce(o)
    PROVE  /\ call[o].pc = "idle" /\ chain' = chain
           /\ \E x \in Call : /\ Becomes(o, x) /\ Keeps(x, Idle, {"pc", "kind"})
                              /\ x.pc = "publish" /\ x.kind = "announce"
<1>1. PICK d : d = [Idle EXCEPT !.kind = "announce"]
  OBVIOUS
<1>2. d \in Call /\ Keeps(d, Idle, {"pc", "kind"}) /\ d.kind = "announce"
  BY <1>1, IdleIsCall DEF Call, Keeps, Kind
<1>3. Goto(o, d, "publish") /\ call[o].pc = "idle" /\ chain' = chain
  BY <1>1 DEF Announce
<1>4. "publish" \in Place
  BY DEF Place
<1>5. PICK x \in Call : Becomes(o, x) /\ Keeps(x, d, {"pc"}) /\ x.pc = "publish"
  BY <1>2, <1>3, <1>4, Went
<1>6. Keeps(x, Idle, {"pc", "kind"}) /\ x.kind = "announce"
  BY <1>2, <1>5 DEF Keeps
<1>7. QED  BY <1>3, <1>5, <1>6

(* The ownership pairs and the groups that a publication reads. *)
Pairs == {p \in Task \X Tab : p[2] \in ledger[p[1]].tabs}

LEMMA MovesPublishRead ==
    ASSUME TypeInv, NEW o \in Op, PublishRead(o)
    PROVE  /\ call[o].pc = "publish" /\ publisher = None /\ publisher' = o
           /\ \E x \in Call : /\ Walks(o, x, {"pc", "pairs", "keep"})
                              /\ x.pc = "send" /\ x.pairs = Pairs
<1>1. PICK c : c = call[o] /\ c \in Call /\ c.pc = "publish"
  BY CallFacts DEF PublishRead, At
<1>2. \A k \in Task : <<k, ledger[k].group>> \in Task \X Groups
  BY LedgerType DEF TaskRecord
<1>3. PICK s, g : s = Pairs /\ g = {<<k, ledger[k].group>> : k \in Task}
  OBVIOUS
<1>4. s \in SUBSET ((Tab \X Groups) \cup (Task \X Tab))
  BY <1>3 DEF Pairs
<1>5. g \in SUBSET (Tab \cup (Task \X Groups))
  BY <1>2, <1>3
<1>6. PICK d : d = [c EXCEPT !.pairs = s, !.keep = g]
  OBVIOUS
<1>7. Goto(o, d, "send") /\ UNCHANGED chain
  BY <1>1, <1>3, <1>6 DEF PublishRead, Pairs
<1>8. d \in Call /\ Keeps(d, call[o], {"pc", "pairs", "keep"}) /\ d.pairs = s
  BY <1>1, <1>4, <1>5, <1>6 DEF Call, Keeps
<1>9. "send" \in Place /\ "pc" \in {"pc", "pairs", "keep"}
  BY DEF Place
<1>10. PICK x \in Call : Walks(o, x, {"pc", "pairs", "keep"}) /\ Keeps(x, d, {"pc"}) /\ x.pc = "send"
  BY <1>7, <1>8, <1>9, Walked
<1>11. x.pairs = s
  BY <1>8, <1>10 DEF Keeps
<1>12. QED  BY <1>1, <1>3, <1>10, <1>11 DEF PublishRead

LEMMA MovesPublishSend ==
    ASSUME TypeInv, NEW o \in Op, PublishSend(o)
    PROVE  LET c == call[o] IN
           /\ c.pc = "send" /\ publisher' = None
           /\ \A p \in host' : p \in c.pairs /\ IsOpen(p[2])
           /\ \/ /\ c.then = "group"
                 /\ \E x \in Call : /\ Walks(o, x, {"pc", "pairs", "keep"})
                                    /\ x.pc = "group"
              \/ c.then = "done" /\ Finished(o)
<1>1. PICK c : c = call[o] /\ c \in Call /\ c.pc = "send"
  BY CallFacts DEF PublishSend, At
<1>2. \A p \in host' : p \in c.pairs /\ IsOpen(p[2])
  BY <1>1 DEF PublishSend, InGroup
<1>3. CASE c.then = "group"
  <2>1. PICK d : d = [c EXCEPT !.pairs = {}, !.keep = {}]
    OBVIOUS
  <2>2. Goto(o, d, "group") /\ UNCHANGED chain
    BY <1>1, <1>3, <2>1 DEF PublishSend
  <2>3. d \in Call /\ Keeps(d, call[o], {"pc", "pairs", "keep"})
    BY <1>1, <2>1 DEF Call, Keeps
  <2>4. "group" \in Place /\ "pc" \in {"pc", "pairs", "keep"}
    BY DEF Place, Granting
  <2>5. PICK x \in Call : Walks(o, x, {"pc", "pairs", "keep"}) /\ Keeps(x, d, {"pc"}) /\ x.pc = "group"
    BY <2>2, <2>3, <2>4, Walked
  <2>6. QED  BY <1>1, <1>2, <1>3, <2>5 DEF PublishSend
<1>4. CASE c.then # "group"
  <2>1. c.then = "done"
    BY <1>1, <1>4 DEF Call
  <2>2. QED  BY <1>1, <1>2, <1>4, <2>1 DEF PublishSend
<1>5. QED  BY <1>3, <1>4

LEMMA MovesRestart ==
    ASSUME TypeInv, Restart
    PROVE  /\ ended' = {} /\ publisher' = None /\ call' \in [Op -> Call]
           /\ \E o \in Op, x \in Call :
                /\ chain' = <<o>> /\ call'[o] = x
                /\ Keeps(x, Idle, {"pc", "kind"}) /\ x.pc = "queued" /\ x.kind = "reconcile"
                /\ \A p \in Op : p # o => call'[p] = Idle
<1>1. PICK x : x = [Idle EXCEPT !.kind = "reconcile", !.pc = "queued"]
  OBVIOUS
<1>2. PICK o \in Op : call' = [p \in Op |-> IF p = o THEN x ELSE Idle] /\ chain' = <<o>>
  BY <1>1 DEF Restart
<1>3. x \in Call /\ Keeps(x, Idle, {"pc", "kind"}) /\ x.pc = "queued" /\ x.kind = "reconcile"
  <2>1. "reconcile" \in Kind /\ "queued" \in Place
    BY DEF Kind, Place
  <2>2. QED  BY <1>1, <2>1, IdleIsCall DEF Call, Keeps
<1>4. QED  BY <1>2, <1>3, IdleIsCall DEF Restart

--------------------------------
(* What a step leaves alone *)

TabsStay == UNCHANGED <<tab, nextGroup, touched>>
LedgerStays == UNCHANGED <<ledger, ambiguous>>
TasksStay == UNCHANGED <<staged, policy, ended>>
GhostsStay == UNCHANGED <<letGo, closedForTask>>
HostStays == UNCHANGED <<publisher, host>>
FaultsStay == UNCHANGED <<overruns, restarts>>

(* The steps that only take an operation further. *)
Walking(o) ==
    \/ AssertBegin(o) \/ AssertCheck(o) \/ (\E t \in Tab : AdoptBegin(o, t))
    \/ GrantLook(o) \/ GrantVerify(o) \/ RevokeBegin(o) \/ MovedBegin(o) \/ MovedWhere(o)
    \/ ReconcileBegin(o) \/ Classify(o)

LEMMA WalkingStays ==
    ASSUME NEW o \in Op, Walking(o)
    PROVE  TabsStay /\ UNCHANGED events /\ LedgerStays /\ TasksStay /\ GhostsStay /\ HostStays
             /\ FaultsStay
<1>1. SUFFICES Quietly /\ UNCHANGED <<stored, ended, publisher, host>>
  BY DEF Quietly, chromeVars, stored, ghosts, faults, TabsStay, LedgerStays, TasksStay,
     GhostsStay, HostStays, FaultsStay
<1>2. CASE AssertBegin(o)
  BY <1>2 DEF AssertBegin
<1>3. CASE AssertCheck(o)
  BY <1>3 DEF AssertCheck
<1>4. ASSUME NEW t \in Tab, AdoptBegin(o, t)
      PROVE  Quietly /\ UNCHANGED <<stored, ended, publisher, host>>
  BY <1>4 DEF AdoptBegin
<1>5. CASE GrantLook(o)
  BY <1>5 DEF GrantLook
<1>6. CASE GrantVerify(o)
  BY <1>6 DEF GrantVerify
<1>7. CASE RevokeBegin(o)
  BY <1>7 DEF RevokeBegin
<1>8. CASE MovedBegin(o)
  BY <1>8 DEF MovedBegin
<1>9. CASE MovedWhere(o)
  BY <1>9 DEF MovedWhere
<1>10. CASE ReconcileBegin(o)
  BY <1>10 DEF ReconcileBegin
<1>11. CASE Classify(o)
  BY <1>11 DEF Classify
<1>12. QED  BY <1>2, <1>3, <1>4, <1>5, <1>6, <1>7, <1>8, <1>9, <1>10, <1>11 DEF Walking

(* The steps that open a tab or move it. *)
LEMMA OpeningStays ==
    ASSUME NEW o \in Op,
           AssertRecheck(o) \/ (\E t \in Tab : OpenBegin(o, t)) \/ GrantUndo(o) \/ Discard(o)
             \/ GrantGroup(o)
    PROVE  UNCHANGED touched /\ LedgerStays /\ TasksStay /\ GhostsStay /\ HostStays /\ FaultsStay
<1> USE DEF stored, ghosts, faults, LedgerStays, TasksStay, GhostsStay, HostStays, FaultsStay
<1>1. CASE AssertRecheck(o)
  BY <1>1 DEF AssertRecheck
<1>2. ASSUME NEW t \in Tab, OpenBegin(o, t)
      PROVE  UNCHANGED touched /\ LedgerStays /\ TasksStay /\ GhostsStay /\ HostStays /\ FaultsStay
  BY <1>2 DEF OpenBegin
<1>3. CASE GrantUndo(o)
  BY <1>3 DEF GrantUndo
<1>4. CASE Discard(o)
  BY <1>4 DEF Discard
<1>5. CASE GrantGroup(o)
  BY <1>5 DEF GrantGroup
<1>6. QED  BY <1>1, <1>2, <1>3, <1>4, <1>5

(* The steps that store a ledger. *)
LEMMA StoringStays ==
    ASSUME NEW o \in Op,
           GrantMark(o) \/ GrantRecord(o) \/ Revoke(o) \/ Sweep(o) \/ Forget(o)
    PROVE  /\ TabsStay /\ UNCHANGED events /\ GhostsStay /\ HostStays /\ FaultsStay
           /\ TasksStay \/ Forget(o)
<1> USE DEF chromeVars, stored, faults, TabsStay, TasksStay, GhostsStay, HostStays, FaultsStay
<1>1. CASE GrantMark(o)
  BY <1>1 DEF GrantMark
<1>2. CASE GrantRecord(o)
  BY <1>2 DEF GrantRecord
<1>3. CASE Revoke(o)
  BY <1>3 DEF Revoke
<1>4. CASE Sweep(o)
  BY <1>4 DEF Sweep
<1>5. CASE Forget(o)
  BY <1>5 DEF Forget
<1>6. QED  BY <1>1, <1>2, <1>3, <1>4, <1>5

(* The other steps of operations. *)
LEMMA OthersStay ==
    ASSUME NEW o \in Op
    PROVE  /\ EndBegin(o) => /\ TabsStay /\ UNCHANGED events /\ LedgerStays /\ GhostsStay
                             /\ HostStays /\ FaultsStay /\ UNCHANGED policy
           /\ Release(o) => /\ UNCHANGED <<nextGroup, touched, events, closedForTask>>
                            /\ LedgerStays /\ TasksStay /\ HostStays /\ FaultsStay
           /\ Remove(o) => /\ UNCHANGED <<nextGroup, touched, events>>
                           /\ LedgerStays /\ TasksStay /\ HostStays /\ FaultsStay
           /\ PublishRead(o) => /\ TabsStay /\ UNCHANGED <<events, host>> /\ LedgerStays
                                /\ TasksStay /\ GhostsStay /\ FaultsStay
           /\ PublishSend(o) => /\ TabsStay /\ UNCHANGED events /\ LedgerStays
                                /\ TasksStay /\ GhostsStay /\ FaultsStay
<1> USE DEF Quietly, chromeVars, stored, ghosts, faults, TabsStay, LedgerStays, TasksStay,
       GhostsStay, HostStays, FaultsStay
<1>1. ASSUME EndBegin(o)
      PROVE  /\ TabsStay /\ UNCHANGED events /\ LedgerStays /\ GhostsStay
             /\ HostStays /\ FaultsStay /\ UNCHANGED policy
  BY <1>1 DEF EndBegin
<1>2. ASSUME Release(o)
      PROVE  /\ UNCHANGED <<nextGroup, touched, events, closedForTask>>
             /\ LedgerStays /\ TasksStay /\ HostStays /\ FaultsStay
  BY <1>2 DEF Release
<1>3. ASSUME Remove(o)
      PROVE  /\ UNCHANGED <<nextGroup, touched, events>>
             /\ LedgerStays /\ TasksStay /\ HostStays /\ FaultsStay
  BY <1>3 DEF Remove
<1>4. ASSUME PublishRead(o)
      PROVE  /\ TabsStay /\ UNCHANGED <<events, host>> /\ LedgerStays
             /\ TasksStay /\ GhostsStay /\ FaultsStay
  BY <1>4 DEF PublishRead
<1>5. ASSUME PublishSend(o)
      PROVE  /\ TabsStay /\ UNCHANGED events /\ LedgerStays
             /\ TasksStay /\ GhostsStay /\ FaultsStay
  BY <1>5 DEF PublishSend
<1>6. QED  BY <1>1, <1>2, <1>3, <1>4, <1>5

(* Submissions, deliveries, and what is not a step of an operation. *)
LEMMA CommandsStay ==
    ASSUME Commands
    PROVE  /\ TabsStay /\ UNCHANGED events /\ LedgerStays /\ TasksStay /\ GhostsStay
           /\ HostStays /\ FaultsStay
<1> USE DEF chromeVars, stored, ghosts, TabsStay, LedgerStays, TasksStay,
       GhostsStay, HostStays, FaultsStay
<1>1. ASSUME NEW o, NEW kind, NEW k, NEW t, NEW p, Submit(o, kind, k, t, p)
      PROVE  /\ TabsStay /\ UNCHANGED events /\ LedgerStays /\ TasksStay /\ GhostsStay
             /\ HostStays /\ FaultsStay
  BY <1>1 DEF Submit
<1>2. ASSUME NEW o, Announce(o)
      PROVE  /\ TabsStay /\ UNCHANGED events /\ LedgerStays /\ TasksStay /\ GhostsStay
             /\ HostStays /\ FaultsStay
  BY <1>2 DEF Announce
<1>3. (\E o, kind, k, t, p : Submit(o, kind, k, t, p)) \/ (\E o : Announce(o))
  BY DEF Commands
<1>4. QED  BY <1>1, <1>2, <1>3

LEMMA DeliverStays ==
    ASSUME NEW o \in Op, Deliver(o)
    PROVE  TabsStay /\ LedgerStays /\ TasksStay /\ GhostsStay /\ HostStays /\ FaultsStay
BY DEF Deliver, stored, ghosts, faults, TabsStay, LedgerStays, TasksStay, GhostsStay, HostStays,
   FaultsStay

LEMMA FaultStays ==
    ASSUME Overrun \/ Restart
    PROVE  /\ TabsStay /\ UNCHANGED events /\ LedgerStays /\ GhostsStay
           /\ UNCHANGED <<host, staged, policy>>
           /\ Overrun => HostStays /\ TasksStay /\ UNCHANGED <<call, restarts>>
BY DEF Overrun, Restart, chromeVars, stored, ghosts, TabsStay, LedgerStays, TasksStay, GhostsStay,
   HostStays

LEMMA ChromeStays ==
    ASSUME Chrome
    PROVE  /\ LedgerStays /\ UNCHANGED ended /\ GhostsStay /\ HostStays /\ FaultsStay
           /\ UNCHANGED <<nextGroup, call, chain>>
           /\ \/ TabsStay /\ UNCHANGED events
              \/ \E t \in Tab : \/ UserOpens(t) \/ UserCloses(t)
                                \/ \E p \in Tab : PageOpens(t, p)
                                \/ \E g \in Groups : UserMoves(t, g)
<1> USE DEF stored, ghosts, faults, TabsStay, LedgerStays, TasksStay, GhostsStay, HostStays,
       FaultsStay
<1>1. ASSUME NEW t \in Tab, \/ UserOpens(t) \/ UserCloses(t)
                            \/ \E p \in Tab : PageOpens(t, p)
                            \/ \E g \in Groups : UserMoves(t, g)
      PROVE  /\ LedgerStays /\ UNCHANGED ended /\ GhostsStay /\ HostStays /\ FaultsStay
             /\ UNCHANGED <<nextGroup, call, chain>>
  BY <1>1 DEF UserOpens, UserCloses, PageOpens, UserMoves
<1>2. ASSUME (\E p : SetPolicy(p)) \/ (\E k : Stage(k))
      PROVE  /\ LedgerStays /\ UNCHANGED ended /\ GhostsStay /\ HostStays /\ FaultsStay
             /\ UNCHANGED <<nextGroup, call, chain>> /\ TabsStay /\ UNCHANGED events
  BY <1>2 DEF SetPolicy, Stage
<1>3. \/ \E p : SetPolicy(p)
      \/ \E k : Stage(k)
      \/ \E t \in Tab : \/ UserOpens(t) \/ UserCloses(t)
                        \/ \E p \in Tab : PageOpens(t, p)
                        \/ \E g \in Groups : UserMoves(t, g)
  BY DEF Chrome, Groups
<1>4. QED  BY <1>1, <1>2, <1>3

(* Every step of an operation is one of these. *)
LEMMA StepsAre ==
    ASSUME NEW o \in Op, Steps(o)
    PROVE  \/ Walking(o)
           \/ AssertRecheck(o) \/ (\E t \in Tab : OpenBegin(o, t)) \/ GrantUndo(o) \/ Discard(o)
           \/ GrantGroup(o)
           \/ GrantMark(o) \/ GrantRecord(o) \/ Revoke(o) \/ Sweep(o) \/ Forget(o)
           \/ EndBegin(o) \/ Release(o) \/ Remove(o) \/ PublishRead(o) \/ PublishSend(o)
BY DEF Steps, Walking

--------------------------------
(* Type correctness *)

LEMMA CallTyped ==
    ASSUME TypeInv, NEW o \in Op, NEW x \in Call, Becomes(o, x), CallOK(x)
    PROVE  call' \in [Op -> Call] /\ \A p \in Op : CallOK(call'[p])
BY CallFacts DEF Becomes

LEMMA OverTyped ==
    ASSUME TypeInv, NEW o \in Op, Finished(o)
    PROVE  call' \in [Op -> Call] /\ \A p \in Op : CallOK(call'[p])
BY Over, IdleIsCall, CallTyped

(* Operations that run an assert, a begin or an end. *)
LEMMA CallTypedAssert ==
    ASSUME TypeInv, NEW o \in Op,
           AssertBegin(o) \/ AssertCheck(o) \/ AssertRecheck(o)
              \/ (\E t \in Tab : OpenBegin(o, t) \/ AdoptBegin(o, t))
    PROVE  call' \in [Op -> Call] /\ \A p \in Op : CallOK(call'[p])
<1>1. PICK c : c = call[o] /\ c \in Call /\ CallOK(c)
  BY CallFacts
<1>2. CASE AssertBegin(o)
  <2>1. CASE Finished(o)
    BY <2>1, OverTyped
  <2>2. CASE ~Finished(o)
    <3>1. PICK x \in Call : Walks(o, x, {"pc", "task", "seen"}) /\ x.pc = "check" /\ x.task \in Task
      BY <1>2, <2>2, MovesAssertBegin
    <3>2. c.kind \in {"assert", "child", "request"} /\ c.pc = "queued"
      BY <1>1, <1>2, MovesAssertBegin
    <3>3. CallOK(x)
      BY <1>1, <3>1, <3>2 DEF Walks, Keeps, CallOK, InGrant, Granting, Ending
    <3>4. QED  BY <3>1, <3>3, CallTyped DEF Walks
  <2>3. QED  BY <2>1, <2>2
<1>3. CASE AssertCheck(o)
  <2>1. PICK x \in Call : /\ Walks(o, x, {"pc", "then"})
                          /\ x.pc = "recheck" \/ (x.pc = "revoke" /\ x.then = "done")
    BY <1>3, MovesAssertCheck
  <2>2. c.pc = "check"
    BY <1>1, <1>3, MovesAssertCheck
  <2>3. CallOK(x)
    BY <1>1, <2>1, <2>2 DEF Walks, Keeps, CallOK, InGrant, Granting, Ending
  <2>4. QED  BY <2>1, <2>3, CallTyped DEF Walks
<1>4. CASE AssertRecheck(o)
  <2>1. c.pc = "recheck"
    BY <1>1, <1>4, MovesAssertRecheck
  <2>2. \/ Finished(o)
        \/ c.kind = "child" /\ \E x \in Call : Walks(o, x, {"pc"}) /\ x.pc = "look"
        \/ /\ c.kind \notin {"child", "assert"}
           /\ \E x \in Call, t \in Tab : Walks(o, x, {"pc", "tab"}) /\ x.pc = "look" /\ x.tab = t
    BY <1>1, <1>4, MovesAssertRecheck
  <2>3. CASE Finished(o)
    BY <2>3, OverTyped
  <2>4. CASE c.kind = "child" /\ \E x \in Call : Walks(o, x, {"pc"}) /\ x.pc = "look"
    <3>1. PICK x \in Call : Walks(o, x, {"pc"}) /\ x.pc = "look"
      BY <2>4
    <3>2. CallOK(x)
      BY <1>1, <2>1, <2>4, <3>1 DEF Walks, Keeps, CallOK, InGrant, Granting, Ending, Grants
    <3>3. QED  BY <3>1, <3>2, CallTyped DEF Walks
  <2>5. CASE /\ c.kind \notin {"child", "assert"}
             /\ \E x \in Call, t \in Tab : Walks(o, x, {"pc", "tab"}) /\ x.pc = "look" /\ x.tab = t
    <3>1. PICK x \in Call : Walks(o, x, {"pc", "tab"}) /\ x.pc = "look" /\ x.tab \in Tab
      BY <2>5
    <3>2. c.kind = "request"
      BY <1>1, <2>1, <2>5 DEF CallOK
    <3>3. CallOK(x)
      BY <1>1, <2>1, <3>1, <3>2 DEF Walks, Keeps, CallOK, InGrant, Granting, Ending, Grants
    <3>4. QED  BY <3>1, <3>3, CallTyped DEF Walks
  <2>6. QED  BY <2>2, <2>3, <2>4, <2>5
<1>5. ASSUME NEW t \in Tab, OpenBegin(o, t) \/ AdoptBegin(o, t)
      PROVE  call' \in [Op -> Call] /\ \A p \in Op : CallOK(call'[p])
  <2>1. PICK x \in Call : Walks(o, x, {"pc", "tab"}) /\ x.pc = "look" /\ x.tab = t
    BY <1>5, MovesBegin
  <2>2. c.kind \in {"open", "adopt"} /\ c.pc = "queued"
    BY <1>1, <1>5, MovesBegin
  <2>3. CallOK(x)
    BY <1>1, <2>1, <2>2 DEF Walks, Keeps, CallOK, InGrant, Granting, Ending, Grants
  <2>4. QED  BY <2>1, <2>3, CallTyped DEF Walks
<1>6. QED  BY <1>2, <1>3, <1>4, <1>5

LEMMA CallTypedGrant ==
    ASSUME TypeInv, NEW o \in Op,
           GrantLook(o) \/ GrantMark(o) \/ GrantGroup(o) \/ GrantVerify(o)
              \/ GrantRecord(o) \/ GrantUndo(o) \/ Discard(o)
    PROVE  call' \in [Op -> Call] /\ \A p \in Op : CallOK(call'[p])
<1>1. PICK c : c = call[o] /\ c \in Call /\ CallOK(c)
  BY CallFacts
<1>2. c.pc \in Granting
  BY <1>1 DEF GrantLook, GrantMark, GrantGroup, GrantVerify, GrantRecord, GrantUndo, Discard,
     At, Granting
<1>3. \/ Finished(o)
      \/ \E x \in Call : /\ Walks(o, x, {"pc", "was", "then", "group", "seen"})
                         /\ \/ x.pc \in Granting
                            \/ x.pc = "revoke" /\ x.then = "group"
                            \/ x.pc = "publish" /\ x.then = "done"
  <2>1. \A x \in Call : Walks(o, x, {"pc"}) => Walks(o, x, {"pc", "was", "then", "group", "seen"})
    BY DEF Walks, Keeps
  <2>2. \A x \in Call : \/ Walks(o, x, {"pc", "was"}) \/ Walks(o, x, {"pc", "was", "then"})
                        \/ Walks(o, x, {"pc", "then"}) \/ Walks(o, x, {"pc", "group", "seen"})
                        => Walks(o, x, {"pc", "was", "then", "group", "seen"})
    BY DEF Walks, Keeps
  <2>3. CASE GrantLook(o)
    BY <2>1, <2>2, <2>3, MovesLook DEF Granting
  <2>4. CASE GrantMark(o)
    BY <2>1, <2>4, MovesMark DEF Granting
  <2>5. CASE GrantGroup(o)
    BY <2>1, <2>2, <2>5, MovesGroup DEF Granting
  <2>6. CASE GrantVerify(o)
    BY <2>1, <2>6, MovesVerify DEF Granting
  <2>7. CASE GrantRecord(o)
    <3>1. \/ \E x \in Call : /\ Walks(o, x, {"pc", "then"}) /\ x.then = "done"
                             /\ x.pc \in {"publish", "undo"}
          \/ \E x \in Call : Walks(o, x, {"pc"}) /\ x.pc = "undo"
      BY <2>7, MovesRecord
    <3>2. QED  BY <2>1, <2>2, <3>1 DEF Granting
  <2>8. CASE GrantUndo(o)
    BY <2>1, <2>8, MovesUndo DEF Granting
  <2>9. CASE Discard(o)
    BY <2>9, MovesDiscard
  <2>10. QED  BY <2>3, <2>4, <2>5, <2>6, <2>7, <2>8, <2>9
<1>4. ASSUME NEW x \in Call, Walks(o, x, {"pc", "was", "then", "group", "seen"}),
             \/ x.pc \in Granting
             \/ x.pc = "revoke" /\ x.then = "group"
             \/ x.pc = "publish" /\ x.then = "done"
      PROVE  call' \in [Op -> Call] /\ \A p \in Op : CallOK(call'[p])
  <2>1. c.tab \in Tab /\ c.task \in Task /\ c.kind \in Grants
    BY <1>1, <1>2 DEF CallOK, InGrant
  <2>2. /\ x.kind = c.kind /\ x.tab = c.tab /\ x.task = c.task /\ x.parent = c.parent
    BY <1>1, <1>4 DEF Walks, Keeps
  <2>3. x.pc \in {"look", "mark", "group", "verify", "record", "undo", "discard", "revoke", "publish"}
    BY <1>4 DEF Granting
  <2>4. CallOK(x)
    BY <1>1, <2>1, <2>2, <2>3 DEF CallOK, Ending, Grants
  <2>5. QED  BY <1>4, <2>4, CallTyped DEF Walks
<1>5. QED  BY <1>3, <1>4, OverTyped

LEMMA CallTypedRevoke ==
    ASSUME TypeInv, NEW o \in Op,
           RevokeBegin(o) \/ MovedBegin(o) \/ MovedWhere(o) \/ Revoke(o)
              \/ ReconcileBegin(o) \/ Sweep(o) \/ PublishRead(o) \/ PublishSend(o)
    PROVE  call' \in [Op -> Call] /\ \A p \in Op : CallOK(call'[p])
<1>1. PICK c : c = call[o] /\ c \in Call /\ CallOK(c)
  BY CallFacts
<1>2. c.pc \in {"queued", "where", "revoke", "sweep", "publish", "send"}
      /\ (c.pc = "queued" => c.kind \in {"removed", "moved", "reconcile"})
  BY <1>1 DEF RevokeBegin, MovedBegin, MovedWhere, Revoke, ReconcileBegin, Sweep, PublishRead,
     PublishSend, At, Starts
<1>3. \/ Finished(o)
      \/ \E x \in Call :
            /\ Walks(o, x, {"pc", "group", "pairs", "keep"})
            /\ \/ x.pc = "revoke" /\ c.pc \in {"queued", "where"} /\ c.kind \in {"removed", "moved"}
               \/ x.pc = "where" /\ c.pc = "queued" /\ c.kind = "moved"
               \/ x.pc = "sweep" /\ c.pc = "queued" /\ c.kind = "reconcile"
               \/ x.pc = "publish" /\ c.pc \in {"revoke", "sweep"}
               \/ x.pc = "send" /\ c.pc = "publish"
               \/ x.pc = "group" /\ c.then = "group" /\ c.pc \in {"revoke", "send"}
  <2>1. \A x \in Call : \/ Walks(o, x, {"pc"}) \/ Walks(o, x, {"pc", "group"})
                        \/ Walks(o, x, {"pc", "pairs"}) \/ Walks(o, x, {"pc", "pairs", "keep"})
                        => Walks(o, x, {"pc", "group", "pairs", "keep"})
    BY DEF Walks, Keeps
  <2>2. CASE RevokeBegin(o)
    BY <1>1, <2>1, <2>2, MovesRevokeBegin
  <2>3. CASE MovedBegin(o)
    BY <1>1, <2>1, <2>3, MovesMovedBegin
  <2>4. CASE MovedWhere(o)
    BY <1>1, <2>1, <2>4, MovesMovedWhere
  <2>5. CASE Revoke(o)
    BY <1>1, <2>1, <2>5, MovesRevoke
  <2>6. CASE ReconcileBegin(o)
    BY <1>1, <2>1, <2>6, MovesReconcileBegin
  <2>7. CASE Sweep(o)
    BY <1>1, <2>1, <2>7, MovesSweep
  <2>8. CASE PublishRead(o)
    BY <1>1, <2>1, <2>8, MovesPublishRead
  <2>9. CASE PublishSend(o)
    BY <1>1, <2>1, <2>9, MovesPublishSend
  <2>10. QED  BY <2>2, <2>3, <2>4, <2>5, <2>6, <2>7, <2>8, <2>9
<1>4. ASSUME NEW x \in Call, Walks(o, x, {"pc", "group", "pairs", "keep"}),
             \/ x.pc = "revoke" /\ c.pc \in {"queued", "where"} /\ c.kind \in {"removed", "moved"}
             \/ x.pc = "where" /\ c.pc = "queued" /\ c.kind = "moved"
             \/ x.pc = "sweep" /\ c.pc = "queued" /\ c.kind = "reconcile"
             \/ x.pc = "publish" /\ c.pc \in {"revoke", "sweep"}
             \/ x.pc = "send" /\ c.pc = "publish"
             \/ x.pc = "group" /\ c.then = "group" /\ c.pc \in {"revoke", "send"}
      PROVE  call' \in [Op -> Call] /\ \A p \in Op : CallOK(call'[p])
  <2>1. /\ x.kind = c.kind /\ x.tab = c.tab /\ x.task = c.task /\ x.parent = c.parent
        /\ x.then = c.then
    BY <1>1, <1>4 DEF Walks, Keeps
  <2>2. ASSUME x.pc \in {"revoke", "where", "sweep"} PROVE CallOK(x)
    <3>1. c.then = "done" /\ x.kind # "idle"
      BY <1>1, <1>4, <2>1, <2>2 DEF CallOK
    <3>2. QED  BY <1>1, <1>4, <2>1, <2>2, <3>1 DEF CallOK, InGrant, Granting, Ending
  <2>3. ASSUME x.pc \in {"publish", "send"} PROVE CallOK(x)
    <3>1. x.kind # "idle"
      BY <1>1, <1>4, <2>1, <2>3 DEF CallOK
    <3>2. InGrant(x) => InGrant(c)
      BY <1>1, <1>4, <2>1, <2>3 DEF CallOK, InGrant, Granting
    <3>3. x.kind = "announce" => c.kind = "announce"
      BY <2>1
    <3>4. QED  BY <1>1, <1>4, <2>1, <2>3, <3>1, <3>2, <3>3 DEF CallOK, Ending
  <2>4. ASSUME x.pc = "group" PROVE CallOK(x)
    <3>1. InGrant(c) /\ x.kind # "idle" /\ c.then = "group"
      BY <1>1, <1>4, <2>1, <2>4 DEF CallOK, InGrant
    <3>2. QED  BY <1>1, <2>1, <2>4, <3>1 DEF CallOK, Ending, Grants
  <2>5. CallOK(x)
    BY <1>4, <2>2, <2>3, <2>4
  <2>6. QED  BY <1>4, <2>5, CallTyped DEF Walks
<1>5. QED  BY <1>3, <1>4, OverTyped

LEMMA CallTypedEnd ==
    ASSUME TypeInv, NEW o \in Op,
           EndBegin(o) \/ Classify(o) \/ Forget(o) \/ Release(o) \/ Remove(o)
    PROVE  call' \in [Op -> Call] /\ \A p \in Op : CallOK(call'[p])
<1>1. PICK c : c = call[o] /\ c \in Call /\ CallOK(c)
  BY CallFacts
<1>2. c.kind \in EndKinds /\ c.task \in Task
  <2>1. c.pc \in Ending \/ (c.pc = "queued" /\ c.kind \in EndKinds)
    BY <1>1 DEF EndBegin, Classify, Forget, Release, Remove, At, Starts, Ending
  <2>2. QED  BY <1>1, <2>1 DEF CallOK
<1>3. \/ Finished(o)
      \/ \E x \in Call : /\ Walks(o, x, {"pc", "seen", "keep", "doomed", "then"})
                         /\ \/ x.pc \in Ending /\ x.keep \subseteq Tab
                            \/ x.pc = "publish" /\ x.then = "done"
  <2>1. CASE EndBegin(o)
    <3>1. CASE Finished(o)
      BY <3>1
    <3>2. CASE ~Finished(o)
      <4>1. PICK x \in Call : /\ Walks(o, x, {"pc", "seen", "keep"})
                              /\ x.pc \in {"forget", "classify"} /\ x.keep \subseteq Tab
        BY <2>1, <3>2, MovesEndBegin
      <4>2. QED  BY <4>1 DEF Walks, Keeps, Ending
    <3>3. QED  BY <3>1, <3>2
  <2>2. CASE Classify(o)
    <3>1. PICK x \in Call : /\ Walks(o, x, {"pc", "keep", "doomed"}) /\ x.pc = "forget"
                            /\ x.keep \subseteq Tab
      BY <2>2, MovesClassify
    <3>2. QED  BY <3>1 DEF Walks, Keeps, Ending
  <2>3. CASE Forget(o)
    <3>1. PICK x \in Call : Walks(o, x, {"pc", "doomed"}) /\ x.pc = "release"
      BY <2>3, MovesForget
    <3>2. c.pc = "forget"
      BY <1>1, <2>3, MovesForget
    <3>3. x.keep \subseteq Tab
      BY <1>1, <3>1, <3>2 DEF Walks, Keeps, CallOK, Ending
    <3>4. QED  BY <3>1, <3>3 DEF Walks, Keeps, Ending
  <2>4. CASE Release(o)
    <3>1. PICK x \in Call : Walks(o, x, {"pc", "doomed"}) /\ x.pc = "remove"
      BY <2>4, MovesRelease
    <3>2. c.keep \subseteq Tab
      BY <1>1, <2>4, MovesRelease
    <3>3. x.keep \subseteq Tab
      BY <1>1, <3>1, <3>2 DEF Walks, Keeps
    <3>4. QED  BY <3>1, <3>3 DEF Walks, Keeps, Ending
  <2>5. CASE Remove(o)
    <3>1. PICK x \in Call : /\ Walks(o, x, {"pc", "then", "doomed", "keep"})
                            /\ x.pc = "publish" /\ x.then = "done"
      BY <2>5, MovesRemove
    <3>2. QED  BY <3>1 DEF Walks, Keeps
  <2>6. QED  BY <2>1, <2>2, <2>3, <2>4, <2>5
<1>4. ASSUME NEW x \in Call, Walks(o, x, {"pc", "seen", "keep", "doomed", "then"}),
             \/ x.pc \in Ending /\ x.keep \subseteq Tab
             \/ x.pc = "publish" /\ x.then = "done"
      PROVE  call' \in [Op -> Call] /\ \A p \in Op : CallOK(call'[p])
  <2>1. x.kind = c.kind /\ x.tab = c.tab /\ x.task = c.task /\ x.parent = c.parent
    BY <1>1, <1>4 DEF Walks, Keeps
  <2>2. ~InGrant(x)
    BY <1>4 DEF InGrant, Granting, Ending
  <2>3. CallOK(x)
    BY <1>1, <1>2, <1>4, <2>1, <2>2 DEF CallOK, EndKinds, Ending
  <2>4. QED  BY <1>4, <2>3, CallTyped DEF Walks
<1>5. QED  BY <1>3, <1>4, OverTyped

LEMMA CallTypedNew ==
    ASSUME TypeInv, Commands \/ (\E o \in Op : Deliver(o)) \/ Restart
    PROVE  call' \in [Op -> Call] /\ \A p \in Op : CallOK(call'[p])
<1>1. None \notin Tab \cup Task
  BY OwnershipAssumption
<1>2. ASSUME NEW o \in Op, NEW kind \in {"open", "adopt", "assert", "request"} \cup EndKinds,
             NEW k \in Task \cup {None}, NEW t \in Tab \cup {None}, NEW p \in Tab \cup {None},
             Submit(o, kind, k, t, p),
             IF kind = "request" THEN p \in Tab ELSE k \in Task /\ p = None,
             kind = "assert" => t \in Tab
      PROVE  call' \in [Op -> Call] /\ \A q \in Op : CallOK(call'[q])
  <2>1. kind \in Kind
    BY DEF Kind, Grants
  <2>2. PICK x \in Call : /\ Becomes(o, x) /\ x.pc = "queued"
                          /\ Keeps(x, Idle, {"pc", "kind", "task", "tab", "parent"})
                          /\ x.kind = kind /\ x.task = k /\ x.tab = t /\ x.parent = p
    BY <1>2, <2>1, MovesSubmit
  <2>3. x.then = "done"
    BY <2>2 DEF Keeps, Idle
  <2>4. CallOK(x)
    BY <1>2, <2>2, <2>3 DEF CallOK, InGrant, Granting, Ending, EndKinds
  <2>5. QED  BY <2>2, <2>4, CallTyped
<1>3. ASSUME NEW o \in Op, Announce(o)
      PROVE  call' \in [Op -> Call] /\ \A q \in Op : CallOK(call'[q])
  <2>1. PICK x \in Call : /\ Becomes(o, x) /\ Keeps(x, Idle, {"pc", "kind"})
                          /\ x.pc = "publish" /\ x.kind = "announce"
    BY <1>3, MovesAnnounce
  <2>2. x.then = "done" /\ x.parent = None
    BY <2>1 DEF Keeps, Idle
  <2>3. CallOK(x)
    BY <2>1, <2>2 DEF CallOK, InGrant, Granting, Ending, EndKinds
  <2>4. QED  BY <2>1, <2>3, CallTyped
<1>4. ASSUME NEW o \in Op, Deliver(o)
      PROVE  call' \in [Op -> Call] /\ \A q \in Op : CallOK(call'[q])
  <2>1. PICK x \in Call, e \in Heard :
           /\ Becomes(o, x) /\ x.pc = "queued"
           /\ Keeps(x, Idle, {"pc", "kind", "tab", "parent", "event"})
           /\ x.kind = e.kind /\ x.tab = e.tab /\ x.parent = e.parent /\ e \in Event
    BY <1>4, MovesDeliver
  <2>2. EventOK(e) /\ e.kind \in {"child", "moved", "removed", "reconcile"}
    BY <2>1 DEF TypeInv, Event
  <2>3. x.then = "done"
    BY <2>1 DEF Keeps, Idle
  <2>4. CallOK(x)
    BY <2>1, <2>2, <2>3 DEF CallOK, EventOK, InGrant, Granting, Ending, EndKinds
  <2>5. QED  BY <2>1, <2>4, CallTyped
<1>5. CASE Restart
  <2>1. PICK o \in Op, x \in Call :
           /\ call'[o] = x /\ Keeps(x, Idle, {"pc", "kind"}) /\ x.pc = "queued"
           /\ x.kind = "reconcile" /\ \A p \in Op : p # o => call'[p] = Idle
    BY <1>5, MovesRestart
  <2>2. x.then = "done" /\ x.parent = None
    BY <2>1 DEF Keeps, Idle
  <2>3. CallOK(x)
    BY <2>1, <2>2 DEF CallOK, InGrant, Granting, Ending, EndKinds
  <2>4. QED  BY <1>5, <2>1, <2>3, IdleIsCall, MovesRestart
<1>6. CASE Commands
  <2>1. PICK o \in Op :
           \/ \E k \in Task : \/ Submit(o, "open", k, None, None)
                              \/ Submit(o, "adopt", k, None, None)
                              \/ \E t \in ledger[k].tabs : Submit(o, "assert", k, t, None)
                              \/ \E kind \in EndKinds : Submit(o, kind, k, None, None)
           \/ \E p \in Tab : Owned(p) /\ Submit(o, "request", None, None, p)
           \/ Announce(o)
    BY <1>6 DEF Commands
  <2>2. \A k \in Task : ledger[k].tabs \subseteq Tab
    BY LedgerType DEF TaskRecord
  <2>3. ASSUME NEW k \in Task, Submit(o, "open", k, None, None) \/ Submit(o, "adopt", k, None, None)
        PROVE  call' \in [Op -> Call] /\ \A q \in Op : CallOK(call'[q])
    BY <1>2, <2>3
  <2>4. ASSUME NEW k \in Task, NEW t \in ledger[k].tabs, Submit(o, "assert", k, t, None)
        PROVE  call' \in [Op -> Call] /\ \A q \in Op : CallOK(call'[q])
    BY <1>2, <2>2, <2>4
  <2>5. ASSUME NEW k \in Task, NEW kind \in EndKinds, Submit(o, kind, k, None, None)
        PROVE  call' \in [Op -> Call] /\ \A q \in Op : CallOK(call'[q])
    <3>1. kind # "request" /\ kind # "assert"
      BY DEF EndKinds
    <3>2. QED  BY <1>2, <2>5, <3>1
  <2>6. ASSUME NEW p \in Tab, Submit(o, "request", None, None, p)
        PROVE  call' \in [Op -> Call] /\ \A q \in Op : CallOK(call'[q])
    BY <1>2, <2>6
  <2>7. QED  BY <1>3, <2>1, <2>3, <2>4, <2>5, <2>6
<1>7. QED  BY <1>4, <1>5, <1>6

(* A ledger that an operation tries to store. *)
Storable(l) ==
    /\ l \in [Task -> TaskRecord]
    /\ \A k \in Task : ~l[k].known => l[k] = NoTask

LEMMA StoredTyped ==
    ASSUME TypeInv, NEW l, Storable(l), Stored(l)
    PROVE  /\ ledger' \in [Task -> TaskRecord] /\ WellFormed(ledger')
           /\ \A k \in Task : ~ledger'[k].known => ledger'[k] = NoTask
           /\ ambiguous' \in BOOLEAN
<1>1. CASE WellFormed(l)
  BY <1>1 DEF Stored, Storable
<1>2. CASE ~WellFormed(l)
  <2>1. ledger' = ledger
    BY <1>2 DEF Stored
  <2>2. QED  BY <2>1, LedgerType DEF Stored, TypeInv
<1>3. QED  BY <1>1, <1>2

LEMMA NoTaskIs ==
    NoTask \in TaskRecord /\ NoTask.group = NoGroup /\ NoTask.tabs = {}
      /\ NoTask.created = {} /\ ~NoTask.known
BY DEF NoTask, TaskRecord, Groups, NoGroup

LEMMA WithoutIs ==
    ASSUME NEW r \in TaskRecord, NEW ts
    PROVE  /\ Without(r, ts) \in TaskRecord /\ Without(r, ts).known = r.known
           /\ Without(r, ts).tabs = r.tabs \ ts /\ Without(r, ts).created = r.created \ ts
           /\ Without(r, ts).group = IF r.tabs \ ts = {} THEN NoGroup ELSE r.group
<1>1. PICK left, made : left = r.tabs \ ts /\ made = r.created \ ts
  OBVIOUS
<1>2. left \in SUBSET Tab /\ made \in SUBSET Tab
  BY <1>1 DEF TaskRecord
<1>3. PICK g : g = IF left = {} THEN NoGroup ELSE r.group
  OBVIOUS
<1>4. g \in Groups
  BY <1>3 DEF TaskRecord, Groups
<1>5. PICK w : w = [r EXCEPT !.tabs = left, !.created = made, !.group = g]
  OBVIOUS
<1>6. /\ w \in TaskRecord /\ w.known = r.known
      /\ w.tabs = left /\ w.created = made /\ w.group = g
  BY <1>2, <1>4, <1>5 DEF TaskRecord
<1>7. Without(r, ts) = w
  BY <1>1, <1>3, <1>5 DEF Without
<1>8. QED  BY <1>1, <1>3, <1>6, <1>7

LEMMA RevokedIs ==
    ASSUME TypeInv, NEW t
    PROVE  /\ Storable(Revoked(t))
           /\ \A k \in Task : /\ Revoked(t)[k].tabs = ledger[k].tabs \ {t}
                              /\ Revoked(t)[k].created = ledger[k].created \ {t}
                              /\ Revoked(t)[k].known = ledger[k].known
                              /\ Revoked(t)[k].group \in {ledger[k].group, NoGroup}
                              /\ Revoked(t)[k].group # ledger[k].group => Revoked(t)[k].tabs = {}
                              /\ Revoked(t)[k].tabs = {} => Revoked(t)[k].group = NoGroup
                                                              \/ Revoked(t)[k] = ledger[k]
<1>1. ASSUME NEW k \in Task
      PROVE  /\ Revoked(t)[k] \in TaskRecord
             /\ Revoked(t)[k].tabs = ledger[k].tabs \ {t}
             /\ Revoked(t)[k].created = ledger[k].created \ {t}
             /\ Revoked(t)[k].known = ledger[k].known
             /\ Revoked(t)[k].group \in {ledger[k].group, NoGroup}
             /\ Revoked(t)[k].group # ledger[k].group => Revoked(t)[k].tabs = {}
             /\ Revoked(t)[k].tabs = {} => Revoked(t)[k].group = NoGroup
                                             \/ Revoked(t)[k] = ledger[k]
             /\ ~Revoked(t)[k].known => Revoked(t)[k] = NoTask
  <2>1. PICK r \in TaskRecord : r = ledger[k] /\ r.created \subseteq r.tabs /\ (~r.known => r = NoTask)
    BY LedgerFacts
  <2>2. CASE t \in r.tabs
    <3>1. Revoked(t)[k] = Without(r, {t}) /\ r.known
      BY <2>1, <2>2, NoTaskIs DEF Revoked
    <3>2. PICK w : w = Without(r, {t})
      OBVIOUS
    <3>3. /\ w \in TaskRecord /\ w.known = r.known
          /\ w.tabs = r.tabs \ {t} /\ w.created = r.created \ {t}
          /\ w.group = IF r.tabs \ {t} = {} THEN NoGroup ELSE r.group
      BY <3>2, WithoutIs
    <3>4. QED  BY <2>1, <3>1, <3>2, <3>3
  <2>3. CASE t \notin r.tabs
    <3>1. Revoked(t)[k] = r
      BY <2>1, <2>3 DEF Revoked
    <3>2. QED  BY <2>1, <2>3, <3>1
  <2>4. QED  BY <2>2, <2>3
<1>2. Revoked(t) = [k \in Task |-> Revoked(t)[k]]
  BY DEF Revoked
<1>3. QED  BY <1>1, <1>2 DEF Storable

LEMMA SweptIs ==
    ASSUME TypeInv, NEW pairs
    PROVE  /\ Storable(Swept(pairs))
           /\ \A k \in Task : /\ Swept(pairs)[k].tabs = ledger[k].tabs \ Gone(k, pairs)
                              /\ Swept(pairs)[k].created = ledger[k].created \ Gone(k, pairs)
                              /\ Swept(pairs)[k].known = ledger[k].known
                              /\ Swept(pairs)[k].group \in {ledger[k].group, NoGroup}
                              /\ Swept(pairs)[k].group # ledger[k].group => Swept(pairs)[k].tabs = {}
<1>1. ASSUME NEW k \in Task
      PROVE  /\ Swept(pairs)[k] \in TaskRecord
             /\ Swept(pairs)[k].tabs = ledger[k].tabs \ Gone(k, pairs)
             /\ Swept(pairs)[k].created = ledger[k].created \ Gone(k, pairs)
             /\ Swept(pairs)[k].known = ledger[k].known
             /\ Swept(pairs)[k].group \in {ledger[k].group, NoGroup}
             /\ Swept(pairs)[k].group # ledger[k].group => Swept(pairs)[k].tabs = {}
             /\ ~Swept(pairs)[k].known => Swept(pairs)[k] = NoTask
  <2>1. PICK r \in TaskRecord : r = ledger[k] /\ r.created \subseteq r.tabs /\ (~r.known => r = NoTask)
    BY LedgerFacts
  <2>2. PICK g : g = Gone(k, pairs) /\ g \subseteq r.tabs
    BY <2>1 DEF Gone
  <2>3. CASE g # {}
    <3>1. Swept(pairs)[k] = Without(r, g)
      BY <2>1, <2>2, <2>3 DEF Swept
    <3>2. r.known
      BY <2>1, <2>2, <2>3, NoTaskIs
    <3>3. PICK w : w = Without(r, g)
      OBVIOUS
    <3>4. /\ w \in TaskRecord /\ w.known = r.known
          /\ w.tabs = r.tabs \ g /\ w.created = r.created \ g
          /\ w.group = IF r.tabs \ g = {} THEN NoGroup ELSE r.group
      BY <3>3, WithoutIs
    <3>5. QED  BY <2>1, <2>2, <3>1, <3>2, <3>3, <3>4
  <2>4. CASE g = {}
    <3>1. Swept(pairs)[k] = r
      BY <2>1, <2>2, <2>4 DEF Swept
    <3>2. QED  BY <2>1, <2>2, <2>4, <3>1
  <2>5. QED  BY <2>3, <2>4
<1>2. Swept(pairs) = [k \in Task |-> Swept(pairs)[k]]
  BY DEF Swept
<1>3. QED  BY <1>1, <1>2 DEF Storable

LEMMA GrantedIs ==
    ASSUME TypeInv, NEW o \in Op, call[o].tab \in Tab
    PROVE  /\ Base(call[o]) \in TaskRecord \/ call[o].task \notin Task
           /\ call[o].task \in Task => Granted(call[o]) \in TaskRecord
           /\ Granted(call[o]).known /\ Granted(call[o]).group = call[o].group
           /\ Granted(call[o]).tabs = Base(call[o]).tabs \cup {call[o].tab}
           /\ Granted(call[o]).created =
                 Base(call[o]).created \cup IF Makes(call[o]) THEN {call[o].tab} ELSE {}
<1>1. PICK c \in Call : c = call[o]
  BY CallFacts
<1>2. ASSUME c.task \in Task
      PROVE  Base(c) \in TaskRecord
  BY <1>1, <1>2, LedgerFacts DEF Base, Call
<1>3. c.group \in Groups
  BY <1>1 DEF Call
<1>4. PICK made : made = IF Makes(c) THEN {c.tab} ELSE {}
  OBVIOUS
<1>5. Granted(c) = [known |-> TRUE, group |-> c.group, tabs |-> Base(c).tabs \cup {c.tab},
                    created |-> Base(c).created \cup made]
  BY <1>4 DEF Granted
<1>6. c.task \in Task => Granted(c) \in TaskRecord
  BY <1>1, <1>2, <1>3, <1>4, <1>5 DEF TaskRecord
<1>7. QED  BY <1>1, <1>2, <1>4, <1>5, <1>6

(* The ledgers that a grant, an end and a mark try to store. *)
LEMMA OneRecordStorable ==
    ASSUME TypeInv, NEW k \in Task, NEW r \in TaskRecord, ~r.known => r = NoTask
    PROVE  Storable([ledger EXCEPT ![k] = r])
BY LedgerType DEF Storable, TypeInv

LEMMA MarkStorable ==
    ASSUME TypeInv, NEW o \in Op, call[o].tab \in Tab, call[o].task \in Task
    PROVE  /\ Storable(ledger)
           /\ ledger[call[o].task].known =>
                 Storable([ledger EXCEPT ![call[o].task].created = @ \cup {call[o].tab}])
<1>1. PICK k \in Task, t \in Tab : k = call[o].task /\ t = call[o].tab
  OBVIOUS
<1>2. PICK r \in TaskRecord : r = ledger[k]
  BY LedgerFacts
<1>3. PICK q : q = [r EXCEPT !.created = @ \cup {t}]
  OBVIOUS
<1>4. q \in TaskRecord /\ q.known = r.known
  BY <1>2, <1>3 DEF TaskRecord
<1>5. [ledger EXCEPT ![k].created = @ \cup {t}] = [ledger EXCEPT ![k] = q]
  BY <1>2, <1>3, LedgerType
<1>6. r.known => Storable([ledger EXCEPT ![k] = q])
  BY <1>4, OneRecordStorable
<1>7. Storable(ledger)
  BY LedgerType DEF Storable, TypeInv
<1>8. QED  BY <1>1, <1>2, <1>5, <1>6, <1>7

LEMMA WhoMovesLedger ==
    ASSUME Next
    PROVE  \/ UNCHANGED <<ledger, ambiguous>>
           \/ \E o \in Op : GrantMark(o) \/ GrantRecord(o) \/ Revoke(o) \/ Sweep(o) \/ Forget(o)
<1>1. ASSUME NEW o \in Op, Steps(o)
      PROVE  \/ LedgerStays
             \/ GrantMark(o) \/ GrantRecord(o) \/ Revoke(o) \/ Sweep(o) \/ Forget(o)
  BY <1>1, StepsAre, WalkingStays, OpeningStays, OthersStay
<1>2. ASSUME NEW o \in Op, Deliver(o)
      PROVE  LedgerStays
  BY <1>2, DeliverStays
<1>3. CASE Commands \/ Chrome \/ Overrun \/ Restart
  <2>1. LedgerStays
    BY <1>3, CommandsStay, ChromeStays, FaultStays
  <2>2. QED  BY <2>1 DEF LedgerStays
<1>4. QED  BY <1>1, <1>2, <1>3 DEF Next, LedgerStays

LEMMA LedgerTyped ==
    ASSUME TypeInv, Next
    PROVE  /\ ledger' \in [Task -> TaskRecord] /\ WellFormed(ledger')
           /\ \A k \in Task : ~ledger'[k].known => ledger'[k] = NoTask
           /\ ambiguous' \in BOOLEAN
<1>1. CASE UNCHANGED <<ledger, ambiguous>>
  BY <1>1, LedgerType DEF TypeInv, TypeOK
<1>2. ASSUME NEW o \in Op,
             GrantMark(o) \/ GrantRecord(o) \/ Revoke(o) \/ Sweep(o) \/ Forget(o)
      PROVE  UNCHANGED <<ledger, ambiguous>> \/ \E l : Storable(l) /\ Stored(l)
  <2>1. CASE GrantMark(o)
    <3>1. call[o].tab \in Tab /\ call[o].task \in Task
      BY <2>1, CallFacts DEF GrantMark, At, CallOK, InGrant, Granting
    <3>2. Stored(IF ledger[call[o].task].known
                 THEN [ledger EXCEPT ![call[o].task].created = @ \cup {call[o].tab}] ELSE ledger)
      BY <2>1, MovesMark
    <3>3. QED  BY <3>1, <3>2, MarkStorable
  <2>2. CASE GrantRecord(o)
    <3>1. /\ call[o].tab \in Tab /\ call[o].task \in Task
          /\ UNCHANGED <<ledger, ambiguous>> \/ Stored([ledger EXCEPT ![call[o].task] = Granted(call[o])])
      BY <2>2, MovesRecord
    <3>2. Granted(call[o]) \in TaskRecord /\ Granted(call[o]).known
      BY <3>1, GrantedIs
    <3>3. Storable([ledger EXCEPT ![call[o].task] = Granted(call[o])])
      BY <3>1, <3>2, OneRecordStorable
    <3>4. QED  BY <3>1, <3>3
  <2>3. CASE Revoke(o)
    BY <2>3, MovesRevoke, RevokedIs
  <2>4. CASE Sweep(o)
    BY <2>4, MovesSweep, SweptIs
  <2>5. CASE Forget(o)
    <3>1. call[o].task \in Task /\ Stored([ledger EXCEPT ![call[o].task] = NoTask])
      BY <2>5, MovesForget
    <3>2. Storable([ledger EXCEPT ![call[o].task] = NoTask])
      BY <3>1, OneRecordStorable, NoTaskIs
    <3>3. QED  BY <3>1, <3>2
  <2>6. QED  BY <1>2, <2>1, <2>2, <2>3, <2>4, <2>5
<1>3. ASSUME NEW l, Storable(l), Stored(l)
      PROVE  /\ ledger' \in [Task -> TaskRecord] /\ WellFormed(ledger')
             /\ \A k \in Task : ~ledger'[k].known => ledger'[k] = NoTask
             /\ ambiguous' \in BOOLEAN
  BY <1>3, StoredTyped
<1>4. QED  BY <1>1, <1>2, <1>3, WhoMovesLedger

(* What can happen to the tabs in one step. *)
Moves(t, g) == tab' = [tab EXCEPT ![t].group = g]
Lets(ts) ==
    tab' = [t \in Tab |-> IF t \in ts THEN [tab[t] EXCEPT !.group = NoGroup] ELSE tab[t]]

LEMMA WhoMovesTabs ==
    ASSUME TypeInv, Next
    PROVE  \/ UNCHANGED <<tab, nextGroup>>
           \/ \E t \in Tab : UserOpens(t) \/ UserCloses(t)
           \/ \E t \in Tab, p \in Tab : PageOpens(t, p)
           \/ \E t \in Tab, g \in Groups : UserMoves(t, g)
           \/ \E o \in Op : \/ AssertRecheck(o) \/ (\E t \in Tab : OpenBegin(o, t))
                            \/ GrantGroup(o) \/ GrantUndo(o) \/ Discard(o) \/ Release(o)
                            \/ Remove(o)
<1>1. ASSUME NEW o \in Op, Steps(o)
      PROVE  \/ TabsStay
             \/ AssertRecheck(o) \/ (\E t \in Tab : OpenBegin(o, t))
             \/ GrantGroup(o) \/ GrantUndo(o) \/ Discard(o) \/ Release(o) \/ Remove(o)
  BY <1>1, StepsAre, WalkingStays, StoringStays, OthersStay
<1>2. ASSUME NEW o \in Op, Deliver(o)
      PROVE  TabsStay
  BY <1>2, DeliverStays
<1>3. CASE Commands \/ Overrun \/ Restart
  <2>1. TabsStay
    BY <1>3, CommandsStay, FaultStays
  <2>2. QED  BY <2>1 DEF TabsStay
<1>4. CASE Chrome
  <2>1. \/ TabsStay
        \/ \E t \in Tab : \/ UserOpens(t) \/ UserCloses(t)
                          \/ \E p \in Tab : PageOpens(t, p)
                          \/ \E g \in Groups : UserMoves(t, g)
    BY <1>4, ChromeStays
  <2>2. QED  BY <2>1 DEF TabsStay
<1>5. QED  BY <1>1, <1>2, <1>3, <1>4 DEF Next, TabsStay

(* What they come to. *)
LEMMA HowTabsMove ==
    ASSUME TypeInv, Next
    PROVE  /\ \/ UNCHANGED tab
              \/ \E t \in Tab, by \in {"user", "child", "agent"} : Opens(t, by)
              \/ \E ts \in SUBSET Tab : Closes(ts) \/ Lets(ts)
              \/ \E t \in Tab, g \in Groups : IsOpen(t) /\ Moves(t, g)
           /\ nextGroup' \in 1..(MaxGroups + 1)
           /\ nextGroup' = nextGroup \/ nextGroup' = nextGroup + 1
<1>1. nextGroup \in 1..(MaxGroups + 1)
  BY DEF TypeInv, TypeOK
<1>2. CASE UNCHANGED <<tab, nextGroup>>
  BY <1>1, <1>2
<1>3. ASSUME NEW t \in Tab, UserOpens(t) \/ UserCloses(t) \/ (\E p \in Tab : PageOpens(t, p))
                               \/ (\E g \in Groups : UserMoves(t, g))
      PROVE  /\ \/ \E by \in {"user", "child", "agent"} : Opens(t, by)
                \/ Closes({t})
                \/ \E g \in Groups : IsOpen(t) /\ Moves(t, g)
             /\ nextGroup' = nextGroup
  BY <1>3 DEF UserOpens, UserCloses, PageOpens, UserMoves, Moves
<1>4. ASSUME NEW o \in Op, \/ AssertRecheck(o) \/ (\E t \in Tab : OpenBegin(o, t))
                           \/ GrantUndo(o) \/ Discard(o)
      PROVE  /\ \/ UNCHANGED tab
                \/ \E t \in Tab : Opens(t, "agent") \/ Closes({t})
                \/ \E t \in Tab, g \in Groups : IsOpen(t) /\ Moves(t, g)
             /\ nextGroup' = nextGroup
  <2>1. nextGroup' = nextGroup
    BY <1>4 DEF AssertRecheck, OpenBegin, GrantUndo, Discard
  <2>2. CASE AssertRecheck(o)
    BY <2>1, <2>2, MovesAssertRecheck
  <2>3. ASSUME NEW t \in Tab, OpenBegin(o, t)
        PROVE  Opens(t, "agent")
    BY <2>3 DEF OpenBegin
  <2>4. CASE GrantUndo(o)
    <3>1. PICK t \in Tab : t = call[o].tab
      BY <2>4, MovesUndo
    <3>2. \/ UNCHANGED tab
          \/ \E g \in Groups : IsOpen(t) /\ tab' = [tab EXCEPT ![t].group = g]
      BY <2>4, <3>1, MovesUndo
    <3>3. QED  BY <2>1, <3>1, <3>2 DEF Moves
  <2>5. CASE Discard(o)
    BY <2>1, <2>5, MovesDiscard
  <2>6. QED  BY <1>4, <2>1, <2>2, <2>3, <2>4, <2>5
<1>5. ASSUME NEW o \in Op, GrantGroup(o)
      PROVE  /\ UNCHANGED tab \/ \E t \in Tab, g \in Groups : IsOpen(t) /\ Moves(t, g)
             /\ nextGroup' \in 1..(MaxGroups + 1)
             /\ nextGroup' = nextGroup \/ nextGroup' = nextGroup + 1
  <2>1. call[o].tab \in Tab
    BY <1>5, MovesGroup
  <2>2. \/ \E x \in Call : /\ x.group \in Group /\ IsOpen(call[o].tab)
                           /\ tab' = [tab EXCEPT ![call[o].tab].group = x.group]
                           /\ nextGroup' \in 1..(MaxGroups + 1)
                           /\ nextGroup' = nextGroup \/ nextGroup' = nextGroup + 1
        \/ UNCHANGED <<tab, nextGroup>>
    BY <1>5, MovesGroup
  <2>3. QED  BY <1>1, <2>1, <2>2 DEF Moves, Groups
<1>6. ASSUME NEW o \in Op, Release(o) \/ Remove(o)
      PROVE  nextGroup' = nextGroup /\ \E ts \in SUBSET Tab : Closes(ts) \/ Lets(ts)
  <2>1. nextGroup' = nextGroup /\ call[o] \in Call
    BY <1>6, CallFacts DEF Release, Remove
  <2>2. CASE Release(o)
    <3>1. PICK ts : ts = {t \in call[o].keep : InGroup(t, call[o].seen.group)}
      OBVIOUS
    <3>2. ts \in SUBSET Tab
      BY <2>2, <3>1, MovesRelease
    <3>3. Lets(ts)
      BY <2>2, <3>1 DEF Release, Lets
    <3>4. QED  BY <2>1, <3>2, <3>3
  <2>3. CASE Remove(o)
    <3>1. PICK held : Closes(call[o].doomed \ held)
      BY <2>3 DEF Remove
    <3>2. call[o].doomed \ held \in SUBSET Tab
      BY <2>1 DEF Call
    <3>3. QED  BY <2>1, <3>1, <3>2
  <2>4. QED  BY <1>6, <2>2, <2>3
<1>7. QED
  <2>1. CASE \/ \E t \in Tab : UserOpens(t) \/ UserCloses(t)
             \/ \E t \in Tab, p \in Tab : PageOpens(t, p)
             \/ \E t \in Tab, g \in Groups : UserMoves(t, g)
    <3>1. PICK t \in Tab : UserOpens(t) \/ UserCloses(t) \/ (\E p \in Tab : PageOpens(t, p))
                              \/ (\E g \in Groups : UserMoves(t, g))
      BY <2>1
    <3>2. QED  BY <1>1, <1>3, <3>1
  <2>2. CASE \E o \in Op : \/ AssertRecheck(o) \/ (\E t \in Tab : OpenBegin(o, t))
                           \/ GrantGroup(o) \/ GrantUndo(o) \/ Discard(o) \/ Release(o)
                           \/ Remove(o)
    <3>1. PICK o \in Op : \/ AssertRecheck(o) \/ (\E t \in Tab : OpenBegin(o, t))
                          \/ GrantGroup(o) \/ GrantUndo(o) \/ Discard(o) \/ Release(o)
                          \/ Remove(o)
      BY <2>2
    <3>2. CASE \/ AssertRecheck(o) \/ (\E t \in Tab : OpenBegin(o, t))
               \/ GrantUndo(o) \/ Discard(o)
      BY <1>1, <1>4, <3>2
    <3>3. QED  BY <1>1, <1>5, <1>6, <3>1, <3>2
  <2>3. QED  BY <1>2, <2>1, <2>2, WhoMovesTabs

TabState == [state : {"new", "open", "closed"}, group : Groups, by : {"user", "agent", "child"}]

LEMMA TabFacts ==
    ASSUME TypeInv
    PROVE  tab \in [Tab -> TabState]
BY DEF TypeInv, TypeOK, TabState, Groups

LEMMA OpensIs ==
    ASSUME TypeInv, NEW t \in Tab, NEW by \in {"user", "child", "agent"}, Opens(t, by)
    PROVE  /\ tab' \in [Tab -> TabState] /\ tab[t].state = "new"
           /\ tab'[t].state = "open" /\ tab'[t].group = NoGroup /\ tab'[t].by = by
           /\ \A u \in Tab : u # t => tab'[u] = tab[u]
<1>1. PICK w : w = [state |-> "open", group |-> NoGroup, by |-> by]
  OBVIOUS
<1>2. w \in TabState /\ w.state = "open" /\ w.group = NoGroup /\ w.by = by
  BY <1>1 DEF TabState, Groups
<1>3. tab' = [tab EXCEPT ![t] = w] /\ tab[t].state = "new"
  BY <1>1 DEF Opens
<1>4. QED  BY <1>2, <1>3, TabFacts

LEMMA ClosesIs ==
    ASSUME TypeInv, NEW ts \in SUBSET Tab, Closes(ts)
    PROVE  /\ tab' \in [Tab -> TabState]
           /\ \A t \in Tab : /\ tab'[t].by = tab[t].by
                             /\ IF t \in ts
                                THEN tab'[t].state = "closed" /\ tab'[t].group = NoGroup
                                ELSE tab'[t] = tab[t]
<1>1. ASSUME NEW t \in Tab
      PROVE  /\ tab'[t] \in TabState /\ tab'[t].by = tab[t].by
             /\ IF t \in ts
                THEN tab'[t].state = "closed" /\ tab'[t].group = NoGroup
                ELSE tab'[t] = tab[t]
  <2>1. PICK v \in TabState : v = tab[t]
    BY TabFacts
  <2>2. PICK w : w = [state |-> "closed", group |-> NoGroup, by |-> v.by]
    OBVIOUS
  <2>3. w \in TabState /\ w.state = "closed" /\ w.group = NoGroup /\ w.by = v.by
    BY <2>2 DEF TabState, Groups
  <2>4. tab'[t] = IF t \in ts THEN w ELSE v
    BY <2>1, <2>2 DEF Closes
  <2>5. QED  BY <2>1, <2>3, <2>4
<1>2. tab' = [t \in Tab |-> tab'[t]]
  BY DEF Closes
<1>3. QED  BY <1>1, <1>2

LEMMA LetsIs ==
    ASSUME TypeInv, NEW ts \in SUBSET Tab, Lets(ts)
    PROVE  /\ tab' \in [Tab -> TabState]
           /\ \A t \in Tab : /\ tab'[t].by = tab[t].by /\ tab'[t].state = tab[t].state
                             /\ IF t \in ts THEN tab'[t].group = NoGroup ELSE tab'[t] = tab[t]
<1>1. ASSUME NEW t \in Tab
      PROVE  /\ tab'[t] \in TabState /\ tab'[t].by = tab[t].by /\ tab'[t].state = tab[t].state
             /\ IF t \in ts THEN tab'[t].group = NoGroup ELSE tab'[t] = tab[t]
  <2>1. PICK v \in TabState : v = tab[t]
    BY TabFacts
  <2>2. PICK w : w = [v EXCEPT !.group = NoGroup]
    OBVIOUS
  <2>3. w \in TabState /\ w.state = v.state /\ w.group = NoGroup /\ w.by = v.by
    BY <2>2 DEF TabState, Groups
  <2>4. tab'[t] = IF t \in ts THEN w ELSE v
    BY <2>1, <2>2 DEF Lets
  <2>5. QED  BY <2>1, <2>3, <2>4
<1>2. tab' = [t \in Tab |-> tab'[t]]
  BY DEF Lets
<1>3. QED  BY <1>1, <1>2

LEMMA MovesIs ==
    ASSUME TypeInv, NEW t \in Tab, NEW g \in Groups, Moves(t, g)
    PROVE  /\ tab' \in [Tab -> TabState]
           /\ tab'[t].state = tab[t].state /\ tab'[t].group = g /\ tab'[t].by = tab[t].by
           /\ \A u \in Tab : u # t => tab'[u] = tab[u]
BY TabFacts DEF Moves, TabState

LEMMA TabTyped ==
    ASSUME TypeInv, Next
    PROVE  tab' \in [Tab -> TabState]
BY HowTabsMove, TabFacts, OpensIs, ClosesIs, LetsIs, MovesIs

LEMMA EventsTyped ==
    ASSUME TypeInv, Next
    PROVE  events' \in Seq(Event) /\ \A e \in Heard' : EventOK(e)
<1>1. None \notin Tab
  BY OwnershipAssumption
<1>2. CASE UNCHANGED events
  BY <1>2 DEF TypeInv, Heard
<1>3. ASSUME NEW kind \in {"child", "moved", "removed"}, NEW t \in Tab, NEW p \in Tab \cup {None},
             Raise(kind, t, p), IF kind = "child" THEN p \in Tab ELSE p = None
      PROVE  events' \in Seq(Event) /\ \A e \in Heard' : EventOK(e)
  <2>1. EventOK([kind |-> kind, tab |-> t, parent |-> p])
    BY <1>3 DEF EventOK
  <2>2. QED  BY <1>3, <2>1, HeardRaised DEF TypeInv
<1>4. ASSUME NEW kind \in {"moved", "removed"}, NEW t \in Tab, Leaves(kind, t)
      PROVE  events' \in Seq(Event) /\ \A e \in Heard' : EventOK(e)
  <2>1. EventOK([kind |-> kind, tab |-> t, parent |-> None])
    BY <1>4 DEF EventOK
  <2>2. EventOK([kind |-> "reconcile", tab |-> None, parent |-> None])
    BY DEF EventOK
  <2>3. QED  BY <1>4, <2>1, <2>2, HeardLeaves DEF TypeInv
<1>5. ASSUME NEW o \in Op, Steps(o)
      PROVE  events' \in Seq(Event) /\ \A e \in Heard' : EventOK(e)
  <2>1. \/ UNCHANGED events
        \/ AssertRecheck(o) \/ GrantUndo(o) \/ Discard(o) \/ GrantGroup(o)
    <3>1. \A t \in Tab : OpenBegin(o, t) => UNCHANGED events
      BY DEF OpenBegin
    <3>2. QED  BY <1>5, <3>1, StepsAre, WalkingStays, StoringStays, OthersStay
  <2>2. CASE AssertRecheck(o)
    <3>1. call[o].kind \notin {"child", "assert"} => call[o].parent \in Tab
      BY <2>2, CallFacts, MovesAssertRecheck DEF CallOK
    <3>2. \/ UNCHANGED events
          \/ \E t \in Tab : Raise("child", t, call[o].parent) /\ call[o].parent \in Tab
          \/ Finished(o) /\ UNCHANGED events
      BY <2>2, <3>1, MovesAssertRecheck
    <3>3. QED  BY <1>2, <1>3, <3>2
  <2>3. CASE GrantUndo(o)
    <3>1. call[o].tab \in Tab /\ (UNCHANGED events \/ Raise("moved", call[o].tab, None))
      BY <2>3, MovesUndo
    <3>2. QED  BY <1>2, <1>3, <3>1
  <2>4. CASE Discard(o)
    <3>1. call[o].tab \in Tab /\ (UNCHANGED events \/ Raise("removed", call[o].tab, None))
      BY <2>4, MovesDiscard
    <3>2. QED  BY <1>2, <1>3, <3>1
  <2>5. CASE GrantGroup(o)
    <3>1. call[o].tab \in Tab /\ (UNCHANGED events \/ Raise("moved", call[o].tab, None))
      BY <2>5, MovesGroup
    <3>2. QED  BY <1>2, <1>3, <3>1
  <2>6. QED  BY <1>2, <2>1, <2>2, <2>3, <2>4, <2>5
<1>6. ASSUME NEW o \in Op, Deliver(o)
      PROVE  events' \in Seq(Event) /\ \A e \in Heard' : EventOK(e)
  <2>1. events' \in Seq(Event) /\ Heard' \subseteq Heard
    BY <1>6, MovesDeliver
  <2>2. QED  BY <2>1 DEF TypeInv
<1>7. CASE Commands \/ Overrun \/ Restart
  BY <1>2, <1>7, CommandsStay, FaultStays
<1>8. CASE Chrome
  <2>1. ASSUME NEW t \in Tab, \/ UserOpens(t) \/ UserCloses(t)
                              \/ \E p \in Tab : PageOpens(t, p)
                              \/ \E g \in Groups : UserMoves(t, g)
        PROVE  \/ UNCHANGED events
               \/ \E p \in Tab : Raise("child", t, p)
               \/ \E kind \in {"moved", "removed"} : Leaves(kind, t)
    BY <2>1 DEF UserOpens, UserCloses, PageOpens, UserMoves
  <2>2. QED  BY <1>2, <1>3, <1>4, <1>8, <2>1, ChromeStays
<1>9. QED  BY <1>5, <1>6, <1>7, <1>8 DEF Next

LEMMA CallsTyped ==
    ASSUME TypeInv, Next
    PROVE  call' \in [Op -> Call] /\ \A p \in Op : CallOK(call'[p])
<1>1. ASSUME NEW o \in Op, Steps(o)
      PROVE  call' \in [Op -> Call] /\ \A p \in Op : CallOK(call'[p])
  BY <1>1, CallTypedAssert, CallTypedGrant, CallTypedRevoke, CallTypedEnd DEF Steps
<1>2. CASE UNCHANGED call
  BY <1>2 DEF TypeInv
<1>3. CASE Commands \/ (\E o \in Op : Deliver(o)) \/ Restart
  BY <1>3, CallTypedNew
<1>4. CASE Chrome \/ Overrun
  BY <1>2, <1>4, ChromeStays, FaultStays
<1>5. QED  BY <1>1, <1>3, <1>4 DEF Next

(* What becomes of the chain. *)
LEMMA HowChainMoves ==
    ASSUME TypeInv, Next
    PROVE  \/ UNCHANGED chain
           \/ \E o \in Op : chain' = Append(chain, o) /\ call[o].pc = "idle"
           \/ \E o \in Op : Finished(o)
           \/ Overrun
           \/ Restart /\ \E o \in Op : chain' = <<o>>
<1>1. ASSUME NEW o \in Op, Steps(o)
      PROVE  UNCHANGED chain \/ Finished(o)
  <2>1. CASE AssertBegin(o) \/ AssertCheck(o) \/ AssertRecheck(o)
               \/ (\E t \in Tab : OpenBegin(o, t) \/ AdoptBegin(o, t))
    BY <2>1, MovesAssertBegin, MovesAssertCheck, MovesAssertRecheck, MovesBegin DEF Walks
  <2>2. CASE GrantLook(o) \/ GrantMark(o) \/ GrantGroup(o) \/ GrantVerify(o)
               \/ GrantRecord(o) \/ GrantUndo(o) \/ Discard(o)
    BY <2>2, MovesLook, MovesMark, MovesGroup, MovesVerify, MovesRecord, MovesUndo, MovesDiscard
       DEF Walks
  <2>3. CASE RevokeBegin(o) \/ MovedBegin(o) \/ MovedWhere(o) \/ Revoke(o)
               \/ ReconcileBegin(o) \/ Sweep(o) \/ PublishRead(o) \/ PublishSend(o)
    BY <2>3, MovesRevokeBegin, MovesMovedBegin, MovesMovedWhere, MovesRevoke,
       MovesReconcileBegin, MovesSweep, MovesPublishRead, MovesPublishSend DEF Walks
  <2>4. CASE EndBegin(o) \/ Classify(o) \/ Forget(o) \/ Release(o) \/ Remove(o)
    BY <2>4, MovesEndBegin, MovesClassify, MovesForget, MovesRelease, MovesRemove DEF Walks
  <2>5. QED  BY <1>1, <2>1, <2>2, <2>3, <2>4 DEF Steps
<1>2. ASSUME NEW o \in Op, Deliver(o)
      PROVE  chain' = Append(chain, o) /\ call[o].pc = "idle"
  BY <1>2, MovesDeliver
<1>3. CASE Commands
  <2>1. PICK o \in Op : (\E kind, k, t, p : Submit(o, kind, k, t, p)) \/ Announce(o)
    BY <1>3 DEF Commands
  <2>2. ASSUME NEW kind, NEW k, NEW t, NEW p, Submit(o, kind, k, t, p)
        PROVE  chain' = Append(chain, o) /\ call[o].pc = "idle"
    BY <2>2 DEF Submit, Submitted
  <2>3. Announce(o) => UNCHANGED chain
    BY DEF Announce
  <2>4. QED  BY <2>1, <2>2, <2>3
<1>4. CASE Chrome
  BY <1>4, ChromeStays
<1>5. CASE Restart
  BY <1>5, MovesRestart
<1>6. QED  BY <1>1, <1>2, <1>3, <1>4, <1>5 DEF Next

LEMMA ChainTyped ==
    ASSUME TypeInv, Next
    PROVE  chain' \in Seq(Op) /\ \A i \in 1..Len(chain') : chain'[i] \in Op
<1>1. chain \in Seq(Op)
  BY DEF TypeInv
<1>2. Overrun => chain' \in Seq(Op)
  BY <1>1 DEF Overrun
<1>3. chain' \in Seq(Op)
  <2>1. ASSUME NEW o \in Op
        PROVE  Append(chain, o) \in Seq(Op) /\ <<o>> \in Seq(Op)
    BY <1>1
  <2>2. UNCHANGED chain => chain' \in Seq(Op)
    BY <1>1
  <2>3. ASSUME NEW o \in Op, Finished(o) PROVE chain' \in Seq(Op)
    BY <2>3, ChainOver
  <2>4. QED  BY <1>2, <2>1, <2>2, <2>3, HowChainMoves
<1>4. QED  BY <1>3

LEMMA RestTyped ==
    ASSUME TypeInv, Next
    PROVE  /\ staged' \subseteq Task /\ ended' \subseteq Task
           /\ policy' \in {"automatic", "ask", "keep"}
           /\ publisher' \in Op \cup {None}
           /\ host' \subseteq Task \X Tab \/ \E o \in Op : PublishSend(o)
           /\ touched' \cup letGo' \cup closedForTask' \subseteq Tab
<1>0. /\ staged \subseteq Task /\ ended \subseteq Task
      /\ policy \in {"automatic", "ask", "keep"} /\ publisher \in Op \cup {None}
      /\ host \subseteq Task \X Tab /\ touched \cup letGo \cup closedForTask \subseteq Tab
  BY DEF TypeInv, TypeOK
<1> DEFINE G == /\ staged' \subseteq Task /\ ended' \subseteq Task
                /\ policy' \in {"automatic", "ask", "keep"}
                /\ publisher' \in Op \cup {None}
                /\ host' \subseteq Task \X Tab \/ \E o \in Op : PublishSend(o)
                /\ touched' \cup letGo' \cup closedForTask' \subseteq Tab
<1>1. ASSUME TasksStay, HostStays, GhostsStay, UNCHANGED touched PROVE G
  BY <1>0, <1>1 DEF TasksStay, HostStays, GhostsStay
<1>2. ASSUME NEW o \in Op, Walking(o) PROVE G
  BY <1>1, <1>2, WalkingStays DEF TabsStay
<1>3. ASSUME NEW o \in Op,
             AssertRecheck(o) \/ (\E t \in Tab : OpenBegin(o, t)) \/ GrantUndo(o) \/ Discard(o)
               \/ GrantGroup(o)
      PROVE  G
  BY <1>1, <1>3, OpeningStays
<1>4. ASSUME NEW o \in Op,
             GrantMark(o) \/ GrantRecord(o) \/ Revoke(o) \/ Sweep(o) \/ Forget(o)
      PROVE  G
  <2>1. HostStays /\ GhostsStay /\ UNCHANGED touched
    BY <1>4, StoringStays DEF TabsStay
  <2>2. CASE TasksStay
    BY <1>1, <2>1, <2>2
  <2>3. CASE Forget(o)
    <3>1. /\ ended' = ended \cup {call[o].task} /\ call[o].task \in Task /\ staged' \subseteq staged
          /\ policy' = policy
      BY <2>3, MovesForget DEF Forget
    <3>2. QED  BY <1>0, <2>1, <3>1 DEF HostStays, GhostsStay
  <2>4. QED  BY <1>4, <2>2, <2>3, StoringStays
<1>5. ASSUME NEW o \in Op, EndBegin(o) PROVE G
  <2>1. HostStays /\ GhostsStay /\ UNCHANGED touched /\ UNCHANGED policy
    BY <1>5, OthersStay DEF TabsStay
  <2>2. /\ call[o].task \in Task /\ staged' \subseteq staged
        /\ ended' = ended \/ ended' = ended \cup {call[o].task}
    BY <1>5, MovesEndBegin
  <2>3. QED  BY <1>0, <2>1, <2>2 DEF HostStays, GhostsStay
<1>6. ASSUME NEW o \in Op, Release(o) PROVE G
  <2>1. /\ HostStays /\ TasksStay /\ UNCHANGED <<touched, closedForTask>>
        /\ letGo' = letGo \cup call[o].keep /\ call[o].keep \subseteq Tab
    BY <1>6, OthersStay, MovesRelease DEF Release
  <2>2. QED  BY <1>0, <2>1 DEF HostStays, TasksStay
<1>7. ASSUME NEW o \in Op, Remove(o) PROVE G
  <2>1. call[o].doomed \subseteq Tab
    BY CallFacts DEF Call
  <2>2. HostStays /\ TasksStay /\ UNCHANGED touched
    BY <1>7, OthersStay
  <2>3. closedForTask' = closedForTask \/ closedForTask' = closedForTask \cup call[o].doomed
    BY <1>7 DEF Remove
  <2>4. \E held \in SUBSET call[o].doomed : letGo' = letGo \cup held
    BY <1>7 DEF Remove
  <2>5. QED  BY <1>0, <2>1, <2>2, <2>3, <2>4 DEF HostStays, TasksStay
<1>8. ASSUME NEW o \in Op, PublishRead(o) PROVE G
  <2>1. TasksStay /\ GhostsStay /\ UNCHANGED <<touched, host>> /\ publisher' = o
    BY <1>8, OthersStay, MovesPublishRead DEF TabsStay
  <2>2. QED  BY <1>0, <2>1 DEF TasksStay, GhostsStay
<1>9. ASSUME NEW o \in Op, PublishSend(o) PROVE G
  <2>1. TasksStay /\ GhostsStay /\ UNCHANGED touched /\ publisher' = None
    BY <1>9, OthersStay, MovesPublishSend DEF TabsStay
  <2>2. QED  BY <1>0, <1>9, <2>1 DEF TasksStay, GhostsStay
<1>10. CASE Commands
  BY <1>1, <1>10, CommandsStay DEF TabsStay
<1>11. ASSUME NEW o \in Op, Deliver(o) PROVE G
  BY <1>1, <1>11, DeliverStays DEF TabsStay
<1>12. CASE Overrun \/ Restart
  <2>1. GhostsStay /\ UNCHANGED <<touched, host, staged, policy>>
    BY <1>12, FaultStays DEF TabsStay
  <2>2. (HostStays /\ TasksStay) \/ (publisher' = None /\ ended' = {})
    BY <1>12, FaultStays, MovesRestart
  <2>3. QED  BY <1>0, <2>1, <2>2 DEF GhostsStay, HostStays, TasksStay
<1>13. CASE Chrome
  <2>1. GhostsStay /\ HostStays /\ UNCHANGED ended
    BY <1>13, ChromeStays
  <2>2. /\ touched' \subseteq Tab /\ staged' \subseteq Task
        /\ policy' \in {"automatic", "ask", "keep"}
    <3>1. ASSUME NEW t \in Tab, \/ UserOpens(t) \/ UserCloses(t)
                                \/ \E p \in Tab : PageOpens(t, p)
                                \/ \E g \in Group \cup {NoGroup} : UserMoves(t, g)
          PROVE  /\ touched' \in {touched, touched \cup {t}}
                 /\ UNCHANGED <<staged, policy>>
      BY <3>1 DEF UserOpens, UserCloses, PageOpens, UserMoves, stored
    <3>2. \A p \in {"automatic", "ask", "keep"} :
             SetPolicy(p) => policy' = p /\ UNCHANGED <<touched, staged>>
      BY DEF SetPolicy
    <3>3. \A k \in Task : Stage(k) => staged' = staged \cup {k} /\ UNCHANGED <<touched, policy>>
      BY DEF Stage
    <3>4. QED  BY <1>0, <1>13, <3>1, <3>2, <3>3 DEF Chrome
  <2>3. QED  BY <1>0, <2>1, <2>2 DEF GhostsStay, HostStays
<1>14. ASSUME NEW o \in Op, Steps(o) PROVE G
  BY <1>2, <1>3, <1>4, <1>5, <1>6, <1>7, <1>8, <1>9, <1>14, StepsAre
<1>15. QED  BY <1>10, <1>11, <1>12, <1>13, <1>14 DEF Next

(* Only a publication reads what it sends. *)
LEMMA SendTyped ==
    ASSUME TypeInv, Next
    PROVE  \A p \in Op : call'[p].pc = "send" => call'[p].pairs \subseteq Task \X Tab
<1>0. \A p \in Op : call[p].pc = "send" => call[p].pairs \subseteq Task \X Tab
  BY DEF TypeInv
<1> DEFINE G == \A p \in Op : call'[p].pc = "send" => call'[p].pairs \subseteq Task \X Tab
<1>1. ASSUME NEW o \in Op, NEW x \in Call, Becomes(o, x), x.pc # "send" \/ x.pairs \subseteq Task \X Tab
      PROVE  G
  BY <1>0, <1>1 DEF Becomes
<1>2. ASSUME NEW o \in Op, Finished(o) PROVE G
  <2>1. Becomes(o, Idle) /\ Idle \in Call /\ Idle.pc # "send"
    BY <1>2, Over, IdleIsCall DEF Idle
  <2>2. QED  BY <1>1, <2>1
<1>3. ASSUME NEW o \in Op, NEW x \in Call, NEW F, Walks(o, x, F), x.pc # "send" PROVE G
  BY <1>1, <1>3 DEF Walks
<1>4. ASSUME NEW o \in Op, Steps(o) PROVE G
  <2>1. CASE AssertBegin(o) \/ AssertCheck(o) \/ AssertRecheck(o)
               \/ (\E t \in Tab : OpenBegin(o, t) \/ AdoptBegin(o, t))
    <3>1. Finished(o) \/ \E x \in Call : (\E F : Walks(o, x, F)) /\ x.pc # "send"
      BY <2>1, MovesAssertBegin, MovesAssertCheck, MovesAssertRecheck, MovesBegin
    <3>2. QED  BY <1>2, <1>3, <3>1
  <2>2. CASE GrantLook(o) \/ GrantMark(o) \/ GrantGroup(o) \/ GrantVerify(o)
               \/ GrantRecord(o) \/ GrantUndo(o) \/ Discard(o)
    <3>1. Finished(o) \/ \E x \in Call : (\E F : Walks(o, x, F)) /\ x.pc # "send"
      BY <2>2, MovesLook, MovesMark, MovesGroup, MovesVerify, MovesRecord, MovesUndo, MovesDiscard
    <3>2. QED  BY <1>2, <1>3, <3>1
  <2>3. CASE RevokeBegin(o) \/ MovedBegin(o) \/ MovedWhere(o) \/ Revoke(o)
               \/ ReconcileBegin(o) \/ Sweep(o) \/ PublishSend(o)
    <3>1. Finished(o) \/ \E x \in Call : (\E F : Walks(o, x, F)) /\ x.pc # "send"
      BY <2>3, MovesRevokeBegin, MovesMovedBegin, MovesMovedWhere, MovesRevoke,
         MovesReconcileBegin, MovesSweep, MovesPublishSend
    <3>2. QED  BY <1>2, <1>3, <3>1
  <2>4. CASE PublishRead(o)
    <3>1. PICK x \in Call : Walks(o, x, {"pc", "pairs", "keep"}) /\ x.pairs = Pairs
      BY <2>4, MovesPublishRead
    <3>2. QED  BY <1>1, <3>1 DEF Walks, Pairs
  <2>5. CASE EndBegin(o) \/ Classify(o) \/ Forget(o) \/ Release(o) \/ Remove(o)
    <3>1. Finished(o) \/ \E x \in Call : (\E F : Walks(o, x, F)) /\ x.pc # "send"
      BY <2>5, MovesEndBegin, MovesClassify, MovesForget, MovesRelease, MovesRemove
    <3>2. QED  BY <1>2, <1>3, <3>1
  <2>6. QED  BY <1>4, <2>1, <2>2, <2>3, <2>4, <2>5 DEF Steps
<1>5. ASSUME NEW o \in Op, Deliver(o) PROVE G
  <2>1. \E x \in Call : Becomes(o, x) /\ x.pc = "queued"
    BY <1>5, MovesDeliver
  <2>2. QED  BY <1>1, <2>1
<1>6. CASE Commands
  <2>1. PICK o \in Op : (\E kind, k, t, p : Submit(o, kind, k, t, p)) \/ Announce(o)
    BY <1>6 DEF Commands
  <2>2. ASSUME NEW kind, NEW k, NEW t, NEW p, Submit(o, kind, k, t, p) PROVE G
    <3>1. \E c : call' = [call EXCEPT ![o] = [c EXCEPT !.pc = "queued"]] /\ c = [Idle EXCEPT !.kind = kind, !.task = k, !.tab = t, !.parent = p]
      BY <2>2 DEF Submit, Submitted
    <3>2. call'[o].pc = "queued" /\ \A p1 \in Op : p1 # o => call'[p1] = call[p1]
      BY <3>1 DEF TypeInv, Idle
    <3>3. QED  BY <1>0, <3>2
  <2>3. CASE Announce(o)
    <3>1. \E x \in Call : Becomes(o, x) /\ x.pc = "publish"
      BY <2>3, MovesAnnounce
    <3>2. QED  BY <1>1, <3>1
  <2>4. QED  BY <2>1, <2>2, <2>3
<1>7. CASE Restart
  <2>1. PICK o \in Op, x \in Call : call'[o] = x /\ x.pc = "queued" /\ \A p \in Op : p # o => call'[p] = Idle
    BY <1>7, MovesRestart
  <2>2. Idle.pc # "send"
    BY DEF Idle
  <2>3. QED  BY <2>1, <2>2
<1>8. CASE Chrome \/ Overrun
  BY <1>0, <1>8, ChromeStays, FaultStays
<1>9. QED  BY <1>4, <1>5, <1>6, <1>7, <1>8 DEF Next

LEMMA TypeStep ==
    ASSUME TypeInv, Next
    PROVE  TypeInv'
<1>1. /\ staged' \subseteq Task /\ ended' \subseteq Task
      /\ policy' \in {"automatic", "ask", "keep"}
      /\ publisher' \in Op \cup {None}
      /\ host' \subseteq Task \X Tab \/ \E o \in Op : PublishSend(o)
      /\ touched' \cup letGo' \cup closedForTask' \subseteq Tab
  BY RestTyped
<1>2. host' \subseteq Task \X Tab
  <2>1. ASSUME NEW o \in Op, PublishSend(o)
        PROVE  host' \subseteq Task \X Tab
    <3>1. call[o].pc = "send" /\ \A p \in host' : p \in call[o].pairs
      BY <2>1, MovesPublishSend
    <3>2. call[o].pairs \subseteq Task \X Tab
      BY <3>1 DEF TypeInv
    <3>3. QED  BY <3>1, <3>2
  <2>2. QED  BY <1>1, <2>1
<1>3. tab' \in [Tab -> TabState] /\ nextGroup' \in 1..(MaxGroups + 1)
  BY TabTyped, HowTabsMove
<1>4. /\ ledger' \in [Task -> TaskRecord] /\ WellFormed(ledger')
      /\ \A k \in Task : ~ledger'[k].known => ledger'[k] = NoTask
      /\ ambiguous' \in BOOLEAN
  BY LedgerTyped
<1>5. call' \in [Op -> Call] /\ \A p \in Op : CallOK(call'[p])
  BY CallsTyped
<1>6. \A o \in Op : call'[o].tab \in Tab \cup {None} /\ call'[o].task \in Task \cup {None}
  BY <1>5 DEF Call
<1>7. chain' \in Seq(Op) /\ \A i \in 1..Len(chain') : chain'[i] \in Op
  BY ChainTyped
<1>8. events' \in Seq(Event) /\ \A e \in Heard' : EventOK(e)
  BY EventsTyped
<1>9. TypeOK'
  <2>1. /\ tab' \in [Tab -> [state : {"new", "open", "closed"}, group : Group \cup {NoGroup},
                             by : {"user", "agent", "child"}]]
        /\ ledger' \in [Task -> [group : Group \cup {NoGroup}, tabs : SUBSET Tab,
                                 created : SUBSET Tab, known : BOOLEAN]]
    BY <1>3, <1>4 DEF TabState, TaskRecord, Groups
  <2>2. QED  BY <1>1, <1>2, <1>3, <1>4, <1>6, <1>7, <2>1 DEF TypeOK
<1>10. QED  BY <1>4, <1>5, <1>7, <1>8, <1>9, SendTyped DEF TypeInv

LEMMA TypeInit ==
    ASSUME Init
    PROVE  TypeInv
<1>1. tab \in [Tab -> [state : {"new", "open", "closed"}, group : Group \cup {NoGroup},
                       by : {"user", "agent", "child"}]]
  BY DEF Init, Group, NoGroup
<1>2. NoTask \in TaskRecord /\ ledger = [k \in Task |-> NoTask]
  BY NoTaskIs DEF Init
<1>3. ledger \in [Task -> [group : Group \cup {NoGroup}, tabs : SUBSET Tab,
                           created : SUBSET Tab, known : BOOLEAN]]
  BY <1>2 DEF TaskRecord, Groups
<1>4. call = [o \in Op |-> Idle] /\ Idle \in Call /\ CallOK(Idle) /\ Idle.pc = "idle"
      /\ Idle.tab = None /\ Idle.task = None
  BY IdleIsCall DEF Init, Idle
<1>5. chain = <<>> /\ events = <<>> /\ Heard = {}
  BY DEF Init, Heard
<1>6. WellFormed(ledger) /\ \A k \in Task : ~ledger[k].known => ledger[k] = NoTask
  BY <1>2, NoTaskIs DEF WellFormed, Unambiguous
<1>7. nextGroup \in 1..(MaxGroups + 1)
  BY OwnershipAssumption DEF Init
<1>8. TypeOK
  <2>1. /\ staged = {} /\ ended = {} /\ policy = "automatic" /\ publisher = None /\ host = {}
        /\ touched = {} /\ letGo = {} /\ closedForTask = {} /\ ambiguous = FALSE
    BY DEF Init
  <2>2. \A o \in Op : call[o].tab \in Tab \cup {None} /\ call[o].task \in Task \cup {None}
    BY <1>4
  <2>3. \A i \in 1..Len(chain) : chain[i] \in Op
    BY <1>5
  <2>4. QED  BY <1>1, <1>3, <1>7, <2>1, <2>2, <2>3 DEF TypeOK
<1>9. QED  BY <1>4, <1>5, <1>6, <1>8 DEF TypeInv

LEMMA TypeStutter ==
    ASSUME TypeInv, UNCHANGED vars
    PROVE  TypeInv'
BY DEF vars, chromeVars, stored, ghosts, faults, TypeInv, TypeOK, Heard

(* The ledger, Chrome's tabs, the operations in flight and what they hold keep *)
(* their types, and what parseState asks of a stored ledger holds of the one   *)
(* in chrome.storage at every step of every operation.                         *)
THEOREM LedgerTypeCorrect == Spec => [](TypeOK /\ WellFormed(ledger))
<1>1. Init => TypeInv
  BY TypeInit
<1>2. TypeInv /\ [Next]_vars => TypeInv'
  BY TypeStep, TypeStutter
<1>3. TypeInv => TypeOK /\ WellFormed(ledger)
  BY DEF TypeInv
<1>4. QED  BY <1>1, <1>2, <1>3, PTL DEF Spec

--------------------------------
(* An ended task *)

(* A task that ended gets no new record while the service worker lives: only a *)
(* grant makes a record, and it looks at endedTaskIds in the step that stores. *)
THEOREM EndedTasksStay == Spec => EndedStaysEnded
<1>1. Init => TypeInv
  BY TypeInit
<1>2. TypeInv /\ [Next]_vars => TypeInv'
  BY TypeStep, TypeStutter
<1>3. TypeInv /\ [Next]_vars
        => [\A k \in ended \cap ended' : ~ledger[k].known => ~ledger'[k].known]_vars
  <2>1. SUFFICES ASSUME TypeInv, Next, NEW k \in ended \cap ended', ~ledger[k].known
                 PROVE  ~ledger'[k].known
    OBVIOUS
  <2>2. k \in Task /\ k \in ended
    BY <2>1 DEF TypeInv, TypeOK
  <2>3. CASE UNCHANGED <<ledger, ambiguous>>
    BY <2>1, <2>3
  <2>4. ASSUME NEW l, Stored(l), ~l[k].known PROVE ~ledger'[k].known
    BY <2>1, <2>4 DEF Stored
  <2>5. ASSUME NEW o \in Op, GrantMark(o) PROVE ~ledger'[k].known
    <3>1. PICK l : l = [ledger EXCEPT ![call[o].task].created = @ \cup {call[o].tab}]
      OBVIOUS
    <3>2. Stored(l) \/ Stored(ledger)
      BY <2>1, <2>5, <3>1, MovesMark
    <3>3. l[k].known = ledger[k].known
      BY <2>1, <2>2, <3>1, LedgerType DEF TaskRecord
    <3>4. QED  BY <2>1, <2>4, <3>2, <3>3
  <2>6. ASSUME NEW o \in Op, GrantRecord(o) PROVE ~ledger'[k].known
    <3>1. PICK l : l = [ledger EXCEPT ![call[o].task] = Granted(call[o])]
      OBVIOUS
    <3>2. (Stored(l) /\ Recordable(call[o])) \/ ledger' = ledger
      BY <2>1, <2>6, <3>1, MovesRecord
    <3>3. CASE Stored(l) /\ Recordable(call[o])
      <4>1. call[o].task # k
        BY <2>1, <2>2, <3>3 DEF Recordable
      <4>2. l[k] = ledger[k]
        BY <2>1, <2>2, <3>1, <4>1, LedgerType
      <4>3. QED  BY <2>1, <2>4, <3>3, <4>2
    <3>4. QED  BY <2>1, <3>2, <3>3
  <2>7. ASSUME NEW o \in Op, Revoke(o) PROVE ~ledger'[k].known
    <3>1. PICK t : Stored(Revoked(t))
      BY <2>1, <2>7, MovesRevoke
    <3>2. ~Revoked(t)[k].known
      BY <2>1, <2>2, RevokedIs
    <3>3. QED  BY <2>4, <3>1, <3>2
  <2>8. ASSUME NEW o \in Op, Sweep(o) PROVE ~ledger'[k].known
    <3>1. Stored(Swept(call[o].pairs))
      BY <2>1, <2>8, MovesSweep
    <3>2. ~Swept(call[o].pairs)[k].known
      BY <2>1, <2>2, SweptIs
    <3>3. QED  BY <2>4, <3>1, <3>2
  <2>9. ASSUME NEW o \in Op, Forget(o) PROVE ~ledger'[k].known
    <3>1. PICK l : l = [ledger EXCEPT ![call[o].task] = NoTask]
      OBVIOUS
    <3>2. Stored(l)
      BY <2>1, <2>9, <3>1, MovesForget
    <3>3. ~l[k].known
      BY <2>1, <2>2, <3>1, NoTaskIs, LedgerType
    <3>4. QED  BY <2>4, <3>2, <3>3
  <2>10. QED  BY <2>1, <2>3, <2>5, <2>6, <2>7, <2>8, <2>9, WhoMovesLedger
<1>4. QED  BY <1>1, <1>2, <1>3, PTL DEF Spec, EndedStaysEnded

--------------------------------
(* The tabs that a task may close *)

(* A tab that is there and that the user did not open. *)
Made(t) == tab[t].state # "new" /\ tab[t].by # "user"

OpMade(c) ==
    /\ \A t \in c.seen.created : Made(t)
    /\ c.kind = "child" => Made(c.tab)
    /\ c.kind \in {"open", "request"} /\ InGrant(c) => Made(c.tab)
    /\ c.kind = "auto" /\ c.pc = "classify" => \A t \in c.seen.tabs \ c.keep : Made(t)
    /\ c.kind = "auto" => \A t \in c.doomed : Made(t)
    /\ c.pc = "mark" => Makes(c)

MadeInv ==
    /\ \A k \in Task : \A t \in ledger[k].created : Made(t)
    /\ \A e \in Heard : e.kind = "child" => Made(e.tab)
    /\ \A o \in Op : OpMade(call[o])
    /\ \A t \in closedForTask : Made(t)

LEMMA MadeStays ==
    ASSUME TypeInv, Next, NEW t \in Tab, Made(t)
    PROVE  Made(t)'
<1>1. tab[t].state # "new" /\ tab[t].by # "user"
  BY DEF Made
<1>2. ASSUME NEW u \in Tab, NEW by \in {"user", "child", "agent"}, Opens(u, by)
      PROVE  tab'[t] = tab[t]
  BY <1>1, <1>2, OpensIs
<1>3. ASSUME NEW ts \in SUBSET Tab, Closes(ts) \/ Lets(ts)
      PROVE  tab'[t].by = tab[t].by /\ tab'[t].state \in {tab[t].state, "closed"}
  BY <1>3, ClosesIs, LetsIs
<1>4. ASSUME NEW u \in Tab, NEW g \in Groups, Moves(u, g)
      PROVE  tab'[t].by = tab[t].by /\ tab'[t].state = tab[t].state
  BY <1>4, MovesIs
<1>5. tab'[t].by = tab[t].by /\ tab'[t].state \in {tab[t].state, "closed"}
  BY <1>2, <1>3, <1>4, HowTabsMove
<1>6. QED  BY <1>1, <1>5 DEF Made

LEMMA OpMadeStays ==
    ASSUME TypeInv, Next, NEW x \in Call, CallOK(x), OpMade(x)
    PROVE  OpMade(x)'
<1>1. /\ x.seen.created \subseteq Tab /\ x.seen.tabs \subseteq Tab /\ x.doomed \subseteq Tab
      /\ x.kind = "child" => x.tab \in Tab
      /\ InGrant(x) => x.tab \in Tab
  BY DEF Call, TaskRecord, CallOK
<1>2. \A t \in Tab : Made(t) => Made(t)'
  BY MadeStays
<1>3. QED  BY <1>1, <1>2 DEF OpMade

LEMMA KeepsMade ==
    ASSUME NEW c, OpMade(c), NEW x, x.kind = c.kind, x.tab = c.tab,
           x.seen = c.seen \/ (\A t \in x.seen.created : Made(t)),
           x.doomed = c.doomed \/ (c.kind = "auto" => \A t \in x.doomed : Made(t)),
           InGrant(x) => InGrant(c) \/ c.kind \notin {"open", "request"},
           x.pc # "classify", x.pc = "mark" => Makes(x)
    PROVE  OpMade(x)
BY DEF OpMade

LEMMA IdleMade == OpMade(Idle)
BY DEF OpMade, Idle, NoTask, InGrant, Granting, Makes

(* In every step of an operation, what becomes of it is made as it must be. *)
LEMMA MadeAssert ==
    ASSUME TypeInv, MadeInv, Next, NEW o \in Op,
           AssertBegin(o) \/ AssertCheck(o) \/ AssertRecheck(o)
              \/ (\E t \in Tab : OpenBegin(o, t) \/ AdoptBegin(o, t))
    PROVE  Finished(o) \/ \E x \in Call : Becomes(o, x) /\ (OpMade(x) \/ OpMade(x)')
<1>1. PICK c : c = call[o] /\ c \in Call /\ CallOK(c) /\ OpMade(c)
  BY CallFacts DEF MadeInv
<1>2. CASE AssertBegin(o) /\ ~Finished(o)
  <2>1. PICK x \in Call : /\ Walks(o, x, {"pc", "task", "seen"}) /\ x.pc = "check"
                          /\ x.task \in Task /\ x.seen = ledger[x.task]
    BY <1>2, MovesAssertBegin
  <2>2. \A t \in x.seen.created : Made(t)
    BY <2>1 DEF MadeInv
  <2>3. x.kind = c.kind /\ x.tab = c.tab /\ x.doomed = c.doomed
    BY <1>1, <2>1 DEF Walks, Keeps
  <2>4. ~InGrant(x)
    BY <2>1 DEF InGrant, Granting
  <2>5. OpMade(x)
    BY <1>1, <2>1, <2>2, <2>3, <2>4, KeepsMade
  <2>6. QED  BY <2>1, <2>5 DEF Walks
<1>3. CASE AssertCheck(o)
  <2>1. PICK x \in Call : /\ Walks(o, x, {"pc", "then"})
                          /\ x.pc = "recheck" \/ (x.pc = "revoke" /\ x.then = "done")
    BY <1>3, MovesAssertCheck
  <2>2. x.kind = c.kind /\ x.tab = c.tab /\ x.doomed = c.doomed /\ x.seen = c.seen
    BY <1>1, <2>1 DEF Walks, Keeps
  <2>3. ~InGrant(x)
    BY <2>1 DEF InGrant, Granting
  <2>4. OpMade(x)
    BY <1>1, <2>1, <2>2, <2>3, KeepsMade
  <2>5. QED  BY <2>1, <2>4 DEF Walks
<1>4. ASSUME NEW t \in Tab, Opens(t, "agent"), NEW x \in Call,
             Walks(o, x, {"pc", "tab"}), x.pc = "look", x.tab = t,
             c.kind \notin {"child", "auto"}
      PROVE  OpMade(x)'
  <2>1. Made(t)'
    BY <1>4, OpensIs DEF Made
  <2>2. x.kind = c.kind /\ x.doomed = c.doomed /\ x.seen = c.seen
    BY <1>1, <1>4 DEF Walks, Keeps
  <2>3. \A u \in x.seen.created : Made(u)'
    <3>1. \A u \in x.seen.created : u \in Tab /\ Made(u)
      BY <1>1, <2>2 DEF OpMade, Call, TaskRecord
    <3>2. QED  BY <3>1, MadeStays
  <2>4. QED  BY <1>4, <2>1, <2>2, <2>3 DEF OpMade
<1>5. CASE AssertRecheck(o) /\ ~Finished(o)
  <2>1. \/ c.kind = "child" /\ \E x \in Call : Walks(o, x, {"pc"}) /\ x.pc = "look"
        \/ /\ c.kind \notin {"child", "assert"}
           /\ \E t \in Tab : /\ Opens(t, "agent")
                             /\ \E x \in Call : /\ Walks(o, x, {"pc", "tab"})
                                                /\ x.pc = "look" /\ x.tab = t
    BY <1>1, <1>5, MovesAssertRecheck
  <2>2. c.kind \in {"assert", "child", "request"}
    BY <1>1, <1>5, MovesAssertRecheck DEF CallOK
  <2>3. CASE c.kind = "child" /\ \E x \in Call : Walks(o, x, {"pc"}) /\ x.pc = "look"
    <3>1. PICK x \in Call : Walks(o, x, {"pc"}) /\ x.pc = "look"
      BY <2>3
    <3>2. x.kind = c.kind /\ x.tab = c.tab /\ x.doomed = c.doomed /\ x.seen = c.seen
      BY <1>1, <3>1 DEF Walks, Keeps
    <3>3. OpMade(x)
      BY <1>1, <2>3, <3>1, <3>2, KeepsMade
    <3>4. QED  BY <3>1, <3>3 DEF Walks
  <2>4. CASE /\ c.kind \notin {"child", "assert"}
             /\ \E t \in Tab : /\ Opens(t, "agent")
                               /\ \E x \in Call : /\ Walks(o, x, {"pc", "tab"})
                                                  /\ x.pc = "look" /\ x.tab = t
    BY <1>4, <2>2, <2>4 DEF Walks
  <2>5. QED  BY <2>1, <2>3, <2>4
<1>6. ASSUME NEW t \in Tab, OpenBegin(o, t) \/ AdoptBegin(o, t)
      PROVE  \E x \in Call : Becomes(o, x) /\ (OpMade(x) \/ OpMade(x)')
  <2>1. PICK x \in Call : Walks(o, x, {"pc", "tab"}) /\ x.pc = "look" /\ x.tab = t
    BY <1>6, MovesBegin
  <2>2. CASE c.kind = "open" /\ Opens(t, "agent")
    BY <1>4, <2>1, <2>2 DEF Walks
  <2>3. CASE c.kind = "adopt"
    <3>1. x.kind = c.kind /\ x.doomed = c.doomed /\ x.seen = c.seen
      BY <1>1, <2>1 DEF Walks, Keeps
    <3>2. OpMade(x)
      BY <1>1, <2>1, <2>3, <3>1 DEF OpMade
    <3>3. QED  BY <2>1, <3>2 DEF Walks
  <2>4. QED  BY <1>1, <1>6, <2>2, <2>3, MovesBegin
<1>7. QED  BY <1>2, <1>3, <1>5, <1>6

LEMMA MadeGrant ==
    ASSUME TypeInv, MadeInv, NEW o \in Op,
           GrantLook(o) \/ GrantMark(o) \/ GrantGroup(o) \/ GrantVerify(o)
              \/ GrantRecord(o) \/ GrantUndo(o) \/ Discard(o)
    PROVE  Finished(o) \/ \E x \in Call : Becomes(o, x) /\ OpMade(x)
<1>1. PICK c : c = call[o] /\ c \in Call /\ CallOK(c) /\ OpMade(c)
  BY CallFacts DEF MadeInv
<1>2. InGrant(c) /\ c.task \in Task
  <2>1. InGrant(c)
    BY <1>1 DEF GrantLook, GrantMark, GrantGroup, GrantVerify, GrantRecord, GrantUndo, Discard,
       At, Granting, InGrant
  <2>2. QED  BY <1>1, <2>1 DEF CallOK
<1>3. ASSUME NEW x \in Call, NEW F, Walks(o, x, F),
             F \cap {"kind", "tab", "doomed"} = {},
             "seen" \notin F \/ (\A t \in x.seen.created : Made(t)),
             x.pc # "classify", x.pc = "mark" => Makes(c)
      PROVE  \E y \in Call : Becomes(o, y) /\ OpMade(y)
  <2>1. /\ x.kind = c.kind /\ x.tab = c.tab /\ x.doomed = c.doomed
        /\ x.seen = c.seen \/ (\A t \in x.seen.created : Made(t))
    BY <1>1, <1>3 DEF Walks, Keeps
  <2>2. Makes(c) => Makes(x)
    BY <2>1 DEF Makes
  <2>3. OpMade(x)
    BY <1>1, <1>2, <1>3, <2>1, <2>2, KeepsMade
  <2>4. QED  BY <1>3, <2>3 DEF Walks
<1>4. CASE GrantLook(o)
  <2>1. \/ Finished(o)
        \/ \E x \in Call : Walks(o, x, {"pc"}) /\ (x.pc = "discard" \/ (x.pc = "mark" /\ Makes(c)))
        \/ \E x \in Call : Walks(o, x, {"pc", "was", "then"}) /\ x.pc = "revoke"
        \/ \E x \in Call : Walks(o, x, {"pc", "was"}) /\ x.pc = "group"
    BY <1>1, <1>4, MovesLook
  <2>2. QED  BY <1>3, <2>1
<1>5. CASE GrantMark(o)
  <2>1. Finished(o) \/ \E x \in Call : Walks(o, x, {"pc"}) /\ x.pc = "discard"
    BY <1>5, MovesMark
  <2>2. QED  BY <1>3, <2>1
<1>6. CASE GrantGroup(o)
  <2>1. \A t \in ledger[c.task].created : Made(t)
    BY <1>2 DEF MadeInv
  <2>2. \/ \E x \in Call : /\ Walks(o, x, {"pc", "group", "seen"}) /\ x.pc = "verify"
                           /\ x.seen = ledger[c.task]
        \/ \E x \in Call : Walks(o, x, {"pc"}) /\ x.pc = "undo"
    BY <1>1, <1>6, MovesGroup
  <2>3. QED  BY <1>3, <2>1, <2>2
<1>7. CASE GrantVerify(o)
  <2>1. \E x \in Call : Walks(o, x, {"pc"}) /\ x.pc \in {"record", "undo"}
    BY <1>7, MovesVerify
  <2>2. QED  BY <1>3, <2>1
<1>8. CASE GrantRecord(o)
  <2>1. \/ \E x \in Call : Walks(o, x, {"pc", "then"}) /\ x.pc \in {"publish", "undo"}
        \/ \E x \in Call : Walks(o, x, {"pc"}) /\ x.pc = "undo"
    BY <1>8, MovesRecord
  <2>2. QED  BY <1>3, <2>1
<1>9. CASE GrantUndo(o)
  <2>1. Finished(o) \/ \E x \in Call : Walks(o, x, {"pc"}) /\ x.pc = "discard"
    BY <1>9, MovesUndo
  <2>2. QED  BY <1>3, <2>1
<1>10. CASE Discard(o)
  BY <1>10, MovesDiscard
<1>11. QED  BY <1>4, <1>5, <1>6, <1>7, <1>8, <1>9, <1>10

LEMMA MadeRevoke ==
    ASSUME TypeInv, MadeInv, NEW o \in Op,
           RevokeBegin(o) \/ MovedBegin(o) \/ MovedWhere(o) \/ Revoke(o)
              \/ ReconcileBegin(o) \/ Sweep(o) \/ PublishRead(o) \/ PublishSend(o)
    PROVE  Finished(o) \/ \E x \in Call : Becomes(o, x) /\ OpMade(x)
<1>1. PICK c : c = call[o] /\ c \in Call /\ CallOK(c) /\ OpMade(c)
  BY CallFacts DEF MadeInv
<1>2. ASSUME NEW x \in Call, NEW F, Walks(o, x, F),
             F \cap {"kind", "tab", "doomed", "seen"} = {},
             x.pc \notin {"classify", "mark"},
             InGrant(x) => InGrant(c)
      PROVE  \E y \in Call : Becomes(o, y) /\ OpMade(y)
  <2>1. x.kind = c.kind /\ x.tab = c.tab /\ x.doomed = c.doomed /\ x.seen = c.seen
    BY <1>1, <1>2 DEF Walks, Keeps
  <2>2. OpMade(x)
    BY <1>1, <1>2, <2>1, KeepsMade
  <2>3. QED  BY <1>2, <2>2 DEF Walks
<1>3. c.pc \in {"queued", "where", "sweep"} => c.then = "done"
  BY <1>1 DEF CallOK
<1>4. ASSUME NEW x \in Call, NEW F, Walks(o, x, F),
             F \cap {"kind", "tab", "doomed", "seen", "then"} = {},
             \/ x.pc \in {"where", "sweep"}
             \/ x.pc \in {"revoke", "publish", "send"}
                  /\ c.pc \in {"queued", "where", "sweep", "revoke", "publish", "send"}
             \/ x.pc = "group" /\ c.then = "group" /\ c.pc \in {"revoke", "send"}
      PROVE  \E y \in Call : Becomes(o, y) /\ OpMade(y)
  <2>1. x.then = c.then
    BY <1>1, <1>4 DEF Walks, Keeps
  <2>2. InGrant(x) => InGrant(c)
    BY <1>3, <1>4, <2>1 DEF InGrant, Granting
  <2>3. QED  BY <1>2, <1>4, <2>2
<1>5. CASE RevokeBegin(o)
  <2>1. c.pc = "queued" /\ \E x \in Call : Walks(o, x, {"pc"}) /\ x.pc = "revoke"
    BY <1>1, <1>5, MovesRevokeBegin
  <2>2. QED  BY <1>4, <2>1
<1>6. CASE MovedBegin(o)
  <2>1. Finished(o) \/ \E x \in Call : Walks(o, x, {"pc", "group"}) /\ x.pc = "where"
    BY <1>6, MovesMovedBegin
  <2>2. QED  BY <1>4, <2>1
<1>7. CASE MovedWhere(o)
  <2>1. c.pc = "where" /\ (Finished(o) \/ \E x \in Call : Walks(o, x, {"pc"}) /\ x.pc = "revoke")
    BY <1>1, <1>7, MovesMovedWhere
  <2>2. QED  BY <1>4, <2>1
<1>8. CASE Revoke(o)
  <2>1. c.pc = "revoke"
    BY <1>1, <1>8, MovesRevoke
  <2>2. \/ Finished(o)
        \/ \E x \in Call : Walks(o, x, {"pc"}) /\ (x.pc = "publish" \/ (x.pc = "group" /\ c.then = "group"))
    BY <1>1, <1>8, MovesRevoke
  <2>3. QED  BY <1>4, <2>1, <2>2
<1>9. CASE ReconcileBegin(o)
  <2>1. \E x \in Call : Walks(o, x, {"pc", "pairs"}) /\ x.pc = "sweep"
    BY <1>9, MovesReconcileBegin
  <2>2. QED  BY <1>4, <2>1
<1>10. CASE Sweep(o)
  <2>1. c.pc = "sweep" /\ \E x \in Call : Walks(o, x, {"pc", "pairs"}) /\ x.pc = "publish"
    BY <1>1, <1>10, MovesSweep
  <2>2. QED  BY <1>4, <2>1
<1>11. CASE PublishRead(o)
  <2>1. c.pc = "publish" /\ \E x \in Call : Walks(o, x, {"pc", "pairs", "keep"}) /\ x.pc = "send"
    BY <1>1, <1>11, MovesPublishRead
  <2>2. QED  BY <1>4, <2>1
<1>12. CASE PublishSend(o)
  <2>1. /\ c.pc = "send"
        /\ \/ Finished(o)
           \/ c.then = "group" /\ \E x \in Call : Walks(o, x, {"pc", "pairs", "keep"}) /\ x.pc = "group"
    BY <1>1, <1>12, MovesPublishSend
  <2>2. QED  BY <1>4, <2>1
<1>13. QED  BY <1>5, <1>6, <1>7, <1>8, <1>9, <1>10, <1>11, <1>12

LEMMA MadeEnd ==
    ASSUME TypeInv, MadeInv, NEW o \in Op,
           EndBegin(o) \/ Classify(o) \/ Forget(o) \/ Release(o) \/ Remove(o)
    PROVE  Finished(o) \/ \E x \in Call : Becomes(o, x) /\ OpMade(x)
<1>1. PICK c : c = call[o] /\ c \in Call /\ CallOK(c) /\ OpMade(c)
  BY CallFacts DEF MadeInv
<1>2. CASE EndBegin(o) /\ ~Finished(o)
  <2>1. PICK x \in Call :
           /\ Walks(o, x, {"pc", "seen", "keep"})
           /\ x.pc \in {"forget", "classify"}
           /\ x.seen = ledger[c.task]
           /\ c.kind = "auto" => x.seen.tabs \ x.seen.created \subseteq x.keep
    BY <1>1, <1>2, MovesEndBegin
  <2>2. c.task \in Task /\ c.kind \in EndKinds
    BY <1>1, <1>2, MovesEndBegin
  <2>3. \A t \in x.seen.created : Made(t)
    BY <2>1, <2>2 DEF MadeInv
  <2>4. x.kind = c.kind /\ x.doomed = c.doomed
    BY <1>1, <2>1 DEF Walks, Keeps
  <2>5. OpMade(x)
    BY <1>1, <2>1, <2>2, <2>3, <2>4 DEF OpMade, EndKinds
  <2>6. QED  BY <2>1, <2>5 DEF Walks
<1>3. CASE Classify(o)
  <2>1. c.pc = "classify" /\ c.kind \in EndKinds
    BY <1>1, <1>3, MovesClassify DEF CallOK, Ending
  <2>2. PICK x \in Call :
           /\ Walks(o, x, {"pc", "keep", "doomed"}) /\ x.pc = "forget"
           /\ x.doomed = {t \in c.seen.tabs \ c.keep : InGroup(t, c.seen.group)}
    BY <1>1, <1>3, MovesClassify
  <2>3. x.kind = c.kind /\ x.seen = c.seen
    BY <1>1, <2>2 DEF Walks, Keeps
  <2>4. c.kind = "auto" => \A t \in x.doomed : Made(t)
    BY <1>1, <2>1, <2>2 DEF OpMade
  <2>5. OpMade(x)
    BY <1>1, <2>1, <2>2, <2>3, <2>4 DEF OpMade, EndKinds
  <2>6. QED  BY <2>2, <2>5 DEF Walks
<1>4. CASE Forget(o)
  <2>1. c.pc = "forget" /\ c.kind \in EndKinds
    BY <1>1, <1>4, MovesForget
  <2>2. PICK x \in Call :
           /\ Walks(o, x, {"pc", "doomed"}) /\ x.pc = "release"
           /\ c.kind # "close" => x.doomed = c.doomed
    BY <1>1, <1>4, MovesForget
  <2>3. x.kind = c.kind /\ x.seen = c.seen
    BY <1>1, <2>2 DEF Walks, Keeps
  <2>4. OpMade(x)
    BY <1>1, <2>1, <2>2, <2>3 DEF OpMade, EndKinds
  <2>5. QED  BY <2>2, <2>4 DEF Walks
<1>5. CASE Release(o)
  <2>1. c.pc = "release" /\ c.kind \in EndKinds
    BY <1>1, <1>5, MovesRelease
  <2>2. PICK x \in Call :
           /\ Walks(o, x, {"pc", "doomed"}) /\ x.pc = "remove"
           /\ x.doomed \subseteq c.doomed
    BY <1>1, <1>5, MovesRelease
  <2>3. x.kind = c.kind /\ x.seen = c.seen
    BY <1>1, <2>2 DEF Walks, Keeps
  <2>4. OpMade(x)
    BY <1>1, <2>1, <2>2, <2>3 DEF OpMade, EndKinds
  <2>5. QED  BY <2>2, <2>4 DEF Walks
<1>6. CASE Remove(o)
  <2>1. c.pc = "remove" /\ c.kind \in EndKinds
    BY <1>1, <1>6, MovesRemove
  <2>2. PICK x \in Call :
           /\ Walks(o, x, {"pc", "then", "doomed", "keep"}) /\ x.pc = "publish" /\ x.doomed = {}
    BY <1>6, MovesRemove
  <2>3. x.kind = c.kind /\ x.seen = c.seen
    BY <1>1, <2>2 DEF Walks, Keeps
  <2>4. OpMade(x)
    BY <1>1, <2>1, <2>2, <2>3 DEF OpMade, EndKinds
  <2>5. QED  BY <2>2, <2>4 DEF Walks
<1>7. QED  BY <1>2, <1>3, <1>4, <1>5, <1>6

LEMMA MadeCalls ==
    ASSUME TypeInv, MadeInv, Next
    PROVE  \A p \in Op : OpMade(call[p])'
<1> DEFINE Goal == \A p \in Op : \E y \in Call : y = call'[p] /\ OpMade(y)'
<1>0. \A p \in Op : \E y \in Call : y = call[p] /\ OpMade(y)'
  <2>1. SUFFICES ASSUME NEW p \in Op
                 PROVE  \E y \in Call : y = call[p] /\ OpMade(y)'
    OBVIOUS
  <2>2. PICK y \in Call : y = call[p] /\ CallOK(y) /\ OpMade(y)
    BY CallFacts DEF MadeInv
  <2>3. OpMade(y)'
    BY <2>2, OpMadeStays
  <2>4. QED  BY <2>2, <2>3
<1>1. call' \in [Op -> Call] /\ \A p \in Op : CallOK(call'[p])
  BY CallsTyped
<1>2. ASSUME NEW o \in Op, NEW x \in Call, Becomes(o, x), OpMade(x)'
      PROVE  Goal
  <2>1. SUFFICES ASSUME NEW p \in Op
                 PROVE  \E y \in Call : y = call'[p] /\ OpMade(y)'
    OBVIOUS
  <2>2. call'[p] = IF p = o THEN x ELSE call[p]
    BY <1>2 DEF Becomes
  <2>3. QED  BY <1>0, <1>2, <2>2
<1>3. ASSUME NEW o \in Op, NEW x \in Call, Becomes(o, x), OpMade(x)
      PROVE  Goal
  <2>1. CallOK(x)
    BY <1>1, <1>3 DEF Becomes
  <2>2. OpMade(x)'
    BY <1>3, <2>1, OpMadeStays
  <2>3. QED  BY <1>2, <1>3, <2>2
<1>4. ASSUME NEW o \in Op, Finished(o)
      PROVE  Goal
  BY <1>3, <1>4, Over, IdleIsCall, IdleMade
<1>5. ASSUME NEW o \in Op, Steps(o)
      PROVE  Goal
  <2>1. Finished(o) \/ \E x \in Call : Becomes(o, x) /\ (OpMade(x) \/ OpMade(x)')
    BY <1>5, MadeAssert, MadeGrant, MadeRevoke, MadeEnd DEF Steps
  <2>2. QED  BY <1>2, <1>3, <1>4, <2>1
<1>6. ASSUME NEW o \in Op, Deliver(o)
      PROVE  Goal
  <2>1. PICK x \in Call, e \in Heard :
           /\ Becomes(o, x) /\ x.pc = "queued"
           /\ Keeps(x, Idle, {"pc", "kind", "tab", "parent", "event"})
           /\ x.kind = e.kind /\ x.tab = e.tab /\ e \in Event
    BY <1>6, MovesDeliver
  <2>2. x.seen.created = {} /\ x.doomed = {}
    BY <2>1 DEF Keeps, Idle, NoTask
  <2>3. x.kind = "child" => Made(x.tab)
    BY <2>1 DEF MadeInv
  <2>4. OpMade(x)
    BY <2>1, <2>2, <2>3 DEF OpMade, Event
  <2>5. QED  BY <1>3, <2>1, <2>4
<1>12. ASSUME NEW o \in Op, NEW kind \in Kind, kind # "child", NEW k \in Task \cup {None},
              NEW t \in Tab \cup {None}, NEW p \in Tab \cup {None}, Submit(o, kind, k, t, p)
       PROVE  Goal
  <2>2. PICK x \in Call : /\ Becomes(o, x) /\ x.pc = "queued"
                          /\ Keeps(x, Idle, {"pc", "kind", "task", "tab", "parent"})
                          /\ x.kind = kind /\ x.task = k /\ x.tab = t /\ x.parent = p
    BY <1>12, MovesSubmit
  <2>3. x.seen.created = {} /\ x.doomed = {} /\ x.then = "done"
    BY <2>2 DEF Keeps, Idle, NoTask
  <2>4. OpMade(x)
    BY <1>12, <2>2, <2>3 DEF OpMade, InGrant, Granting
  <2>5. QED  BY <1>3, <2>2, <2>4
<1>7. ASSUME Commands PROVE Goal
  <2>1. PICK o \in Op : \/ \E kind \in Kind \ {"child"}, k \in Task \cup {None},
                              t \in Tab \cup {None}, p \in Tab \cup {None} : Submit(o, kind, k, t, p)
                        \/ Announce(o)
    <3>1. \A k \in Task : ledger[k].tabs \subseteq Tab
      BY LedgerType DEF TaskRecord
    <3>2. EndKinds \cup {"open", "adopt", "assert", "request"} \subseteq Kind \ {"child"}
      BY DEF EndKinds, Kind, Grants
    <3>3. QED  BY <1>7, <3>1, <3>2 DEF Commands
  <2>3. CASE Announce(o)
    <3>1. PICK x \in Call : /\ Becomes(o, x) /\ Keeps(x, Idle, {"pc", "kind"})
                            /\ x.pc = "publish" /\ x.kind = "announce"
      BY <2>3, MovesAnnounce
    <3>2. x.seen.created = {} /\ x.doomed = {}
      BY <3>1 DEF Keeps, Idle, NoTask
    <3>3. OpMade(x)
      BY <3>1, <3>2 DEF OpMade
    <3>4. QED  BY <1>3, <3>1, <3>3
  <2>4. QED  BY <1>12, <2>1, <2>3
<1>8. ASSUME Restart PROVE Goal
  <2>1. PICK o \in Op, x \in Call : /\ call'[o] = x /\ Keeps(x, Idle, {"pc", "kind"})
                                    /\ x.pc = "queued" /\ x.kind = "reconcile"
                                    /\ \A p \in Op : p # o => call'[p] = Idle
    BY <1>8, MovesRestart
  <2>2. x.seen.created = {} /\ x.doomed = {}
    BY <2>1 DEF Keeps, Idle, NoTask
  <2>3. OpMade(x)'
    BY <2>1, <2>2 DEF OpMade
  <2>4. OpMade(Idle)'
    BY IdleMade, IdleIsCall, OpMadeStays
  <2>5. Idle \in Call
    BY IdleIsCall
  <2>6. QED  BY <2>1, <2>3, <2>4, <2>5
<1>9. ASSUME Chrome \/ Overrun PROVE Goal
  <2>1. call' = call
    BY <1>9, ChromeStays, FaultStays
  <2>2. QED  BY <1>0, <2>1
<1>10. Goal
  BY <1>5, <1>6, <1>7, <1>8, <1>9 DEF Next
<1>11. QED  BY <1>10

LEMMA MadeLedger ==
    ASSUME TypeInv, MadeInv, Next
    PROVE  \A k \in Task : \A t \in ledger'[k].created : Made(t)'
<1> DEFINE Good(l) == \A k \in Task : \A t \in l[k].created : t \in Tab /\ Made(t)
<1>1. Good(ledger)
  BY LedgerType DEF MadeInv, TaskRecord
<1>2. ASSUME NEW l, Stored(l), Good(l)
      PROVE  Good(ledger')
  BY <1>1, <1>2 DEF Stored
<1>3. ASSUME NEW o \in Op, call[o].pc \in {"mark", "record"}
      PROVE  /\ call[o].task \in Task /\ call[o].tab \in Tab
             /\ Makes(call[o]) => Made(call[o].tab)
             /\ \A t \in call[o].seen.created : t \in Tab /\ Made(t)
  <2>1. InGrant(call[o]) /\ CallOK(call[o]) /\ OpMade(call[o]) /\ call[o] \in Call
    BY <1>3, CallFacts DEF MadeInv, InGrant, Granting
  <2>2. call[o].seen.created \subseteq Tab
    BY <2>1 DEF Call, TaskRecord
  <2>3. QED  BY <2>1, <2>2 DEF CallOK, OpMade, Makes, Grants
<1>4. ASSUME NEW o \in Op, GrantMark(o) PROVE Good(ledger')
  <2>1. PICK l : l = [ledger EXCEPT ![call[o].task].created = @ \cup {call[o].tab}]
    OBVIOUS
  <2>2. (Stored(l) \/ Stored(ledger)) /\ call[o].pc = "mark"
    BY <1>4, <2>1, MovesMark
  <2>3. Makes(call[o])
    BY <2>2 DEF MadeInv, OpMade
  <2>4. call[o].task \in Task /\ call[o].tab \in Tab /\ Made(call[o].tab)
    BY <1>3, <2>2, <2>3
  <2>5. \A k \in Task : l[k].created \subseteq ledger[k].created \cup {call[o].tab}
    BY <2>1, <2>4, LedgerType DEF TaskRecord
  <2>6. Good(l)
    BY <1>1, <2>4, <2>5
  <2>7. QED  BY <1>1, <1>2, <2>2, <2>6
<1>5. ASSUME NEW o \in Op, GrantRecord(o) PROVE Good(ledger')
  <2>1. PICK l : l = [ledger EXCEPT ![call[o].task] = Granted(call[o])]
    OBVIOUS
  <2>2. (Stored(l) \/ ledger' = ledger) /\ call[o].pc = "record"
    BY <1>5, <2>1, MovesRecord
  <2>3. /\ call[o].task \in Task /\ call[o].tab \in Tab
        /\ Makes(call[o]) => Made(call[o].tab)
        /\ \A t \in call[o].seen.created : t \in Tab /\ Made(t)
    BY <1>3, <2>2
  <2>4. \A t \in Base(call[o]).created : t \in Tab /\ Made(t)
    BY <1>1, <2>3 DEF Base
  <2>5. \A t \in Granted(call[o]).created : t \in Tab /\ Made(t)
    BY <2>3, <2>4, GrantedIs
  <2>6. \A k \in Task : l[k].created = ledger[k].created \/ l[k].created = Granted(call[o]).created
    BY <2>1, LedgerType
  <2>7. Good(l)
    BY <1>1, <2>5, <2>6
  <2>8. QED  BY <1>1, <1>2, <2>2, <2>7
<1>6. ASSUME NEW o \in Op, Revoke(o) PROVE Good(ledger')
  <2>1. PICK t : Stored(Revoked(t))
    BY <1>6, MovesRevoke
  <2>2. \A k \in Task : Revoked(t)[k].created \subseteq ledger[k].created
    BY RevokedIs
  <2>3. Good(Revoked(t))
    BY <1>1, <2>2
  <2>4. QED  BY <1>2, <2>1, <2>3
<1>7. ASSUME NEW o \in Op, Sweep(o) PROVE Good(ledger')
  <2>1. PICK s : s = call[o].pairs /\ Stored(Swept(s))
    BY <1>7, MovesSweep
  <2>2. \A k \in Task : Swept(s)[k].created \subseteq ledger[k].created
    BY SweptIs
  <2>3. Good(Swept(s))
    BY <1>1, <2>2
  <2>4. QED  BY <1>2, <2>1, <2>3
<1>8. ASSUME NEW o \in Op, Forget(o) PROVE Good(ledger')
  <2>1. PICK l : l = [ledger EXCEPT ![call[o].task] = NoTask]
    OBVIOUS
  <2>2. Stored(l)
    BY <1>8, <2>1, MovesForget
  <2>3. \A k \in Task : l[k].created \subseteq ledger[k].created
    BY <2>1, NoTaskIs, LedgerType
  <2>4. Good(l)
    BY <1>1, <2>3
  <2>5. QED  BY <1>2, <2>2, <2>4
<1>9. Good(ledger')
  BY <1>1, <1>4, <1>5, <1>6, <1>7, <1>8, WhoMovesLedger
<1>10. QED  BY <1>9, MadeStays

(* A child that is told of was opened by a page or by the task. *)
LEMMA MadeHeard ==
    ASSUME TypeInv, MadeInv, Next
    PROVE  \A e \in Heard' : e.kind = "child" => Made(e.tab)'
<1> DEFINE G == \A e \in Heard' : e.kind = "child" => Made(e.tab)'
<1>1. \A e \in Heard : e.kind = "child" => e.tab \in Tab /\ Made(e.tab)'
  <2>1. \A e \in Heard : e.kind = "child" => e.tab \in Tab /\ Made(e.tab)
    BY DEF TypeInv, EventOK, MadeInv
  <2>2. QED  BY <2>1, MadeStays
<1>2. ASSUME Heard' \subseteq Heard PROVE G
  BY <1>1, <1>2
<1>3. ASSUME UNCHANGED events PROVE G
  <2>1. Heard' = Heard
    BY <1>3 DEF Heard
  <2>2. QED  BY <1>2, <2>1
<1>4. ASSUME NEW kind \in {"child", "moved", "removed"}, NEW t \in Tab, NEW p \in Tab \cup {None},
             Raise(kind, t, p),
             kind = "child" => \E by \in {"child", "agent"} : Opens(t, by)
      PROVE  G
  <2>1. kind = "child" => Made(t)'
    BY <1>4, OpensIs DEF Made
  <2>2. PICK r : r = [kind |-> kind, tab |-> t, parent |-> p]
    OBVIOUS
  <2>3. r.kind = kind /\ r.tab = t /\ Heard' = Heard \cup {r}
    BY <1>4, <2>2, HeardRaised
  <2>4. QED  BY <1>1, <2>1, <2>3
<1>5. ASSUME NEW kind \in {"moved", "removed"}, NEW t \in Tab, Leaves(kind, t)
      PROVE  G
  <2>1. PICK r, q : /\ r = [kind |-> kind, tab |-> t, parent |-> None]
                    /\ q = [kind |-> "reconcile", tab |-> None, parent |-> None]
    OBVIOUS
  <2>2. r.kind # "child" /\ q.kind # "child" /\ \A e \in Heard' : e \in Heard \/ e = r \/ e = q
    BY <1>5, <2>1, HeardLeaves
  <2>3. QED  BY <1>1, <2>2
<1>6. ASSUME NEW o \in Op, Steps(o) PROVE G
  <2>1. \/ UNCHANGED events
        \/ AssertRecheck(o) \/ GrantUndo(o) \/ Discard(o) \/ GrantGroup(o)
    <3>1. \A t \in Tab : OpenBegin(o, t) => UNCHANGED events
      BY DEF OpenBegin
    <3>2. QED  BY <1>6, <3>1, StepsAre, WalkingStays, StoringStays, OthersStay
  <2>2. ASSUME AssertRecheck(o) PROVE G
    <3>1. call[o].kind \notin {"child", "assert"} => call[o].parent \in Tab
      BY <2>2, CallFacts, MovesAssertRecheck DEF CallOK
    <3>2. \/ UNCHANGED events
          \/ \E t \in Tab : /\ Raise("child", t, call[o].parent) /\ call[o].parent \in Tab
                            /\ Opens(t, "agent")
      BY <2>2, <3>1, MovesAssertRecheck
    <3>3. QED  BY <1>3, <1>4, <3>2
  <2>3. ASSUME GrantUndo(o) \/ Discard(o) \/ GrantGroup(o) PROVE G
    <3>1. /\ call[o].tab \in Tab
          /\ \/ UNCHANGED events
             \/ \E kind \in {"moved", "removed"} : Raise(kind, call[o].tab, None)
      BY <2>3, MovesUndo, MovesDiscard, MovesGroup
    <3>2. QED  BY <1>3, <1>4, <3>1
  <2>4. QED  BY <1>3, <2>1, <2>2, <2>3
<1>7. ASSUME NEW o \in Op, Deliver(o) PROVE G
  BY <1>2, <1>7, MovesDeliver
<1>8. ASSUME Commands \/ Overrun \/ Restart PROVE G
  BY <1>3, <1>8, CommandsStay, FaultStays
<1>9. ASSUME Chrome PROVE G
  <2>1. ASSUME NEW t \in Tab, \/ UserOpens(t) \/ UserCloses(t)
                              \/ \E p \in Tab : PageOpens(t, p)
                              \/ \E g \in Groups : UserMoves(t, g)
        PROVE  \/ UNCHANGED events
               \/ \E p \in Tab : Raise("child", t, p) /\ Opens(t, "child")
               \/ \E kind \in {"moved", "removed"} : Leaves(kind, t)
    BY <2>1 DEF UserOpens, UserCloses, PageOpens, UserMoves
  <2>2. QED  BY <1>3, <1>4, <1>5, <1>9, <2>1, ChromeStays
<1>10. G
  BY <1>6, <1>7, <1>8, <1>9 DEF Next
<1>11. QED  BY <1>10

(* An automatic end adds the tabs it took on, all of them made. *)
LEMMA MadeClosed ==
    ASSUME TypeInv, MadeInv, Next
    PROVE  \A t \in closedForTask' : Made(t)'
<1>1. closedForTask \subseteq Tab /\ \A t \in closedForTask : Made(t)
  BY DEF TypeInv, TypeOK, MadeInv
<1>2. \/ UNCHANGED closedForTask
      \/ \E o \in Op : Remove(o)
  <2>1. ASSUME NEW o \in Op, Steps(o)
        PROVE  UNCHANGED closedForTask \/ Remove(o)
    BY <2>1, StepsAre, WalkingStays, OpeningStays, StoringStays, OthersStay DEF GhostsStay
  <2>2. ASSUME NEW o \in Op, Deliver(o)
        PROVE  UNCHANGED closedForTask
    BY <2>2, DeliverStays DEF GhostsStay
  <2>3. CASE Commands \/ Chrome \/ Overrun \/ Restart
    BY <2>3, CommandsStay, ChromeStays, FaultStays DEF GhostsStay
  <2>4. QED  BY <2>1, <2>2, <2>3 DEF Next
<1>3. ASSUME NEW o \in Op, Remove(o)
      PROVE  \A t \in closedForTask' : t \in Tab /\ Made(t)
  <2>1. PICK c : c = call[o] /\ c \in Call /\ OpMade(c)
    BY CallFacts DEF MadeInv
  <2>2. c.kind = "auto" => \A t \in c.doomed : t \in Tab /\ Made(t)
    BY <2>1 DEF OpMade, Call
  <2>3. closedForTask' = closedForTask
        \/ (c.kind = "auto" /\ closedForTask' = closedForTask \cup c.doomed)
    BY <1>3, <2>1 DEF Remove
  <2>4. QED  BY <1>1, <2>2, <2>3
<1>4. \A t \in closedForTask' : t \in Tab /\ Made(t)
  BY <1>1, <1>2, <1>3
<1>5. QED  BY <1>4, MadeStays

LEMMA MadeInit ==
    ASSUME Init
    PROVE  MadeInv
<1>1. /\ \A k \in Task : ledger[k].created = {}
      /\ Heard = {} /\ closedForTask = {}
      /\ \A o \in Op : call[o] = Idle
  BY DEF Init, NoTask, Heard
<1>2. QED  BY <1>1, IdleMade DEF MadeInv

LEMMA MadeStep ==
    ASSUME TypeInv, MadeInv, Next
    PROVE  MadeInv'
<1>1. \A k \in Task : \A t \in ledger'[k].created : Made(t)'
  BY MadeLedger
<1>2. \A e \in Heard' : e.kind = "child" => Made(e.tab)'
  BY MadeHeard
<1>3. \A o \in Op : OpMade(call[o])'
  BY MadeCalls
<1>4. \A t \in closedForTask' : Made(t)'
  BY MadeClosed
<1>5. QED  BY <1>1, <1>2, <1>3, <1>4 DEF MadeInv

LEMMA MadeStutter ==
    ASSUME MadeInv, UNCHANGED vars
    PROVE  MadeInv'
BY DEF vars, chromeVars, stored, ghosts, MadeInv, Heard, Made, OpMade, InGrant, Makes

(* The automatic end of a task closes no tab that the user opened (finishTask  *)
(* with the policy "automatic"): what a record counts as created was opened    *)
(* for the task or by one of its pages, and so was every tab that an operation *)
(* on its way would count as created, whatever it was overtaken by.            *)
THEOREM UserTabsKept == Spec => []UserTabsSurvive
<1>1. Init => TypeInv /\ MadeInv
  BY TypeInit, MadeInit
<1>2. TypeInv /\ MadeInv /\ [Next]_vars => (TypeInv /\ MadeInv)'
  BY TypeStep, TypeStutter, MadeStep, MadeStutter
<1>3. MadeInv => UserTabsSurvive
  BY DEF MadeInv, Made, UserTabsSurvive
<1>4. QED  BY <1>1, <1>2, <1>3, PTL DEF Spec

--------------------------------
(* Who changes an operation, and how new ones begin *)

New(x) ==
    /\ Keeps(x, Idle, {"pc", "kind", "task", "tab", "parent", "event"})
    /\ x.pc \in {"queued", "publish"}
    /\ x.pc = "publish" => x.kind = "announce"

LEMMA WhoMovesCall ==
    ASSUME TypeInv, Next, NEW p \in Op
    PROVE  \/ call'[p] = call[p]
           \/ Steps(p)
           \/ call[p].pc = "idle" /\ New(call'[p])
           \/ Restart /\ (call'[p] = Idle \/ New(call'[p]))
<1>1. ASSUME NEW o \in Op, NEW x \in Call, Becomes(o, x)
      PROVE  call'[p] = call[p] \/ (o = p /\ call'[p] = x)
  BY <1>1 DEF Becomes
<1>2. ASSUME NEW o \in Op, Steps(o)
      PROVE  call'[p] = call[p] \/ Steps(p)
  <2>1. ASSUME NEW x \in Call, Becomes(o, x)
        PROVE  call'[p] = call[p] \/ Steps(p)
    BY <1>1, <1>2, <2>1
  <2>2. Finished(o) => \E x \in Call : Becomes(o, x)
    BY Over, IdleIsCall
  <2>3. \E x \in Call : Becomes(o, x)
    <3>1. CASE AssertBegin(o) \/ AssertCheck(o) \/ AssertRecheck(o)
                 \/ (\E t \in Tab : OpenBegin(o, t) \/ AdoptBegin(o, t))
      BY <2>2, <3>1, MovesAssertBegin, MovesAssertCheck, MovesAssertRecheck, MovesBegin DEF Walks
    <3>2. CASE GrantLook(o) \/ GrantMark(o) \/ GrantGroup(o) \/ GrantVerify(o)
                 \/ GrantRecord(o) \/ GrantUndo(o) \/ Discard(o)
      BY <2>2, <3>2, MovesLook, MovesMark, MovesGroup, MovesVerify, MovesRecord, MovesUndo,
         MovesDiscard DEF Walks
    <3>3. CASE RevokeBegin(o) \/ MovedBegin(o) \/ MovedWhere(o) \/ Revoke(o)
                 \/ ReconcileBegin(o) \/ Sweep(o) \/ PublishRead(o) \/ PublishSend(o)
      BY <2>2, <3>3, MovesRevokeBegin, MovesMovedBegin, MovesMovedWhere, MovesRevoke,
         MovesReconcileBegin, MovesSweep, MovesPublishRead, MovesPublishSend DEF Walks
    <3>4. CASE EndBegin(o) \/ Classify(o) \/ Forget(o) \/ Release(o) \/ Remove(o)
      BY <2>2, <3>4, MovesEndBegin, MovesClassify, MovesForget, MovesRelease, MovesRemove
         DEF Walks
    <3>5. QED  BY <1>2, <3>1, <3>2, <3>3, <3>4 DEF Steps
  <2>4. QED  BY <2>1, <2>3
<1>3. ASSUME NEW o \in Op, Deliver(o)
      PROVE  call'[p] = call[p] \/ (call[p].pc = "idle" /\ New(call'[p]))
  <2>1. PICK x \in Call, e \in Heard :
           /\ call[o].pc = "idle" /\ Becomes(o, x) /\ x.pc = "queued"
           /\ Keeps(x, Idle, {"pc", "kind", "tab", "parent", "event"})
    BY <1>3, MovesDeliver
  <2>2. New(x)
    BY <2>1 DEF New, Keeps
  <2>3. QED  BY <1>1, <2>1, <2>2
<1>4. ASSUME NEW o \in Op, NEW kind \in Kind, NEW k \in Task \cup {None},
             NEW t \in Tab \cup {None}, NEW q \in Tab \cup {None}, Submit(o, kind, k, t, q)
      PROVE  call'[p] = call[p] \/ (call[p].pc = "idle" /\ New(call'[p]))
  <2>1. PICK x \in Call : /\ call[o].pc = "idle" /\ Becomes(o, x) /\ x.pc = "queued"
                          /\ Keeps(x, Idle, {"pc", "kind", "task", "tab", "parent"})
    BY <1>4, MovesSubmit
  <2>2. New(x)
    BY <2>1 DEF New, Keeps
  <2>3. QED  BY <1>1, <2>1, <2>2
<1>5. ASSUME NEW o \in Op, Announce(o)
      PROVE  call'[p] = call[p] \/ (call[p].pc = "idle" /\ New(call'[p]))
  <2>1. PICK x \in Call : /\ Becomes(o, x) /\ Keeps(x, Idle, {"pc", "kind"})
                          /\ call[o].pc = "idle" /\ x.pc = "publish" /\ x.kind = "announce"
    BY <1>5, MovesAnnounce
  <2>2. New(x)
    BY <2>1 DEF New, Keeps
  <2>3. QED  BY <1>1, <2>1, <2>2
<1>6. CASE Commands
  <2>1. \A k \in Task : ledger[k].tabs \subseteq Tab
    BY LedgerType DEF TaskRecord
  <2>2. EndKinds \cup {"open", "adopt", "assert", "request"} \subseteq Kind
    BY DEF EndKinds, Kind, Grants
  <2>3. \E o \in Op : \/ \E kind \in Kind, k \in Task \cup {None},
                           t \in Tab \cup {None}, q \in Tab \cup {None} : Submit(o, kind, k, t, q)
                      \/ Announce(o)
    BY <1>6, <2>1, <2>2 DEF Commands
  <2>4. QED  BY <1>4, <1>5, <2>3
<1>7. CASE Restart
  <2>1. PICK o \in Op, x \in Call : /\ call'[o] = x /\ Keeps(x, Idle, {"pc", "kind"})
                                    /\ x.pc = "queued"
                                    /\ \A q \in Op : q # o => call'[q] = Idle
    BY <1>7, MovesRestart
  <2>2. New(x)
    BY <2>1 DEF New, Keeps
  <2>3. QED  BY <1>7, <2>1, <2>2
<1>8. CASE Chrome \/ Overrun
  BY <1>8, ChromeStays, FaultStays
<1>9. QED  BY <1>2, <1>3, <1>6, <1>7, <1>8 DEF Next

--------------------------------
(* Groups and their tasks *)

Grouping(c) == c.pc \in {"verify", "record"}

(* The group of a grant that is on its way to the record of its task is of no *)
(* other task; what it read of a record counts only where none is left.       *)
GroupOK(c) ==
    Grouping(c) =>
        /\ c.group # NoGroup /\ c.group < nextGroup
        /\ \A k \in Task : k # c.task => ledger[k].group # c.group
        /\ c.seen.tabs = {} \/ ledger[c.task].known \/ c.task \in ended

GroupsInv ==
    /\ \A k \in Task : ledger[k].group < nextGroup
    /\ \A o \in Op : GroupOK(call[o])
    /\ \A o, p \in Op : Grouping(call[o]) /\ Grouping(call[p]) /\ call[o].group = call[p].group
                           => call[o].task = call[p].task
    /\ ~ambiguous

(* An operation gets to that place only by GrantGroup. *)
LEMMA WhoGroups ==
    ASSUME TypeInv, Next, NEW p \in Op, Grouping(call'[p])
    PROVE  \/ /\ Grouping(call[p]) /\ call'[p].group = call[p].group
              /\ call'[p].task = call[p].task /\ call'[p].seen = call[p].seen
           \/ GrantGroup(p)
<1>1. ASSUME NEW x \in Call, NEW F, Walks(p, x, F), x.pc \notin {"verify", "record"}
      PROVE  FALSE
  BY <1>1 DEF Walks, Becomes, Grouping
<1>2. CASE call'[p] = Idle \/ New(call'[p])
  BY <1>2 DEF Idle, New, Grouping
<1>3. CASE Finished(p)
  BY <1>2, <1>3, Over DEF Becomes
<1>4. CASE GrantVerify(p)
  <2>1. PICK x \in Call : Walks(p, x, {"pc"}) /\ call[p].pc = "verify"
    BY <1>4, MovesVerify
  <2>2. QED  BY <2>1 DEF Walks, Becomes, Keeps, Grouping
<1>5. CASE AssertBegin(p) \/ AssertCheck(p) \/ AssertRecheck(p)
             \/ (\E t \in Tab : OpenBegin(p, t) \/ AdoptBegin(p, t))
  BY <1>1, <1>3, <1>5, MovesAssertBegin, MovesAssertCheck, MovesAssertRecheck, MovesBegin
<1>6. CASE GrantLook(p) \/ GrantMark(p) \/ GrantRecord(p) \/ GrantUndo(p) \/ Discard(p)
  BY <1>1, <1>3, <1>6, MovesLook, MovesMark, MovesRecord, MovesUndo, MovesDiscard
<1>7. CASE RevokeBegin(p) \/ MovedBegin(p) \/ MovedWhere(p) \/ Revoke(p)
             \/ ReconcileBegin(p) \/ Sweep(p) \/ PublishRead(p) \/ PublishSend(p)
  BY <1>1, <1>3, <1>7, MovesRevokeBegin, MovesMovedBegin, MovesMovedWhere, MovesRevoke,
     MovesReconcileBegin, MovesSweep, MovesPublishRead, MovesPublishSend
<1>8. CASE EndBegin(p) \/ Classify(p) \/ Forget(p) \/ Release(p) \/ Remove(p)
  BY <1>1, <1>3, <1>8, MovesEndBegin, MovesClassify, MovesForget, MovesRelease, MovesRemove
<1>9. CASE Steps(p) /\ ~GrantGroup(p)
  BY <1>4, <1>5, <1>6, <1>7, <1>8, <1>9 DEF Steps
<1>10. CASE call'[p] = call[p]
  BY <1>10
<1>11. QED  BY <1>2, <1>9, <1>10, WhoMovesCall

(* What becomes of the record of a task. *)
LEMMA HowRecordsMove ==
    ASSUME TypeInv, Next, NEW k \in Task
    PROVE  /\ \/ ledger'[k].group \in {ledger[k].group, NoGroup}
              \/ \E o \in Op : /\ GrantRecord(o) /\ call[o].task = k
                               /\ ledger'[k].group = call[o].group
           /\ ledger[k].known => ledger'[k].known \/ k \in ended'
<1> DEFINE G == /\ \/ ledger'[k].group \in {ledger[k].group, NoGroup}
                   \/ \E o \in Op : /\ GrantRecord(o) /\ call[o].task = k
                                    /\ ledger'[k].group = call[o].group
                /\ ledger[k].known => ledger'[k].known \/ k \in ended'
<1>1. CASE ledger' = ledger
  BY <1>1
<1>2. ASSUME NEW l, Stored(l), l[k].group \in {ledger[k].group, NoGroup},
             ledger[k].known => l[k].known \/ k \in ended'
      PROVE  G
  BY <1>1, <1>2 DEF Stored
<1>3. ASSUME NEW o \in Op, GrantMark(o) PROVE G
  <2>1. PICK l : l = [ledger EXCEPT ![call[o].task].created = @ \cup {call[o].tab}]
    OBVIOUS
  <2>2. Stored(l) \/ Stored(ledger)
    BY <1>3, <2>1, MovesMark
  <2>3. l[k].group = ledger[k].group /\ l[k].known = ledger[k].known
    BY <2>1, LedgerType DEF TaskRecord
  <2>4. QED  BY <1>2, <2>2, <2>3
<1>4. ASSUME NEW o \in Op, GrantRecord(o) PROVE G
  <2>1. PICK r : r = Granted(call[o]) /\ r.known /\ r.group = call[o].group
    BY <1>4, GrantedIs, MovesRecord
  <2>2. PICK l : l = [ledger EXCEPT ![call[o].task] = r]
    OBVIOUS
  <2>3. Stored(l) \/ ledger' = ledger
    BY <1>4, <2>1, <2>2, MovesRecord
  <2>4. IF k = call[o].task THEN l[k] = r ELSE l[k] = ledger[k]
    BY <2>2, LedgerType
  <2>5. CASE ledger' = l /\ k = call[o].task
    BY <1>4, <2>1, <2>4, <2>5
  <2>6. CASE ledger' = l /\ k # call[o].task
    BY <2>4, <2>6
  <2>7. QED  BY <1>1, <2>3, <2>5, <2>6 DEF Stored
<1>5. ASSUME NEW o \in Op, Revoke(o) PROVE G
  <2>1. PICK t : Stored(Revoked(t))
    BY <1>5, MovesRevoke
  <2>2. QED  BY <1>2, <2>1, RevokedIs
<1>6. ASSUME NEW o \in Op, Sweep(o) PROVE G
  <2>1. PICK s : s = call[o].pairs /\ Stored(Swept(s))
    BY <1>6, MovesSweep
  <2>2. QED  BY <1>2, <2>1, SweptIs
<1>7. ASSUME NEW o \in Op, Forget(o) PROVE G
  <2>1. PICK l : l = [ledger EXCEPT ![call[o].task] = NoTask]
    OBVIOUS
  <2>2. Stored(l) /\ ended' = ended \cup {call[o].task} /\ call[o].task \in Task
    BY <1>7, <2>1, MovesForget
  <2>3. IF k = call[o].task THEN l[k] = NoTask ELSE l[k] = ledger[k]
    BY <2>1, LedgerType
  <2>4. QED  BY <1>2, <2>2, <2>3, NoTaskIs
<1>8. G
  BY <1>1, <1>3, <1>4, <1>5, <1>6, <1>7, WhoMovesLedger
<1>9. QED  BY <1>8

(* An operation that only takes tabs or whole records away, or marks a tab, *)
(* leaves ownership unambiguous.                                            *)
LEMMA LessIsUnambiguous ==
    ASSUME TypeInv, NEW l,
           \A k \in Task : /\ l[k].tabs \subseteq ledger[k].tabs
                           /\ l[k].group \in {ledger[k].group, NoGroup}
                           /\ l[k].group # ledger[k].group => l[k].tabs = {}
    PROVE  Unambiguous(l)
<1>1. Unambiguous(ledger)
  BY DEF TypeInv, WellFormed
<1>2. \A j, k \in Task : j # k => l[j].tabs \cap l[k].tabs = {}
  <2>1. SUFFICES ASSUME NEW j \in Task, NEW k \in Task, j # k
                 PROVE  l[j].tabs \cap l[k].tabs = {}
    OBVIOUS
  <2>2. ledger[j].tabs \cap ledger[k].tabs = {}
    BY <1>1, <2>1 DEF Unambiguous
  <2>3. QED  BY <2>2
<1>3. \A k \in Task : l[k].group = NoGroup => l[k].tabs = {}
  <2>1. SUFFICES ASSUME NEW k \in Task, l[k].group = NoGroup
                 PROVE  l[k].tabs = {}
    OBVIOUS
  <2>2. ledger[k].group = NoGroup => ledger[k].tabs = {}
    BY <1>1 DEF Unambiguous
  <2>3. QED  BY <2>1, <2>2
<1>4. \A j, k \in Task : j # k /\ l[j].group # NoGroup => l[j].group # l[k].group
  <2>1. SUFFICES ASSUME NEW j \in Task, NEW k \in Task, j # k, l[j].group # NoGroup,
                        l[j].group = l[k].group
                 PROVE  FALSE
    OBVIOUS
  <2>2. l[j].group = ledger[j].group /\ l[k].group = ledger[k].group
    BY <2>1
  <2>3. \A i, m \in Task : i # m /\ ledger[i].group # NoGroup => ledger[i].group # ledger[m].group
    BY <1>1 DEF Unambiguous
  <2>4. QED  BY <2>1, <2>2, <2>3
<1>5. QED  BY <1>2, <1>3, <1>4 DEF Unambiguous

(* And so does a grant that is recorded. *)
LEMMA GrantIsUnambiguous ==
    ASSUME TypeInv, GroupsInv, NEW o \in Op, GrantRecord(o), Recordable(call[o])
    PROVE  Unambiguous([ledger EXCEPT ![call[o].task] = Granted(call[o])])
<1>1. PICK c : c = call[o] /\ c.pc = "record" /\ c.tab \in Tab /\ c.task \in Task
  BY MovesRecord
<1>2. PICK l : l = [ledger EXCEPT ![c.task] = Granted(c)]
  OBVIOUS
<1>3. PICK r : r = Granted(c) /\ r.group = c.group /\ r.tabs = Base(c).tabs \cup {c.tab}
  BY <1>1, GrantedIs
<1>4. l[c.task] = r /\ \A k \in Task : k # c.task => l[k] = ledger[k]
  BY <1>1, <1>2, <1>3, LedgerType
<1>5. /\ c.group # NoGroup
      /\ \A k \in Task : k # c.task => ledger[k].group # c.group
      /\ c.seen.tabs = {} \/ ledger[c.task].known \/ c.task \in ended
  BY <1>1 DEF GroupsInv, GroupOK, Grouping
<1>6. Unambiguous(ledger)
  BY DEF TypeInv, WellFormed
<1>7. \A k \in Task : k # c.task => c.tab \notin ledger[k].tabs
  BY <1>1 DEF Recordable, Owners
<1>8. r.tabs \subseteq ledger[c.task].tabs \cup {c.tab}
  <2>1. CASE ledger[c.task].known
    BY <1>3, <2>1 DEF Base
  <2>2. CASE ~ledger[c.task].known
    <3>1. c.seen.tabs = {}
      BY <1>1, <1>5, <2>2 DEF Recordable
    <3>2. QED  BY <1>3, <2>2, <3>1 DEF Base
  <2>3. QED  BY <2>1, <2>2
<1>9. \A k \in Task : k # c.task => l[k].tabs \cap r.tabs = {}
  <2>1. SUFFICES ASSUME NEW k \in Task, k # c.task
                 PROVE  ledger[k].tabs \cap r.tabs = {}
    BY <1>4
  <2>2. ledger[k].tabs \cap ledger[c.task].tabs = {} /\ c.tab \notin ledger[k].tabs
    BY <1>1, <1>6, <1>7, <2>1 DEF Unambiguous
  <2>3. QED  BY <1>8, <2>2
<1>10. \A j, k \in Task : j # k => l[j].tabs \cap l[k].tabs = {}
  <2>1. \A j, k \in Task : j # k /\ j # c.task /\ k # c.task => l[j].tabs \cap l[k].tabs = {}
    BY <1>4, <1>6 DEF Unambiguous
  <2>2. QED  BY <1>4, <1>9, <2>1
<1>11. \A k \in Task : l[k].group = NoGroup => l[k].tabs = {}
  BY <1>3, <1>4, <1>5, <1>6 DEF Unambiguous
<1>12. \A j, k \in Task : j # k /\ l[j].group # NoGroup => l[j].group # l[k].group
  BY <1>3, <1>4, <1>5, <1>6 DEF Unambiguous
<1>13. QED  BY <1>1, <1>2, <1>10, <1>11, <1>12 DEF Unambiguous

LEMMA NeverAmbiguous ==
    ASSUME TypeInv, GroupsInv, Next
    PROVE  ~ambiguous'
<1>1. CASE ambiguous' = ambiguous
  BY <1>1 DEF GroupsInv
<1>2. ASSUME NEW l, Stored(l), Unambiguous(l)
      PROVE  ~ambiguous'
  BY <1>2 DEF Stored, GroupsInv
<1>3. Unambiguous(ledger)
  BY DEF TypeInv, WellFormed
<1>4. ASSUME NEW o \in Op, GrantMark(o)
      PROVE  ~ambiguous'
  <2>1. PICK l : l = [ledger EXCEPT ![call[o].task].created = @ \cup {call[o].tab}]
    OBVIOUS
  <2>2. Stored(l) \/ Stored(ledger)
    BY <1>4, <2>1, MovesMark
  <2>3. \A k \in Task : l[k].group = ledger[k].group /\ l[k].tabs = ledger[k].tabs
    BY <2>1, LedgerType DEF TaskRecord
  <2>4. Unambiguous(l)
    BY <2>3, LessIsUnambiguous
  <2>5. QED  BY <1>2, <1>3, <2>2, <2>4
<1>5. ASSUME NEW o \in Op, GrantRecord(o)
      PROVE  ~ambiguous'
  BY <1>1, <1>2, <1>5, MovesRecord, GrantIsUnambiguous
<1>6. ASSUME NEW o \in Op, Revoke(o)
      PROVE  ~ambiguous'
  <2>1. PICK t : Stored(Revoked(t))
    BY <1>6, MovesRevoke
  <2>2. PICK l : l = Revoked(t)
    OBVIOUS
  <2>3. Unambiguous(l)
    BY <2>2, RevokedIs, LessIsUnambiguous
  <2>4. QED  BY <1>2, <2>1, <2>2, <2>3
<1>7. ASSUME NEW o \in Op, Sweep(o)
      PROVE  ~ambiguous'
  <2>1. PICK s : s = call[o].pairs /\ Stored(Swept(s))
    BY <1>7, MovesSweep
  <2>2. PICK l : l = Swept(s)
    OBVIOUS
  <2>3. Unambiguous(l)
    BY <2>2, SweptIs, LessIsUnambiguous
  <2>4. QED  BY <1>2, <2>1, <2>2, <2>3
<1>8. ASSUME NEW o \in Op, Forget(o)
      PROVE  ~ambiguous'
  <2>1. PICK l : l = [ledger EXCEPT ![call[o].task] = NoTask]
    OBVIOUS
  <2>2. Stored(l)
    BY <1>8, <2>1, MovesForget
  <2>3. \A k \in Task : l[k] = ledger[k] \/ l[k] = NoTask
    BY <2>1, LedgerType
  <2>4. Unambiguous(l)
    BY <2>3, NoTaskIs, LessIsUnambiguous
  <2>5. QED  BY <1>2, <2>2, <2>4
<1>9. QED  BY <1>1, <1>4, <1>5, <1>6, <1>7, <1>8, WhoMovesLedger

LEMMA EndedGrows ==
    ASSUME TypeInv, Next
    PROVE  ended \subseteq ended' \/ Restart
<1>1. ASSUME NEW o \in Op, Steps(o)
      PROVE  ended \subseteq ended'
  <2>1. CASE EndBegin(o)
    BY <2>1, MovesEndBegin
  <2>2. CASE Forget(o)
    BY <2>2, MovesForget
  <2>3. CASE ~EndBegin(o) /\ ~Forget(o)
    <3>1. TasksStay
      BY <1>1, <2>3, StepsAre, WalkingStays, OpeningStays, StoringStays, OthersStay
    <3>2. QED  BY <3>1 DEF TasksStay
  <2>4. QED  BY <2>1, <2>2, <2>3
<1>2. ASSUME NEW o \in Op, Deliver(o)
      PROVE  ended \subseteq ended'
  BY <1>2, DeliverStays DEF TasksStay
<1>3. CASE Commands \/ Chrome \/ Overrun \/ Restart
  BY <1>3, CommandsStay, ChromeStays, FaultStays DEF TasksStay
<1>4. QED  BY <1>1, <1>2, <1>3 DEF Next

LEMMA RestartGroupsNone ==
    ASSUME TypeInv, Restart, NEW p \in Op
    PROVE  ~Grouping(call'[p])
<1>1. PICK o \in Op, x \in Call : /\ call'[o] = x /\ x.pc = "queued"
                                  /\ \A q \in Op : q # o => call'[q] = Idle
  BY MovesRestart
<1>2. QED  BY <1>1 DEF Grouping, Idle

(* What GrantGroup makes of a grant. *)
LEMMA GroupMade ==
    ASSUME TypeInv, GroupsInv, NEW p \in Op, GrantGroup(p), Grouping(call'[p])
    PROVE  /\ call'[p].task = call[p].task /\ call[p].task \in Task
           /\ call'[p].seen = ledger[call[p].task]
           /\ call'[p].group # NoGroup /\ call'[p].group < nextGroup'
           /\ \/ call'[p].group = nextGroup
              \/ call'[p].group = ledger[call[p].task].group
           /\ \A q \in Op : q # p => call'[q] = call[q]
           /\ LedgerStays /\ TasksStay
<1>1. PICK c : c = call[p] /\ c.pc = "group" /\ c.task \in Task
  BY CallFacts, MovesGroup DEF CallOK, InGrant, Granting
<1>2. nextGroup \in Nat /\ ledger[c.task].group < nextGroup
  BY <1>1 DEF TypeInv, TypeOK, GroupsInv
<1>3. ASSUME NEW x \in Call, Walks(p, x, {"pc"}), x.pc = "undo"
      PROVE  FALSE
  BY <1>3 DEF Walks, Becomes, Grouping
<1>4. PICK x \in Call :
         /\ Walks(p, x, {"pc", "group", "seen"})
         /\ x.seen = ledger[c.task] /\ x.group \in Group
         /\ IF ledger[c.task].group = NoGroup
            THEN x.group = nextGroup /\ nextGroup' = nextGroup + 1
            ELSE x.group = ledger[c.task].group
                   /\ (nextGroup' = nextGroup \/ nextGroup' = nextGroup + 1)
  BY <1>1, <1>3, MovesGroup
<1>5. call'[p] = x /\ x.task = c.task /\ \A q \in Op : q # p => call'[q] = call[q]
  BY <1>1, <1>4 DEF Walks, Becomes, Keeps
<1>6. x.group # NoGroup /\ x.group \in Nat /\ x.group < nextGroup'
  <2>1. x.group \in 1..MaxGroups
    BY <1>4 DEF Group
  <2>2. x.group # NoGroup /\ x.group \in Nat
    BY <2>1, OwnershipAssumption DEF NoGroup
  <2>3. QED  BY <1>2, <1>4, <2>2
<1>7. x.group = nextGroup \/ x.group = ledger[c.task].group
  BY <1>4
<1>8. QED  BY <1>1, <1>4, <1>5, <1>6, <1>7, OpeningStays

LEMMA GroupsStep ==
    ASSUME TypeInv, GroupsInv, Next
    PROVE  GroupsInv'
<1>0. /\ nextGroup \in Nat /\ nextGroup' \in Nat /\ nextGroup <= nextGroup' /\ nextGroup > 0
      /\ \A k \in Task : ledger[k].group \in Nat
  <2>1. nextGroup \in 1..(MaxGroups + 1) /\ MaxGroups \in Nat
    BY OwnershipAssumption DEF TypeInv, TypeOK
  <2>2. nextGroup' = nextGroup \/ nextGroup' = nextGroup + 1
    BY HowTabsMove
  <2>3. \A k \in Task : ledger[k].group \in Nat
    BY <2>1, LedgerType DEF TaskRecord, Groups, Group, NoGroup
  <2>4. QED  BY <2>1, <2>2, <2>3
<1>1. ASSUME NEW k \in Task
      PROVE  ledger'[k].group < nextGroup'
  <2>1. CASE ledger'[k].group \in {ledger[k].group, NoGroup}
    BY <1>0, <2>1 DEF GroupsInv, NoGroup
  <2>2. ASSUME NEW o \in Op, GrantRecord(o), ledger'[k].group = call[o].group
        PROVE  ledger'[k].group < nextGroup'
    <3>1. PICK c \in Call : c = call[o] /\ c.pc = "record"
      BY <2>2, MovesRecord, CallFacts
    <3>2. c.group < nextGroup /\ c.group \in Nat
      BY <3>1, OwnershipAssumption DEF GroupsInv, GroupOK, Grouping, Call, Groups, Group, NoGroup
    <3>3. QED  BY <1>0, <2>2, <3>1, <3>2
  <2>3. QED  BY <2>1, <2>2, HowRecordsMove
<1>2. ASSUME NEW p \in Op, Grouping(call[p]), call'[p].task = call[p].task,
             call'[p].group = call[p].group, call'[p].seen = call[p].seen, ~Restart
      PROVE  /\ call'[p].group # NoGroup /\ call'[p].group < nextGroup'
             /\ \A k \in Task : k # call'[p].task => ledger'[k].group # call'[p].group
             /\ call'[p].seen.tabs = {} \/ ledger'[call'[p].task].known \/ call'[p].task \in ended'
  <2>1. PICK c \in Call : c = call[p] /\ c.task \in Task /\ c.group \in Nat
    BY <1>2, CallFacts, OwnershipAssumption
       DEF CallOK, InGrant, Granting, Grouping, Call, Groups, Group, NoGroup
  <2>2. /\ c.group # NoGroup /\ c.group < nextGroup
        /\ \A k \in Task : k # c.task => ledger[k].group # c.group
        /\ c.seen.tabs = {} \/ ledger[c.task].known \/ c.task \in ended
    BY <1>2, <2>1 DEF GroupsInv, GroupOK
  <2>3. ASSUME NEW k \in Task, k # c.task
        PROVE  ledger'[k].group # c.group
    <3>1. CASE ledger'[k].group \in {ledger[k].group, NoGroup}
      BY <2>2, <2>3, <3>1
    <3>2. ASSUME NEW o \in Op, GrantRecord(o), call[o].task = k, ledger'[k].group = call[o].group,
                 call[o].group = c.group
          PROVE  FALSE
      <4>1. Grouping(call[o])
        BY <3>2, MovesRecord DEF Grouping
      <4>2. call[o].task = c.task
        BY <1>2, <2>1, <3>2, <4>1 DEF GroupsInv
      <4>3. QED  BY <2>3, <3>2, <4>2
    <3>3. QED  BY <3>1, <3>2, HowRecordsMove
  <2>4. c.seen.tabs = {} \/ ledger'[c.task].known \/ c.task \in ended'
    BY <1>2, <2>1, <2>2, HowRecordsMove, EndedGrows
  <2>5. c.group < nextGroup'
    BY <1>0, <2>1, <2>2
  <2>6. QED  BY <1>2, <2>1, <2>2, <2>3, <2>4, <2>5
<1>3. ASSUME NEW p \in Op, GrantGroup(p), Grouping(call'[p])
      PROVE  /\ call'[p].group # NoGroup /\ call'[p].group < nextGroup'
             /\ \A k \in Task : k # call'[p].task => ledger'[k].group # call'[p].group
             /\ call'[p].seen.tabs = {} \/ ledger'[call'[p].task].known \/ call'[p].task \in ended'
  <2>1. /\ call'[p].task \in Task /\ call'[p].seen = ledger[call'[p].task]
        /\ call'[p].group # NoGroup /\ call'[p].group < nextGroup'
        /\ call'[p].group = nextGroup \/ call'[p].group = ledger[call'[p].task].group
        /\ ledger' = ledger
    BY <1>3, GroupMade DEF LedgerStays
  <2>2. \A k \in Task : k # call'[p].task => ledger[k].group # call'[p].group
    <3>1. SUFFICES ASSUME NEW k \in Task, k # call'[p].task, ledger[k].group = call'[p].group
                   PROVE  FALSE
      OBVIOUS
    <3>2. CASE call'[p].group = nextGroup
      BY <1>0, <3>1, <3>2 DEF GroupsInv
    <3>3. CASE call'[p].group = ledger[call'[p].task].group
      <4>1. \A i, m \in Task : i # m /\ ledger[i].group # NoGroup => ledger[i].group # ledger[m].group
        BY DEF TypeInv, WellFormed, Unambiguous
      <4>2. QED  BY <2>1, <3>1, <3>3, <4>1
    <3>4. QED  BY <2>1, <3>2, <3>3
  <2>3. ledger[call'[p].task].known \/ call'[p].seen.tabs = {}
    BY <2>1, LedgerFacts, NoTaskIs
  <2>4. QED  BY <2>1, <2>2, <2>3
<1>4. \A p \in Op : Grouping(call'[p]) =>
        /\ call'[p].group # NoGroup /\ call'[p].group < nextGroup'
        /\ \A k \in Task : k # call'[p].task => ledger'[k].group # call'[p].group
        /\ call'[p].seen.tabs = {} \/ ledger'[call'[p].task].known \/ call'[p].task \in ended'
  BY <1>2, <1>3, WhoGroups, RestartGroupsNone
<1>5. ASSUME NEW o \in Op, NEW p \in Op, GrantGroup(o), Grouping(call'[o]), Grouping(call'[p]),
             call'[o].group = call'[p].group, o # p
      PROVE  call'[o].task = call'[p].task
  <2>1. /\ call'[o].task \in Task /\ call'[p] = call[p]
        /\ call'[o].group # NoGroup
        /\ call'[o].group = nextGroup \/ call'[o].group = ledger[call'[o].task].group
    BY <1>5, GroupMade
  <2>2. PICK c \in Call : c = call[p] /\ Grouping(c) /\ c.group \in Nat
    BY <1>5, <2>1, CallFacts, OwnershipAssumption DEF Call, Groups, Group, NoGroup
  <2>3. c.group < nextGroup /\ \A k \in Task : k # c.task => ledger[k].group # c.group
    BY <2>2 DEF GroupsInv, GroupOK
  <2>4. c.group = ledger[call'[o].task].group
    BY <1>0, <1>5, <2>1, <2>2, <2>3
  <2>5. QED  BY <2>1, <2>2, <2>3, <2>4
<1>6. \A o, p \in Op : Grouping(call'[o]) /\ Grouping(call'[p]) /\ call'[o].group = call'[p].group
                          => call'[o].task = call'[p].task
  <2>1. SUFFICES ASSUME NEW o \in Op, NEW p \in Op, Grouping(call'[o]), Grouping(call'[p]),
                        call'[o].group = call'[p].group, o # p
                 PROVE  call'[o].task = call'[p].task
    OBVIOUS
  <2>2. CASE GrantGroup(o) \/ GrantGroup(p)
    BY <1>5, <2>1, <2>2
  <2>3. CASE ~GrantGroup(o) /\ ~GrantGroup(p)
    <3>1. /\ Grouping(call[o]) /\ call'[o].group = call[o].group /\ call'[o].task = call[o].task
          /\ Grouping(call[p]) /\ call'[p].group = call[p].group /\ call'[p].task = call[p].task
      BY <2>1, <2>3, WhoGroups
    <3>2. QED  BY <2>1, <3>1 DEF GroupsInv
  <2>4. QED  BY <2>2, <2>3
<1>7. ~ambiguous'
  BY NeverAmbiguous
<1>8. QED  BY <1>1, <1>4, <1>6, <1>7 DEF GroupsInv, GroupOK, Grouping

LEMMA GroupsInit ==
    ASSUME Init
    PROVE  GroupsInv
<1>1. /\ \A k \in Task : ledger[k].group = 0
      /\ nextGroup = 1 /\ ~ambiguous
      /\ \A o \in Op : call[o] = Idle
  BY DEF Init, NoTask, NoGroup
<1>2. ~Grouping(Idle)
  BY DEF Grouping, Idle
<1>3. QED  BY <1>1, <1>2 DEF GroupsInv, GroupOK

LEMMA GroupsStutter ==
    ASSUME GroupsInv, UNCHANGED vars
    PROVE  GroupsInv'
BY DEF vars, chromeVars, stored, ghosts, GroupsInv, GroupOK, Grouping

(* No operation, not even one that ran on beside its successors, tries to   *)
(* store a ledger in which two tasks have one tab or one group, or a task   *)
(* has tabs and no group (parseState): a group that a grant has put a tab   *)
(* into belongs to no other task until the grant is recorded or undone, and *)
(* the record is read again in the transition that writes it.               *)
THEOREM OwnershipUnambiguous == Spec => []NothingAmbiguous
<1>1. Init => TypeInv /\ GroupsInv
  BY TypeInit, GroupsInit
<1>2. TypeInv /\ GroupsInv /\ [Next]_vars => (TypeInv /\ GroupsInv)'
  BY TypeStep, TypeStutter, GroupsStep, GroupsStutter
<1>3. GroupsInv => NothingAmbiguous
  BY DEF GroupsInv, NothingAmbiguous
<1>4. QED  BY <1>1, <1>2, <1>3, PTL DEF Spec

--------------------------------
(* What the host believes *)

(* Operations that will publish the ledger as it is by then. *)
Informs(c) ==
    \/ c.pc \in {"publish", "release", "remove"}
    \/ c.kind = "reconcile" /\ c.pc \in {"queued", "sweep"}

(* A tab that its task does not own any more. *)
Late(p) == p[2] \notin ledger[p[1]].tabs

HostInv ==
    /\ \A p \in host : Late(p) =>
          \E o \in Op : Informs(call[o]) \/ (call[o].pc = "send" /\ p \notin call[o].pairs)
    /\ \A o \in Op : call[o].pc = "send" =>
          /\ publisher = o
          /\ \A p \in call[o].pairs : Late(p) => \E q \in Op : Informs(call[q])

LEMMA InformsStay ==
    ASSUME TypeInv, Next, NEW p \in Op, Informs(call[p])
    PROVE  Informs(call'[p]) \/ PublishRead(p) \/ Restart
<1>1. PICK c \in Call : c = call[p] /\ Informs(c) /\ CallOK(c)
  BY CallFacts
<1>2. c.pc \in {"publish", "release", "remove", "queued", "sweep"}
  BY <1>1 DEF Informs
<1>3. c.pc \in {"queued", "sweep"} => c.kind = "reconcile"
  BY <1>1 DEF Informs
<1>4. "reconcile" \notin EndKinds
  BY DEF EndKinds
<1>5. CASE Sweep(p) \/ Release(p) \/ Remove(p) \/ ReconcileBegin(p)
  <2>1. \E x \in Call : (\E F : Walks(p, x, F) /\ (c.pc = "queued" => "kind" \notin F))
                          /\ (x.pc \in {"publish", "remove"}
                                \/ (c.pc = "queued" /\ x.pc = "sweep"))
    BY <1>1, <1>5, MovesSweep, MovesRelease, MovesRemove, MovesReconcileBegin
  <2>2. QED  BY <1>1, <1>3, <2>1 DEF Walks, Becomes, Keeps, Informs
<1>6. CASE AssertBegin(p) \/ AssertCheck(p) \/ AssertRecheck(p)
             \/ (\E t \in Tab : OpenBegin(p, t) \/ AdoptBegin(p, t))
  <2>1. FALSE
    BY <1>1, <1>2, <1>3, <1>6, MovesAssertBegin, MovesAssertCheck, MovesAssertRecheck, MovesBegin
  <2>2. QED  BY <2>1
<1>7. CASE GrantLook(p) \/ GrantMark(p) \/ GrantGroup(p) \/ GrantVerify(p)
             \/ GrantRecord(p) \/ GrantUndo(p) \/ Discard(p)
  <2>1. FALSE
    BY <1>1, <1>2, <1>7, MovesLook, MovesMark, MovesGroup, MovesVerify, MovesRecord, MovesUndo,
       MovesDiscard
  <2>2. QED  BY <2>1
<1>8. CASE RevokeBegin(p) \/ MovedBegin(p) \/ MovedWhere(p) \/ Revoke(p) \/ PublishSend(p)
  <2>1. FALSE
    BY <1>1, <1>2, <1>3, <1>8, MovesRevokeBegin, MovesMovedBegin, MovesMovedWhere, MovesRevoke,
       MovesPublishSend
  <2>2. QED  BY <2>1
<1>9. CASE EndBegin(p) \/ Classify(p) \/ Forget(p)
  <2>1. FALSE
    BY <1>1, <1>2, <1>3, <1>4, <1>9, MovesEndBegin, MovesClassify, MovesForget
  <2>2. QED  BY <2>1
<1>10. CASE Steps(p)
  BY <1>5, <1>6, <1>7, <1>8, <1>9, <1>10 DEF Steps
<1>11. CASE call'[p] = call[p]
  BY <1>11
<1>12. c.pc # "idle"
  BY <1>2
<1>13. QED  BY <1>1, <1>10, <1>11, <1>12, WhoMovesCall

LEMMA RestartInforms ==
    ASSUME TypeInv, Restart
    PROVE  \E q \in Op : Informs(call'[q])
BY MovesRestart DEF Informs

(* An operation sends what it read, or has just read it. *)
LEMMA WhoSends ==
    ASSUME TypeInv, Next, NEW p \in Op, call'[p].pc = "send"
    PROVE  call'[p] = call[p] \/ PublishRead(p)
<1>1. ASSUME NEW x \in Call, NEW F, Walks(p, x, F), x.pc # "send"
      PROVE  FALSE
  BY <1>1 DEF Walks, Becomes
<1>2. ~(call'[p] = Idle \/ New(call'[p]))
  BY DEF Idle, New
<1>3. ~Finished(p)
  BY <1>2, Over DEF Becomes
<1>4. ~(AssertBegin(p) \/ AssertCheck(p) \/ AssertRecheck(p)
             \/ (\E t \in Tab : OpenBegin(p, t) \/ AdoptBegin(p, t)))
  BY <1>1, <1>3, MovesAssertBegin, MovesAssertCheck, MovesAssertRecheck, MovesBegin
<1>5. ~(GrantLook(p) \/ GrantMark(p) \/ GrantGroup(p) \/ GrantVerify(p)
             \/ GrantRecord(p) \/ GrantUndo(p) \/ Discard(p))
  BY <1>1, <1>3, MovesLook, MovesMark, MovesGroup, MovesVerify, MovesRecord, MovesUndo,
     MovesDiscard
<1>6. ~(RevokeBegin(p) \/ MovedBegin(p) \/ MovedWhere(p) \/ Revoke(p)
             \/ ReconcileBegin(p) \/ Sweep(p) \/ PublishSend(p))
  BY <1>1, <1>3, MovesRevokeBegin, MovesMovedBegin, MovesMovedWhere, MovesRevoke,
     MovesReconcileBegin, MovesSweep, MovesPublishSend
<1>7. ~(EndBegin(p) \/ Classify(p) \/ Forget(p) \/ Release(p) \/ Remove(p))
  BY <1>1, <1>3, MovesEndBegin, MovesClassify, MovesForget, MovesRelease, MovesRemove
<1>8. QED  BY <1>2, <1>4, <1>5, <1>6, <1>7, WhoMovesCall DEF Steps

LEMMA WhoMovesHost ==
    ASSUME TypeInv, Next
    PROVE  \/ HostStays
           \/ \E o \in Op : PublishRead(o) \/ PublishSend(o)
           \/ Restart /\ host' = host
<1>1. ASSUME NEW o \in Op, Steps(o)
      PROVE  HostStays \/ PublishRead(o) \/ PublishSend(o)
  BY <1>1, StepsAre, WalkingStays, OpeningStays, StoringStays, OthersStay
<1>2. ASSUME NEW o \in Op, Deliver(o)
      PROVE  HostStays
  BY <1>2, DeliverStays
<1>3. CASE Commands \/ Chrome \/ Overrun \/ Restart
  BY <1>3, CommandsStay, ChromeStays, FaultStays
<1>4. QED  BY <1>1, <1>2, <1>3 DEF Next

(* Whatever takes a tab from a task informs the host. *)
LEMMA LateIsTold ==
    ASSUME TypeInv, Next, NEW k \in Task, NEW t \in ledger[k].tabs, t \notin ledger'[k].tabs
    PROVE  \E q \in Op : Informs(call'[q])
<1>1. ASSUME NEW l, Stored(l), t \in l[k].tabs
      PROVE  FALSE
  BY <1>1 DEF Stored
<1>2. ASSUME NEW o \in Op, NEW x \in Call, NEW F, Walks(o, x, F), x.pc \in {"publish", "release"}
      PROVE  \E q \in Op : Informs(call'[q])
  BY <1>2 DEF Walks, Becomes, Informs
<1>3. ASSUME NEW o \in Op, GrantMark(o)
      PROVE  FALSE
  <2>1. PICK l : l = [ledger EXCEPT ![call[o].task].created = @ \cup {call[o].tab}]
    OBVIOUS
  <2>2. Stored(l) \/ Stored(ledger)
    BY <1>3, <2>1, MovesMark
  <2>3. l[k].tabs = ledger[k].tabs
    BY <2>1, LedgerType DEF TaskRecord
  <2>4. QED  BY <1>1, <2>2, <2>3
<1>4. ASSUME NEW o \in Op, GrantRecord(o)
      PROVE  FALSE
  <2>1. PICK r : r = Granted(call[o]) /\ r.tabs = Base(call[o]).tabs \cup {call[o].tab}
    BY <1>4, GrantedIs, MovesRecord
  <2>2. PICK l : l = [ledger EXCEPT ![call[o].task] = r]
    OBVIOUS
  <2>3. Stored(l) \/ ledger' = ledger
    BY <1>4, <2>1, <2>2, MovesRecord
  <2>4. k # call[o].task => l[k] = ledger[k]
    BY <2>2, LedgerType
  <2>5. k = call[o].task => t \in l[k].tabs
    <3>1. ledger[k].known
      BY LedgerFacts, NoTaskIs
    <3>2. k = call[o].task => Base(call[o]) = ledger[k]
      BY <3>1 DEF Base
    <3>3. k = call[o].task => l[k] = r
      BY <2>2, LedgerType
    <3>4. QED  BY <2>1, <3>2, <3>3
  <2>6. QED  BY <1>1, <2>3, <2>4, <2>5
<1>5. ASSUME NEW o \in Op, Revoke(o)
      PROVE  \E q \in Op : Informs(call'[q])
  <2>1. PICK u : /\ Stored(Revoked(u))
                 /\ Owned(u) => \E x \in Call : Walks(o, x, {"pc"}) /\ x.pc = "publish"
    BY <1>5, MovesRevoke
  <2>2. Revoked(u)[k].tabs = ledger[k].tabs \ {u}
    BY RevokedIs
  <2>3. t = u
    BY <1>1, <2>1, <2>2
  <2>4. Owned(u)
    BY <2>3 DEF Owned, Owners
  <2>5. QED  BY <1>2, <2>1, <2>4
<1>6. ASSUME NEW o \in Op, Sweep(o) \/ Forget(o)
      PROVE  \E q \in Op : Informs(call'[q])
  <2>1. \E x \in Call : (\E F : Walks(o, x, F)) /\ x.pc \in {"publish", "release"}
    BY <1>6, MovesSweep, MovesForget
  <2>2. QED  BY <1>2, <2>1
<1>7. QED  BY <1>3, <1>4, <1>5, <1>6, WhoMovesLedger

LEMMA SendStays ==
    ASSUME TypeInv, Next, NEW p \in Op, call[p].pc = "send"
    PROVE  call'[p] = call[p] \/ PublishSend(p) \/ Restart
<1>1. ~(AssertBegin(p) \/ AssertCheck(p) \/ AssertRecheck(p)
             \/ (\E t \in Tab : OpenBegin(p, t) \/ AdoptBegin(p, t)))
  BY MovesAssertBegin, MovesAssertCheck, MovesAssertRecheck, MovesBegin
<1>2. ~(GrantLook(p) \/ GrantMark(p) \/ GrantGroup(p) \/ GrantVerify(p)
             \/ GrantRecord(p) \/ GrantUndo(p) \/ Discard(p))
  BY MovesLook, MovesMark, MovesGroup, MovesVerify, MovesRecord, MovesUndo, MovesDiscard
<1>3. ~(RevokeBegin(p) \/ MovedBegin(p) \/ MovedWhere(p) \/ Revoke(p)
             \/ ReconcileBegin(p) \/ Sweep(p) \/ PublishRead(p))
  BY MovesRevokeBegin, MovesMovedBegin, MovesMovedWhere, MovesRevoke,
     MovesReconcileBegin, MovesSweep, MovesPublishRead
<1>4. ~(EndBegin(p) \/ Classify(p) \/ Forget(p) \/ Release(p) \/ Remove(p))
  BY MovesEndBegin, MovesClassify, MovesForget, MovesRelease, MovesRemove
<1>5. QED  BY <1>1, <1>2, <1>3, <1>4, WhoMovesCall DEF Steps

LEMMA HostStep ==
    ASSUME TypeInv, HostInv, Next
    PROVE  HostInv'
<1> DEFINE LateNow(p) == p[2] \notin ledger'[p[1]].tabs
           Told == \E q \in Op : Informs(call'[q])
           Believed == \A p \in host' : LateNow(p) =>
                          \E o \in Op : \/ Informs(call'[o])
                                        \/ call'[o].pc = "send" /\ p \notin call'[o].pairs
           Sent == \A o \in Op : call'[o].pc = "send" =>
                      publisher' = o /\ \A p \in call'[o].pairs : LateNow(p) => Told
<1>0. None \notin Op
  BY OwnershipAssumption
<1>1. ASSUME Restart PROVE Believed /\ Sent
  <2>1. Told
    BY <1>1, RestartInforms
  <2>2. \A o \in Op : call'[o].pc # "send"
    BY <1>1, MovesRestart DEF Idle
  <2>3. QED  BY <2>1, <2>2
<1>2. ASSUME NEW o \in Op, PublishRead(o) PROVE Believed /\ Sent
  <2>1. publisher = None /\ publisher' = o /\ ledger' = ledger /\ host' = host
    BY <1>2, MovesPublishRead, OthersStay DEF LedgerStays
  <2>2. \A q \in Op : call[q].pc # "send"
    BY <1>0, <2>1 DEF HostInv
  <2>3. PICK x \in Call : call'[o] = x /\ x.pc = "send" /\ x.pairs = Pairs
    BY <1>2, MovesPublishRead DEF Walks, Becomes
  <2>4. \A p \in Pairs : ~LateNow(p)
    BY <2>1 DEF Pairs
  <2>5. ASSUME NEW p \in host, LateNow(p)
        PROVE  p \notin call'[o].pairs
    BY <2>3, <2>4, <2>5
  <2>6. Believed
    BY <2>1, <2>3, <2>5
  <2>7. ASSUME NEW q \in Op, call'[q].pc = "send"
        PROVE  q = o
    <3>1. PublishRead(q)
      BY <2>2, <2>7, WhoSends
    <3>2. publisher' = q
      BY <3>1, MovesPublishRead
    <3>3. QED  BY <2>1, <3>2
  <2>8. Sent
    BY <2>1, <2>3, <2>4, <2>7
  <2>9. QED  BY <2>6, <2>8
<1>3. ASSUME NEW o \in Op, PublishSend(o) PROVE Believed /\ Sent
  <2>1. /\ call[o].pc = "send" /\ ledger' = ledger
        /\ \A p \in host' : p \in call[o].pairs
    BY <1>3, MovesPublishSend, OthersStay DEF LedgerStays
  <2>2. publisher = o /\ \A p \in call[o].pairs : Late(p) => \E q \in Op : Informs(call[q])
    BY <2>1 DEF HostInv
  <2>3. \A q \in Op : ~PublishRead(q)
    BY <1>0, <2>2, MovesPublishRead
  <2>4. call'[o].pc # "send"
    BY <1>3, MovesPublishSend, Over DEF Walks, Becomes, Idle
  <2>5. \A q \in Op : call'[q].pc # "send"
    <3>1. SUFFICES ASSUME NEW q \in Op, call'[q].pc = "send"
                   PROVE  FALSE
      OBVIOUS
    <3>2. call[q].pc = "send"
      BY <2>3, <3>1, WhoSends
    <3>3. publisher = q
      BY <3>2 DEF HostInv
    <3>4. QED  BY <2>2, <2>4, <3>1, <3>3
  <2>6. ASSUME NEW q \in Op, Informs(call[q])
        PROVE  Told
    BY <2>3, <2>6, InformsStay, RestartInforms
  <2>7. Believed
    BY <2>1, <2>2, <2>6 DEF Late
  <2>8. QED  BY <2>5, <2>7
<1>4. ASSUME HostStays, ~Restart, \A o \in Op : ~PublishRead(o) /\ ~PublishSend(o)
      PROVE  Believed /\ Sent
  <2>1. publisher' = publisher /\ host' = host
    BY <1>4 DEF HostStays
  <2>2. ASSUME NEW p \in Task \X Tab, ~Late(p), LateNow(p)
        PROVE  Told
    <3>1. p[1] \in Task /\ p[2] \in ledger[p[1]].tabs /\ p[2] \notin ledger'[p[1]].tabs
      BY <2>2 DEF Late
    <3>2. QED  BY <3>1, LateIsTold
  <2>3. ASSUME NEW q \in Op, Informs(call[q])
        PROVE  Told
    BY <1>4, <2>3, InformsStay
  <2>4. ASSUME NEW p \in host, LateNow(p)
        PROVE  \E o \in Op : \/ Informs(call'[o])
                             \/ call'[o].pc = "send" /\ p \notin call'[o].pairs
    <3>1. p \in Task \X Tab
      BY DEF TypeInv, TypeOK
    <3>2. CASE ~Late(p)
      BY <2>2, <2>4, <3>1, <3>2
    <3>3. CASE Late(p)
      <4>1. PICK o \in Op : Informs(call[o]) \/ (call[o].pc = "send" /\ p \notin call[o].pairs)
        BY <3>3 DEF HostInv
      <4>2. call[o].pc = "send" => call'[o] = call[o]
        BY <1>4, SendStays
      <4>3. QED  BY <2>3, <4>1, <4>2
    <3>4. QED  BY <3>2, <3>3
  <2>5. ASSUME NEW o \in Op, call'[o].pc = "send"
        PROVE  publisher' = o /\ \A p \in call'[o].pairs : LateNow(p) => Told
    <3>1. call'[o] = call[o] /\ call[o].pc = "send"
      BY <1>4, <2>5, WhoSends
    <3>2. /\ publisher = o /\ call[o].pairs \subseteq Task \X Tab
          /\ \A p \in call[o].pairs : Late(p) => \E q \in Op : Informs(call[q])
      BY <3>1 DEF HostInv, TypeInv
    <3>3. ASSUME NEW p \in call[o].pairs, LateNow(p)
          PROVE  Told
      BY <2>2, <2>3, <3>2, <3>3
    <3>4. QED  BY <2>1, <3>1, <3>2, <3>3
  <2>6. QED  BY <2>1, <2>4, <2>5
<1>5. Believed /\ Sent
  BY <1>1, <1>2, <1>3, <1>4, WhoMovesHost
<1>6. QED  BY <1>5 DEF HostInv, Late, Informs

LEMMA HostInit ==
    ASSUME Init
    PROVE  HostInv
<1>1. host = {} /\ \A o \in Op : call[o] = Idle
  BY DEF Init
<1>2. QED  BY <1>1 DEF HostInv, Idle

LEMMA HostStutter ==
    ASSUME HostInv, UNCHANGED vars
    PROVE  HostInv'
BY DEF vars, chromeVars, stored, ghosts, faults, HostInv, Late, Informs

(* When everything is handled, the host believes in no tab that its task does *)
(* not own (emitInventory): whatever takes a tab from a task publishes        *)
(* afterwards, and a publication under way was read before or after that, but *)
(* in the second case it leaves the tab out.                                  *)
THEOREM HostIsTold == Spec => []HostKnowsNoMore
<1>1. Init => TypeInv /\ HostInv
  BY TypeInit, HostInit
<1>2. TypeInv /\ HostInv /\ [Next]_vars => (TypeInv /\ HostInv)'
  BY TypeStep, TypeStutter, HostStep, HostStutter
<1>3. HostInv => HostKnowsNoMore
  BY DEF HostInv, HostKnowsNoMore, Quiet, Informs, Late
<1>4. QED  BY <1>1, <1>2, <1>3, PTL DEF Spec

--------------------------------
(* The transitions chain *)

(* Begun on the chain, and not over. *)
Works(c) == c.pc \notin {"idle", "queued"} /\ c.kind # "announce"

ChainInv ==
    /\ overruns \in Nat
    /\ \A i, j \in 1..Len(chain) : i # j => chain[i] # chain[j]
    /\ \A i \in 1..Len(chain) : call[chain[i]].pc # "idle" /\ call[chain[i]].kind # "announce"
    /\ \A i \in 1..Len(chain) : i # 1 => call[chain[i]].pc = "queued"
    /\ Orderly => \A o \in Op : Works(call[o]) => chain # <<>> /\ chain[1] = o

(* Operation p goes on to its next await. *)
Goes(p, x) ==
    Becomes(p, x) /\ x.kind = call[p].kind /\ x.pc \notin {"idle", "queued"} /\ chain' = chain

LEMMA WalksOn ==
    ASSUME NEW p, NEW x, NEW F, "kind" \notin F, Walks(p, x, F), x.pc \notin {"idle", "queued"}
    PROVE  Goes(p, x)
BY DEF Walks, Keeps, Goes

(* A step of an operation: only the head of the chain begins. *)
LEMMA StepIs ==
    ASSUME TypeInv, NEW p \in Op, Steps(p)
    PROVE  /\ call[p].pc # "idle"
           /\ call[p].pc = "queued" => chain # <<>> /\ Head(chain) = p
           /\ Finished(p) \/ \E x \in Call : Goes(p, x)
<1> DEFINE G == /\ call[p].pc # "idle"
                /\ call[p].pc = "queued" => chain # <<>> /\ Head(chain) = p
                /\ Finished(p) \/ \E x \in Call : Goes(p, x)
<1>1. \A x \in Call :
         /\ \/ Walks(p, x, {"pc"}) \/ Walks(p, x, {"pc", "then"})
            \/ Walks(p, x, {"pc", "task", "seen"}) \/ Walks(p, x, {"pc", "tab"})
            \/ Walks(p, x, {"pc", "was"}) \/ Walks(p, x, {"pc", "was", "then"})
            \/ Walks(p, x, {"pc", "group", "seen"}) \/ Walks(p, x, {"pc", "group"})
            \/ Walks(p, x, {"pc", "pairs"}) \/ Walks(p, x, {"pc", "seen", "keep"})
            \/ Walks(p, x, {"pc", "keep", "doomed"}) \/ Walks(p, x, {"pc", "doomed"})
            \/ Walks(p, x, {"pc", "then", "doomed", "keep"})
            \/ Walks(p, x, {"pc", "pairs", "keep"})
         /\ x.pc \notin {"idle", "queued"}
         => Goes(p, x)
  BY WalksOn
<1>2. ASSUME \E kind : Starts(p, kind), Finished(p) \/ \E x \in Call : Goes(p, x)
      PROVE  G
  BY <1>2 DEF Starts
<1>3. CASE AssertBegin(p)
  <2>1. \E kind : Starts(p, kind)
    BY <1>3 DEF AssertBegin
  <2>2. QED  BY <1>1, <1>2, <1>3, <2>1, MovesAssertBegin
<1>4. ASSUME NEW t \in Tab, OpenBegin(p, t) \/ AdoptBegin(p, t)
      PROVE  G
  <2>1. \E kind : Starts(p, kind)
    BY <1>4 DEF OpenBegin, AdoptBegin
  <2>2. QED  BY <1>1, <1>2, <1>4, <2>1, MovesBegin
<1>5. CASE AssertCheck(p)
  BY <1>1, <1>5, MovesAssertCheck
<1>6. CASE AssertRecheck(p)
  BY <1>1, <1>6, MovesAssertRecheck
<1>7. CASE RevokeBegin(p)
  <2>1. \E kind : Starts(p, kind)
    BY <1>7 DEF RevokeBegin
  <2>2. QED  BY <1>1, <1>2, <1>7, <2>1, MovesRevokeBegin
<1>8. CASE MovedBegin(p)
  <2>1. \E kind : Starts(p, kind)
    BY <1>8 DEF MovedBegin
  <2>2. QED  BY <1>1, <1>2, <1>8, <2>1, MovesMovedBegin
<1>9. CASE ReconcileBegin(p)
  <2>1. \E kind : Starts(p, kind)
    BY <1>9 DEF ReconcileBegin
  <2>2. QED  BY <1>1, <1>2, <1>9, <2>1, MovesReconcileBegin
<1>10. CASE EndBegin(p)
  <2>1. \E kind : Starts(p, kind)
    BY <1>10 DEF EndBegin
  <2>2. QED  BY <1>1, <1>2, <1>10, <2>1, MovesEndBegin
<1>11. CASE GrantLook(p)
  BY <1>1, <1>11, MovesLook
<1>12. CASE GrantMark(p)
  BY <1>1, <1>12, MovesMark
<1>13. CASE GrantGroup(p)
  BY <1>1, <1>13, MovesGroup
<1>14. CASE GrantVerify(p)
  BY <1>1, <1>14, MovesVerify
<1>15. CASE GrantRecord(p)
  BY <1>1, <1>15, MovesRecord
<1>16. CASE GrantUndo(p)
  BY <1>1, <1>16, MovesUndo
<1>17. CASE Discard(p)
  BY <1>17, MovesDiscard
<1>18. CASE MovedWhere(p)
  BY <1>1, <1>18, MovesMovedWhere
<1>19. CASE Revoke(p)
  BY <1>1, <1>19, MovesRevoke
<1>20. CASE Sweep(p)
  BY <1>1, <1>20, MovesSweep
<1>21. CASE Classify(p)
  BY <1>1, <1>21, MovesClassify
<1>22. CASE Forget(p)
  BY <1>1, <1>22, MovesForget
<1>23. CASE Release(p)
  BY <1>1, <1>23, MovesRelease
<1>24. CASE Remove(p)
  BY <1>1, <1>24, MovesRemove
<1>25. CASE PublishRead(p)
  BY <1>1, <1>25, MovesPublishRead
<1>26. CASE PublishSend(p)
  BY <1>1, <1>26, MovesPublishSend
<1>27. QED
  BY <1>3, <1>4, <1>5, <1>6, <1>7, <1>8, <1>9, <1>10, <1>11, <1>12, <1>13, <1>14, <1>15,
     <1>16, <1>17, <1>18, <1>19, <1>20, <1>21, <1>22, <1>23, <1>24, <1>25, <1>26 DEF Steps

(* A new operation: it takes its place in the chain, or is beside it. *)
LEMMA Begun ==
    ASSUME TypeInv, Commands \/ \E o \in Op : Deliver(o)
    PROVE  \E o \in Op, x \in Call :
              /\ call[o].pc = "idle" /\ Becomes(o, x) /\ x.doomed = {} /\ x.then = "done"
              /\ x.kind = "removed" => \E e \in Heard : e.kind = "removed" /\ e.tab = x.tab
              /\ \/ x.pc = "queued" /\ x.kind # "announce" /\ chain' = Append(chain, o)
                 \/ x.pc = "publish" /\ x.kind = "announce" /\ chain' = chain
<1> DEFINE G == \E o \in Op, x \in Call :
                   /\ call[o].pc = "idle" /\ Becomes(o, x) /\ x.doomed = {} /\ x.then = "done"
                   /\ x.kind = "removed" => \E e \in Heard : e.kind = "removed" /\ e.tab = x.tab
                   /\ \/ x.pc = "queued" /\ x.kind # "announce" /\ chain' = Append(chain, o)
                      \/ x.pc = "publish" /\ x.kind = "announce" /\ chain' = chain
<1>1. Idle.doomed = {} /\ Idle.then = "done"
  BY DEF Idle
<1>2. ASSUME NEW o \in Op, Deliver(o)
      PROVE  G
  <2>1. PICK x \in Call, e \in Heard :
           /\ Becomes(o, x) /\ x.pc = "queued" /\ x.kind = e.kind /\ x.tab = e.tab /\ e \in Event
           /\ Keeps(x, Idle, {"pc", "kind", "tab", "parent", "event"})
           /\ call[o].pc = "idle" /\ chain' = Append(chain, o)
    BY <1>2, MovesDeliver
  <2>2. x.kind # "announce" /\ x.doomed = {} /\ x.then = "done"
    BY <1>1, <2>1 DEF Event, Keeps
  <2>3. QED  BY <2>1, <2>2
<1>3. ASSUME NEW o \in Op, NEW kind \in Kind, NEW k \in Task \cup {None},
             NEW t \in Tab \cup {None}, NEW q \in Tab \cup {None}, Submit(o, kind, k, t, q)
      PROVE  kind \notin {"announce", "removed"} => G
  <2>1. PICK x \in Call :
           /\ Becomes(o, x) /\ x.pc = "queued" /\ x.kind = kind
           /\ Keeps(x, Idle, {"pc", "kind", "task", "tab", "parent"})
           /\ call[o].pc = "idle" /\ chain' = Append(chain, o)
    <3>1. /\ \E x \in Call :
               /\ Becomes(o, x) /\ x.pc = "queued"
               /\ Keeps(x, Idle, {"pc", "kind", "task", "tab", "parent"})
               /\ x.kind = kind /\ x.task = k /\ x.tab = t /\ x.parent = q
          /\ call[o].pc = "idle" /\ chain' = Append(chain, o) /\ chain' \in Seq(Op)
      BY <1>3, MovesSubmit
    <3>2. QED  BY <3>1
  <2>2. x.doomed = {} /\ x.then = "done"
    BY <1>1, <2>1 DEF Keeps
  <2>3. QED  BY <2>1, <2>2
<1>4. ASSUME NEW o \in Op, Announce(o)
      PROVE  G
  <2>1. PICK x \in Call : /\ Becomes(o, x) /\ Keeps(x, Idle, {"pc", "kind"})
                          /\ x.pc = "publish" /\ x.kind = "announce"
                          /\ call[o].pc = "idle" /\ chain' = chain
    BY <1>4, MovesAnnounce
  <2>2. x.doomed = {} /\ x.then = "done"
    BY <1>1, <2>1 DEF Keeps
  <2>3. QED  BY <2>1, <2>2
<1>5. CASE Commands
  <2>1. \A k \in Task : ledger[k].tabs \subseteq Tab
    BY LedgerType DEF TaskRecord
  <2>2. EndKinds \cup {"open", "adopt", "assert", "request"} \subseteq Kind \ {"announce", "removed"}
    BY DEF EndKinds, Kind, Grants
  <2>3. \E o \in Op : \/ \E kind \in Kind, k \in Task \cup {None}, t \in Tab \cup {None},
                           q \in Tab \cup {None} : Submit(o, kind, k, t, q)
                                                 /\ kind \notin {"announce", "removed"}
                      \/ Announce(o)
    BY <1>5, <2>1, <2>2 DEF Commands
  <2>4. QED  BY <1>3, <1>4, <2>3
<1>6. QED  BY <1>2, <1>5

LEMMA ChainInit ==
    ASSUME Init
    PROVE  ChainInv
BY DEF Init, ChainInv, Works, Idle

(* An operation joins the chain at its end. *)
LEMMA ChainGrows ==
    ASSUME TypeInv, ChainInv, NEW o \in Op, NEW x \in Call, call[o].pc = "idle", Becomes(o, x),
           x.pc = "queued", x.kind # "announce", chain' = Append(chain, o), UNCHANGED overruns
    PROVE  ChainInv'
<1>1. /\ chain \in Seq(Op) /\ Len(chain') = Len(chain) + 1 /\ chain' # <<>>
      /\ chain'[Len(chain) + 1] = o
      /\ \A i \in 1..Len(chain) : chain'[i] = chain[i] /\ chain[i] \in Op /\ chain[i] # o
  BY DEF TypeInv, ChainInv
<1>2. call'[o] = x /\ \A q \in Op : q # o => call'[q] = call[q]
  BY DEF Becomes
<1>3. \A i, j \in 1..Len(chain') : i # j => chain'[i] # chain'[j]
  BY <1>1 DEF ChainInv
<1>4. \A i \in 1..Len(chain') : /\ call'[chain'[i]].pc # "idle"
                                /\ call'[chain'[i]].kind # "announce"
                                /\ i # 1 => call'[chain'[i]].pc = "queued"
  <2>1. ASSUME NEW i \in 1..Len(chain)
        PROVE  /\ call'[chain'[i]].pc # "idle" /\ call'[chain'[i]].kind # "announce"
               /\ i # 1 => call'[chain'[i]].pc = "queued"
    BY <1>1, <1>2 DEF ChainInv
  <2>2. QED  BY <1>1, <1>2, <2>1
<1>5. Orderly => \A q \in Op : Works(call'[q]) => chain'[1] = q
  <2>1. ASSUME Orderly, NEW q \in Op, Works(call'[q])
        PROVE  chain'[1] = q
    <3>1. q # o /\ Works(call[q])
      BY <1>2, <2>1 DEF Works
    <3>2. chain # <<>> /\ chain[1] = q
      BY <2>1, <3>1 DEF ChainInv
    <3>3. 1 \in 1..Len(chain)
      BY <1>1, <3>2
    <3>4. QED  BY <1>1, <3>2, <3>3
  <2>2. QED  BY <2>1
<1>6. QED  BY <1>1, <1>3, <1>4, <1>5 DEF ChainInv, Works, Orderly

(* The head of the chain leaves it. *)
LEMMA ChainShrinks ==
    ASSUME TypeInv, ChainInv, chain # <<>>, chain' = Tail(chain), overruns' \in Nat,
           \A q \in Op : q # chain[1] => call'[q] = call[q],
           Orderly' => Orderly /\ ~Works(call'[chain[1]])
    PROVE  ChainInv'
<1>1. /\ chain \in Seq(Op) /\ Len(chain') = Len(chain) - 1
      /\ \A i \in 1..Len(chain') : /\ i + 1 \in 1..Len(chain) /\ chain'[i] = chain[i + 1]
                                   /\ chain[i + 1] \in Op /\ chain[i + 1] # chain[1]
  BY DEF TypeInv, ChainInv
<1>2. \A i, j \in 1..Len(chain') : i # j => chain'[i] # chain'[j]
  BY <1>1 DEF ChainInv
<1>3. \A i \in 1..Len(chain') : call'[chain'[i]].pc = "queued" /\ call'[chain'[i]].kind # "announce"
  BY <1>1 DEF ChainInv
<1>4. Orderly' => \A q \in Op : ~Works(call'[q])
  BY DEF ChainInv
<1>5. QED  BY <1>2, <1>3, <1>4 DEF ChainInv, Works

LEMMA StepsStay ==
    ASSUME NEW o \in Op, Steps(o)
    PROVE  UNCHANGED <<overruns, touched>>
BY WalkingStays, OpeningStays, StoringStays, OthersStay, StepsAre DEF FaultsStay, TabsStay

LEMMA ChainStep ==
    ASSUME TypeInv, ChainInv, Next
    PROVE  ChainInv'
<1>1. chain \in Seq(Op)
  BY DEF TypeInv
<1>2. ASSUME NEW p \in Op, Steps(p)
      PROVE  ChainInv'
  <2>1. /\ call[p].pc # "idle"
        /\ call[p].pc = "queued" => chain # <<>> /\ Head(chain) = p
        /\ Finished(p) \/ \E x \in Call : Goes(p, x)
    BY <1>2, StepIs
  <2>2. UNCHANGED overruns
    BY <1>2, StepsStay
  <2>3. ASSUME NEW i \in 1..Len(chain), chain[i] = p
        PROVE  chain[1] = p /\ i = 1
    <3>1. CASE i # 1
      <4>1. call[p].pc = "queued"
        BY <2>3, <3>1 DEF ChainInv
      <4>2. chain[1] = p /\ 1 \in 1..Len(chain)
        BY <1>1, <2>1, <4>1
      <4>3. QED  BY <2>3, <3>1, <4>2 DEF ChainInv
    <3>2. QED  BY <2>3, <3>1
  <2>4. CASE \E x \in Call : Goes(p, x)
    <3>1. PICK x \in Call : Goes(p, x)
      BY <2>4
    <3>2. /\ chain' = chain /\ call'[p] = x /\ x.kind = call[p].kind
          /\ x.pc \notin {"idle", "queued"}
          /\ \A q \in Op : q # p => call'[q] = call[q]
      BY <3>1 DEF Goes, Becomes
    <3>3. \A i \in 1..Len(chain) : /\ call'[chain[i]].pc # "idle"
                                   /\ call'[chain[i]].kind # "announce"
                                   /\ i # 1 => call'[chain[i]].pc = "queued"
      BY <1>1, <2>3, <3>2 DEF ChainInv
    <3>4. Works(x) => Works(call[p]) \/ (chain # <<>> /\ chain[1] = p)
      BY <1>1, <2>1, <3>2 DEF Works
    <3>5. Orderly => \A q \in Op : Works(call'[q]) => chain # <<>> /\ chain[1] = q
      BY <3>2, <3>4 DEF ChainInv
    <3>6. QED  BY <2>2, <3>2, <3>3, <3>5 DEF ChainInv, Works, Orderly
  <2>5. CASE Finished(p)
    <3>1. call'[p] = Idle /\ \A q \in Op : q # p => call'[q] = call[q]
      BY <2>5, Over DEF Becomes
    <3>2. ~Works(call'[p])
      BY <3>1 DEF Works, Idle
    <3>3. CASE chain # <<>> /\ Head(chain) = p
      <4>1. chain' = Tail(chain) /\ chain[1] = p
        BY <1>1, <2>5, <3>3 DEF Finished
      <4>2. overruns' \in Nat /\ (Orderly' => Orderly)
        BY <2>2 DEF ChainInv, Orderly
      <4>3. QED  BY <3>1, <3>2, <3>3, <4>1, <4>2, ChainShrinks
    <3>4. CASE ~(chain # <<>> /\ Head(chain) = p)
      <4>1. chain' = chain
        BY <2>5, <3>4 DEF Finished
      <4>2. \A i \in 1..Len(chain) : chain[i] # p /\ chain[i] \in Op
        BY <1>1, <2>3, <3>4
      <4>3. QED  BY <2>2, <3>1, <3>2, <4>1, <4>2 DEF ChainInv, Works, Orderly
    <3>5. QED  BY <3>3, <3>4
  <2>6. QED  BY <2>1, <2>4, <2>5
<1>3. CASE Commands \/ \E o \in Op : Deliver(o)
  <2>1. PICK o \in Op, x \in Call :
           /\ call[o].pc = "idle" /\ Becomes(o, x) /\ x.doomed = {}
           /\ \/ x.pc = "queued" /\ x.kind # "announce" /\ chain' = Append(chain, o)
              \/ x.pc = "publish" /\ x.kind = "announce" /\ chain' = chain
    BY <1>3, Begun
  <2>2. UNCHANGED overruns
    BY <1>3, CommandsStay, DeliverStays DEF FaultsStay
  <2>3. CASE x.pc = "queued"
    BY <2>1, <2>2, <2>3, ChainGrows
  <2>4. CASE x.pc = "publish"
    <3>1. /\ chain' = chain /\ call'[o] = x /\ ~Works(x)
          /\ \A q \in Op : q # o => call'[q] = call[q]
      BY <2>1, <2>4 DEF Becomes, Works
    <3>2. \A i \in 1..Len(chain) : chain[i] # o /\ chain[i] \in Op
      BY <1>1, <2>1 DEF ChainInv
    <3>3. QED  BY <2>2, <3>1, <3>2 DEF ChainInv, Works, Orderly
  <2>5. QED  BY <2>1, <2>3, <2>4
<1>4. CASE Overrun
  <2>1. chain # <<>> /\ chain' = Tail(chain) /\ overruns' = overruns + 1 /\ UNCHANGED call
    BY <1>1, <1>4 DEF Overrun
  <2>2. overruns' \in Nat /\ ~Orderly'
    BY <2>1 DEF ChainInv, Orderly
  <2>3. QED  BY <2>1, <2>2, ChainShrinks
<1>5. CASE Restart
  <2>1. PICK o \in Op, x \in Call :
           /\ chain' = <<o>> /\ call'[o] = x /\ x.pc = "queued" /\ x.kind = "reconcile"
           /\ \A q \in Op : q # o => call'[q] = Idle
    BY <1>5, MovesRestart
  <2>2. UNCHANGED overruns
    BY <1>5, FaultStays DEF Restart
  <2>3. \A q \in Op : ~Works(call'[q])
    BY <2>1 DEF Works, Idle
  <2>4. Len(chain') = 1 /\ \A i \in 1..Len(chain') : i = 1 /\ chain'[i] = o
    BY <2>1
  <2>5. QED  BY <2>1, <2>2, <2>3, <2>4 DEF ChainInv, Works
<1>6. CASE Chrome
  <2>1. UNCHANGED <<call, chain, overruns>>
    BY <1>6, ChromeStays DEF FaultsStay
  <2>2. QED  BY <2>1 DEF ChainInv, Works, Orderly
<1>7. QED  BY <1>2, <1>3, <1>4, <1>5, <1>6 DEF Next

--------------------------------
(* Where the tabs of the ledger are *)

(* A pending event, or an operation it began, will have the ledger look for t. *)
Told(t) ==
    \E e \in Heard : (e.kind \in {"moved", "removed"} /\ e.tab = t) \/ e.kind = "reconcile"
Checks(c, t) ==
    \/ c.kind \in {"moved", "removed"} /\ c.tab = t /\ c.pc \in {"queued", "where", "revoke"}
    \/ c.kind = "reconcile" /\ c.pc = "queued"
Handled(t) == Told(t) \/ \E o \in Op : Checks(call[o], t)

(* A tab of task k is in the group of k, or the ledger will hear of it. *)
Placed(k, t) ==
    \/ InGroup(t, ledger[k].group) \/ Handled(t)
    \/ \E o \in Op : call[o].pc = "sweep" /\ <<t, ledger[k].group>> \notin call[o].pairs
AllPlaced == \A k \in Task : \A t \in ledger[k].tabs : Placed(k, t)

(* What a working operation knows of the ledger still holds. *)
Knows(c) ==
    /\ c.pc \in {"queued", "classify"} => c.doomed = {}
    /\ c.pc = "where" => \A k \in Task : c.tab \in ledger[k].tabs => c.group = ledger[k].group
    /\ c.pc \in {"verify", "record"} => ledger[c.task].group \in {c.group, NoGroup}
    /\ c.pc \in {"classify", "forget"} =>
          ledger[c.task] = c.seen /\ c.keep \cup c.doomed \subseteq c.seen.tabs
    /\ c.pc \in {"release", "remove"} => \A t \in c.keep \cup c.doomed : ~Owned(t)
Grouped(c) == c.pc = "record" => InGroup(c.tab, c.group) \/ Handled(c.tab)

PlaceInv ==
    Orderly => AllPlaced /\ \A o \in Op : Knows(call[o]) /\ Grouped(call[o])

(* Operation o steps, and no other works. *)
Alone(o) == \A q \in Op : q # o => call'[q] = call[q] /\ ~Works(call[q])

LEMMA StepsAlone ==
    ASSUME TypeInv, ChainInv, Orderly, NEW o \in Op, Steps(o), call[o].kind # "announce"
    PROVE  Alone(o)
<1>1. /\ call[o].pc = "queued" => chain # <<>> /\ Head(chain) = o
      /\ call[o].pc # "idle" /\ (Finished(o) \/ \E x \in Call : Goes(o, x))
  BY StepIs
<1>2. \A q \in Op : q # o => call'[q] = call[q]
  BY <1>1, Over DEF Goes, Becomes
<1>3. ASSUME NEW q \in Op, q # o, Works(call[q])
      PROVE  FALSE
  <2>1. chain # <<>> /\ chain[1] = q /\ chain \in Seq(Op)
    BY <1>3 DEF ChainInv, TypeInv
  <2>2. CASE call[o].pc = "queued"
    BY <1>1, <1>3, <2>1, <2>2
  <2>3. CASE call[o].pc # "queued"
    BY <1>1, <1>3, <2>1, <2>3 DEF ChainInv, Works
  <2>4. QED  BY <2>2, <2>3
<1>4. QED  BY <1>2, <1>3 DEF Alone

(* A tab leaves no group when another is opened, moved or closed. *)
LEMMA TabsKeep ==
    ASSUME TypeInv, NEW t, NEW g, InGroup(t, g)
    PROVE  /\ UNCHANGED tab => InGroup(t, g)'
           /\ \A u \in Tab, by \in {"user", "child", "agent"} : Opens(u, by) => InGroup(t, g)'
           /\ \A u \in Tab, h \in Groups : Moves(u, h) => t = u \/ InGroup(t, g)'
           /\ \A ts \in SUBSET Tab : Closes(ts) \/ Lets(ts) => t \in ts \/ InGroup(t, g)'
<1>1. t \in Tab /\ tab[t].state = "open" /\ g # NoGroup /\ tab[t].group = g
  BY DEF InGroup, IsOpen
<1>2. tab'[t] = tab[t] => InGroup(t, g)'
  BY <1>1 DEF InGroup, IsOpen
<1>3. ASSUME NEW u \in Tab, NEW by \in {"user", "child", "agent"}, Opens(u, by)
      PROVE  tab'[t] = tab[t]
  BY <1>1, <1>3, OpensIs
<1>4. ASSUME NEW u \in Tab, NEW h \in Groups, Moves(u, h)
      PROVE  t = u \/ tab'[t] = tab[t]
  BY <1>1, <1>4, MovesIs
<1>5. ASSUME NEW ts \in SUBSET Tab, Closes(ts) \/ Lets(ts)
      PROVE  t \in ts \/ tab'[t] = tab[t]
  BY <1>1, <1>5, ClosesIs, LetsIs
<1>6. UNCHANGED tab => tab'[t] = tab[t]
  OBVIOUS
<1>7. QED  BY <1>2, <1>3, <1>4, <1>5, <1>6

(* The tabs that stay in the ledger stay where they are, or are handled. *)
LEMMA PlacesKept ==
    ASSUME NEW o \in Op, Alone(o), AllPlaced, Heard \subseteq Heard',
           \A k \in Task : \A t \in ledger'[k].tabs :
              /\ t \in ledger[k].tabs /\ ledger'[k].group = ledger[k].group
              /\ InGroup(t, ledger[k].group) => InGroup(t, ledger[k].group)' \/ Told(t)'
              /\ Checks(call[o], t) => Placed(k, t)'
              /\ call[o].pc = "sweep" => <<t, ledger[k].group>> \in call[o].pairs
    PROVE  AllPlaced'
<1>1. ASSUME NEW k \in Task, NEW t \in ledger'[k].tabs
      PROVE  Placed(k, t)'
  <2>1. Placed(k, t) /\ ledger'[k].group = ledger[k].group
    BY <1>1 DEF AllPlaced
  <2>2. CASE InGroup(t, ledger[k].group)
    BY <1>1, <2>2 DEF Placed, Handled
  <2>3. CASE Told(t)
    BY <2>3 DEF Placed, Handled, Told
  <2>4. ASSUME NEW q \in Op, Checks(call[q], t)
        PROVE  Placed(k, t)'
    <3>1. CASE q = o
      BY <1>1, <2>4, <3>1
    <3>2. CASE q # o
      <4>1. Checks(call'[q], t)
        BY <2>4, <3>2 DEF Alone
      <4>2. QED  BY <4>1 DEF Placed, Handled
    <3>3. QED  BY <3>1, <3>2
  <2>5. ASSUME NEW q \in Op, call[q].pc = "sweep", <<t, ledger[k].group>> \notin call[q].pairs
        PROVE  Placed(k, t)'
    <3>1. q # o
      BY <1>1, <2>5
    <3>2. call'[q] = call[q]
      BY <3>1 DEF Alone
    <3>3. QED  BY <2>1, <2>5, <3>2 DEF Placed
  <2>6. QED  BY <2>1, <2>2, <2>3, <2>4, <2>5 DEF Placed, Handled
<1>2. QED  BY <1>1 DEF AllPlaced

(* What the working operation has to show after its step. *)
Holds(o) == Knows(call[o]) /\ Grouped(call[o])

(* A step that leaves the ledger alone, by an operation that checks nothing. *)
LEMMA PlacesAsideKept ==
    ASSUME NEW o \in Op, Alone(o), AllPlaced, Heard \subseteq Heard', UNCHANGED ledger,
           \A k \in Task : \A t \in ledger[k].tabs :
              /\ InGroup(t, ledger[k].group) => InGroup(t, ledger[k].group)' \/ Told(t)'
              /\ Checks(call[o], t) => Placed(k, t)',
           call[o].pc # "sweep"
    PROVE  AllPlaced'
BY PlacesKept

(* An operation at rest, or at a place where it knows nothing of the ledger. *)
LEMMA HoldsAnyhow ==
    ASSUME NEW o \in Op,
           call'[o].pc \notin {"queued", "where", "verify", "record", "classify", "forget",
                               "release", "remove"}
    PROVE  Holds(o)'
BY DEF Holds, Knows, Grouped

LEMMA OverHolds ==
    ASSUME TypeInv, NEW o \in Op, Finished(o)
    PROVE  Holds(o)'
<1>1. call'[o].pc = "idle"
  BY Over DEF Becomes, Idle
<1>2. QED  BY <1>1, HoldsAnyhow

(* Without tabs or events moving, an operation that checks nothing leaves all in place. *)
LEMMA PlacesQuietKept ==
    ASSUME TypeInv, NEW o \in Op, Alone(o), AllPlaced, UNCHANGED <<ledger, tab, events>>,
           call[o].pc # "sweep",
           call[o].pc \notin {"queued", "where", "revoke"}
             \/ call[o].kind \notin {"moved", "removed", "reconcile"}
    PROVE  AllPlaced'
<1>1. Heard \subseteq Heard'
  BY DEF Heard
<1>2. ASSUME NEW k \in Task, NEW t \in ledger[k].tabs
      PROVE  /\ InGroup(t, ledger[k].group) => InGroup(t, ledger[k].group)'
             /\ ~Checks(call[o], t)
  BY DEF InGroup, IsOpen, Checks
<1>3. QED  BY <1>1, <1>2, PlacesAsideKept

LEMMA PlaceAssert ==
    ASSUME TypeInv, NEW o \in Op, Alone(o), AllPlaced, Holds(o),
           AssertBegin(o) \/ AssertCheck(o) \/ AssertRecheck(o)
    PROVE  AllPlaced' /\ Holds(o)'
<1>1. CASE AssertBegin(o)
  <2>1. UNCHANGED <<ledger, tab, events>>
    BY <1>1 DEF AssertBegin, Quietly, chromeVars, stored
  <2>2. AllPlaced'
    BY <1>1, <2>1, MovesAssertBegin, PlacesQuietKept
  <2>3. QED  BY <1>1, <2>2, MovesAssertBegin, OverHolds, HoldsAnyhow DEF Walks, Becomes
<1>2. CASE AssertCheck(o)
  <2>1. UNCHANGED <<ledger, tab, events>>
    BY <1>2 DEF AssertCheck, Quietly, chromeVars, stored
  <2>2. AllPlaced'
    BY <1>2, <2>1, MovesAssertCheck, PlacesQuietKept
  <2>3. QED  BY <1>2, <2>2, MovesAssertCheck, HoldsAnyhow DEF Walks, Becomes
<1>3. CASE AssertRecheck(o)
  <2>1. UNCHANGED ledger
    BY <1>3 DEF AssertRecheck, stored
  <2>2. Holds(o)'
    BY <1>3, MovesAssertRecheck, OverHolds, HoldsAnyhow DEF Walks, Becomes
  <2>3. CASE UNCHANGED <<tab, events>>
    BY <1>3, <2>1, <2>2, <2>3, MovesAssertRecheck, PlacesQuietKept
  <2>4. CASE ~UNCHANGED <<tab, events>>
    <3>1. PICK u \in Tab : Opens(u, "agent") /\ Raise("child", u, call[o].parent)
      BY <1>3, <2>4, MovesAssertRecheck
    <3>2. call[o].parent \in Tab \cup {None}
      BY CallFacts DEF Call
    <3>3. Heard \subseteq Heard'
      BY <3>1, <3>2, HeardRaised
    <3>4. call[o].pc = "recheck"
      BY <1>3, MovesAssertRecheck
    <3>5. ASSUME NEW k \in Task, NEW t \in ledger[k].tabs
          PROVE  /\ InGroup(t, ledger[k].group) => InGroup(t, ledger[k].group)'
                 /\ ~Checks(call[o], t)
      <4>1. PICK g : g = ledger[k].group
        OBVIOUS
      <4>2. InGroup(t, g) => InGroup(t, g)'
        BY <3>1, TabsKeep
      <4>3. QED  BY <2>1, <3>4, <4>1, <4>2 DEF Checks
    <3>6. QED  BY <2>1, <2>2, <3>3, <3>4, <3>5, PlacesAsideKept
  <2>5. QED  BY <2>3, <2>4
<1>4. QED  BY <1>1, <1>2, <1>3

LEMMA PlaceBegin ==
    ASSUME TypeInv, NEW o \in Op, Alone(o), AllPlaced, Holds(o), NEW u \in Tab,
           OpenBegin(o, u) \/ AdoptBegin(o, u)
    PROVE  AllPlaced' /\ Holds(o)'
<1>1. call[o].pc = "queued" /\ call[o].kind \in {"open", "adopt"} /\ call'[o].pc = "look"
  BY MovesBegin DEF Walks, Becomes
<1>2. UNCHANGED <<ledger, events>> /\ (Opens(u, "agent") \/ UNCHANGED tab)
  BY DEF OpenBegin, AdoptBegin, Quietly, chromeVars, stored
<1>3. Heard \subseteq Heard'
  BY <1>2 DEF Heard
<1>4. ASSUME NEW k \in Task, NEW t \in ledger[k].tabs
      PROVE  /\ InGroup(t, ledger[k].group) => InGroup(t, ledger[k].group)'
             /\ ~Checks(call[o], t)
  <2>1. PICK g : g = ledger[k].group
    OBVIOUS
  <2>2. InGroup(t, g) => InGroup(t, g)'
    BY <1>2, TabsKeep
  <2>3. QED  BY <1>1, <1>2, <2>1, <2>2 DEF Checks
<1>5. QED  BY <1>1, <1>2, <1>3, <1>4, PlacesAsideKept, HoldsAnyhow

(* A tab that an operation puts elsewhere is heard of. *)
LEMMA PlacesMovedKept ==
    ASSUME TypeInv, NEW o \in Op, Alone(o), AllPlaced, UNCHANGED ledger,
           call[o].pc \in Granting, NEW u \in Tab, NEW h \in Groups, Moves(u, h),
           Raise("moved", u, None)
    PROVE  AllPlaced' /\ Told(u)'
<1>1. Heard' = Heard \cup {[kind |-> "moved", tab |-> u, parent |-> None]}
  BY HeardRaised
<1>2. Told(u)'
  <2>1. PICK e : e = [kind |-> "moved", tab |-> u, parent |-> None]
    OBVIOUS
  <2>2. e \in Heard' /\ e.kind = "moved" /\ e.tab = u
    BY <1>1, <2>1
  <2>3. QED  BY <2>2 DEF Told
<1>3. ASSUME NEW k \in Task, NEW t \in ledger[k].tabs
      PROVE  /\ InGroup(t, ledger[k].group) => InGroup(t, ledger[k].group)' \/ Told(t)'
             /\ ~Checks(call[o], t)
  <2>1. PICK g : g = ledger[k].group
    OBVIOUS
  <2>2. InGroup(t, g) => t = u \/ InGroup(t, g)'
    BY TabsKeep
  <2>3. ledger'[k].group = g
    BY <2>1
  <2>4. ~Checks(call[o], t)
    BY DEF Checks, Granting
  <2>5. QED  BY <1>2, <2>1, <2>2, <2>3, <2>4
<1>4. QED  BY <1>1, <1>2, <1>3, PlacesAsideKept DEF Granting

LEMMA PlaceLook ==
    ASSUME TypeInv, NEW o \in Op, Alone(o), AllPlaced, Holds(o), GrantLook(o)
    PROVE  AllPlaced' /\ Holds(o)'
<1>1. UNCHANGED <<ledger, tab, events>> /\ call[o].pc = "look"
  BY DEF GrantLook, Quietly, chromeVars, stored, At
<1>2. Finished(o) \/ \E x \in Call : Becomes(o, x) /\ x.pc \in {"discard", "mark", "revoke", "group"}
  BY MovesLook DEF Walks
<1>3. QED  BY <1>1, <1>2, PlacesQuietKept, OverHolds, HoldsAnyhow DEF Becomes

LEMMA PlaceMark ==
    ASSUME TypeInv, NEW o \in Op, Alone(o), AllPlaced, Holds(o), GrantMark(o)
    PROVE  AllPlaced' /\ Holds(o)'
<1>1. UNCHANGED <<tab, events>> /\ call[o].pc = "mark" /\ call[o].task \in Task
  BY CallFacts DEF GrantMark, chromeVars, At, CallOK, InGrant, Granting
<1>2. Finished(o) \/ \E x \in Call : Becomes(o, x) /\ x.pc = "discard"
  BY MovesMark DEF Walks
<1>3. \A k \in Task : ledger'[k].tabs = ledger[k].tabs /\ ledger'[k].group = ledger[k].group
  <2>1. ledger' \in {ledger, [ledger EXCEPT ![call[o].task].created = @ \cup {call[o].tab}]}
    BY DEF GrantMark, Stored
  <2>2. ledger \in [Task -> TaskRecord]
    BY LedgerType
  <2>3. QED  BY <1>1, <2>1, <2>2 DEF TaskRecord
<1>4. Heard \subseteq Heard' /\ \A t, g : InGroup(t, g) => InGroup(t, g)'
  BY <1>1 DEF Heard, InGroup, IsOpen
<1>5. \A t : ~Checks(call[o], t)
  BY <1>1 DEF Checks
<1>6. AllPlaced'
  <2>1. ASSUME NEW k \in Task, NEW t \in ledger'[k].tabs
        PROVE  /\ t \in ledger[k].tabs /\ ledger'[k].group = ledger[k].group
               /\ InGroup(t, ledger[k].group) => InGroup(t, ledger[k].group)'
    <3>1. PICK g : g = ledger[k].group
      OBVIOUS
    <3>2. InGroup(t, g) => InGroup(t, g)'
      BY <1>4
    <3>3. QED  BY <1>3, <2>1, <3>1, <3>2
  <2>2. QED  BY <1>1, <1>4, <1>5, <2>1, PlacesKept
<1>7. QED  BY <1>2, <1>6, OverHolds, HoldsAnyhow DEF Becomes

LEMMA PlaceGroup ==
    ASSUME TypeInv, NEW o \in Op, Alone(o), AllPlaced, Holds(o), GrantGroup(o)
    PROVE  AllPlaced' /\ Holds(o)'
<1>1. UNCHANGED ledger /\ call[o].pc = "group" /\ call[o].tab \in Tab
  <2>1. call[o].pc = "group" /\ call[o].tab \in Tab
    BY MovesGroup
  <2>2. UNCHANGED ledger
    BY DEF GrantGroup, stored
  <2>3. QED  BY <2>1, <2>2
<1>2. ASSUME NEW x \in Call, Walks(o, x, {"pc", "group", "seen"}), x.pc = "verify",
             x.group \in Group, ledger[call[o].task].group \in {x.group, NoGroup},
             Moves(call[o].tab, x.group), Raise("moved", call[o].tab, None)
      PROVE  AllPlaced' /\ Holds(o)'
  <2>1. x.task = call[o].task /\ call'[o] = x
    BY <1>2 DEF Walks, Keeps, Becomes
  <2>2. Holds(o)'
    BY <1>1, <1>2, <2>1 DEF Holds, Knows, Grouped
  <2>3. x.group \in Groups
    BY <1>2 DEF Groups
  <2>4. AllPlaced'
    BY <1>1, <1>2, <2>3, PlacesMovedKept DEF Granting
  <2>5. QED  BY <2>2, <2>4
<1>3. ASSUME NEW x \in Call, Walks(o, x, {"pc"}), x.pc = "undo", UNCHANGED <<tab, events>>
      PROVE  AllPlaced' /\ Holds(o)'
  BY <1>1, <1>3, PlacesQuietKept, HoldsAnyhow DEF Walks, Becomes
<1>4. \/ \E x \in Call : /\ Walks(o, x, {"pc", "group", "seen"}) /\ x.pc = "verify"
                         /\ x.group \in Group
                         /\ ledger[call[o].task].group \in {x.group, NoGroup}
                         /\ tab' = [tab EXCEPT ![call[o].tab].group = x.group]
                         /\ Raise("moved", call[o].tab, None)
      \/ \E x \in Call : Walks(o, x, {"pc"}) /\ x.pc = "undo" /\ UNCHANGED <<tab, events>>
  BY MovesGroup
<1>5. QED  BY <1>2, <1>3, <1>4 DEF Moves

LEMMA PlaceVerify ==
    ASSUME TypeInv, NEW o \in Op, Alone(o), AllPlaced, Holds(o), GrantVerify(o)
    PROVE  AllPlaced' /\ Holds(o)'
<1>1. UNCHANGED <<ledger, tab, events>> /\ call[o].pc = "verify"
  BY DEF GrantVerify, Quietly, chromeVars, stored, At
<1>2. PICK x \in Call : /\ Walks(o, x, {"pc"})
                        /\ \/ x.pc = "record" /\ InGroup(call[o].tab, call[o].group)
                           \/ x.pc = "undo"
  BY MovesVerify
<1>3. x.task = call[o].task /\ x.tab = call[o].tab /\ x.group = call[o].group /\ call'[o] = x
  BY <1>2 DEF Walks, Keeps, Becomes
<1>4. x.pc = "record" => Holds(o)'
  <2>1. InGroup(x.tab, x.group) => InGroup(x.tab, x.group)'
    BY <1>1 DEF InGroup, IsOpen
  <2>2. ledger[call[o].task].group \in {call[o].group, NoGroup}
    BY <1>1 DEF Holds, Knows
  <2>3. QED  BY <1>1, <1>2, <1>3, <2>1, <2>2 DEF Holds, Knows, Grouped
<1>5. QED  BY <1>1, <1>2, <1>3, <1>4, PlacesQuietKept, HoldsAnyhow

LEMMA HandledOn ==
    ASSUME NEW o \in Op, Alone(o), Heard \subseteq Heard', NEW t, Handled(t), ~Checks(call[o], t)
    PROVE  Handled(t)'
<1>1. Told(t) => Told(t)'
  BY DEF Told
<1>2. ASSUME NEW q \in Op, Checks(call[q], t)
      PROVE  Checks(call'[q], t)
  BY <1>2 DEF Alone
<1>3. QED  BY <1>1, <1>2 DEF Handled

(* A tab goes on the record where it was put, or is heard of; the other tabs *)
(* of its task are in the same group.                                        *)
LEMMA PlaceRecord ==
    ASSUME TypeInv, GroupsInv, NEW o \in Op, Alone(o), AllPlaced, Holds(o), GrantRecord(o)
    PROVE  AllPlaced' /\ Holds(o)'
<1> DEFINE c == call[o]
<1> DEFINE recorded == [ledger EXCEPT ![c.task] = Granted(c)]
<1>1. c.pc = "record" /\ c.tab \in Tab /\ c.task \in Task
  BY MovesRecord
<1>2. UNCHANGED <<tab, events>>
  BY DEF GrantRecord, chromeVars
<1>3. Heard \subseteq Heard' /\ \A t, g : InGroup(t, g) => InGroup(t, g)'
  BY <1>2 DEF Heard, InGroup, IsOpen
<1>4. \A t : ~Checks(c, t)
  BY <1>1 DEF Checks
<1>5. Holds(o)'
  <2>1. \E x \in Call : Becomes(o, x) /\ x.pc \in {"publish", "undo"}
    BY MovesRecord DEF Walks
  <2>2. QED  BY <2>1, HoldsAnyhow DEF Becomes
<1>6. ledger' = ledger \/ (Recordable(c) /\ ledger' = recorded)
  BY MovesRecord DEF Stored
<1>7. CASE ledger' = ledger
  BY <1>1, <1>2, <1>5, <1>7, PlacesQuietKept
<1>8. CASE Recordable(c) /\ ledger' = recorded
  <2>1. /\ ledger \in [Task -> TaskRecord] /\ ledger'[c.task] = Granted(c)
        /\ \A k \in Task : k # c.task => ledger'[k] = ledger[k]
    BY <1>1, <1>8, LedgerType
  <2>2. /\ Granted(c).group = c.group
        /\ Granted(c).tabs = Base(c).tabs \cup {c.tab}
    BY <1>1, GrantedIs
  <2>3. ASSUME NEW k \in Task, NEW t \in ledger[k].tabs, ledger'[k].group = ledger[k].group
        PROVE  Placed(k, t)'
    <3>1. PICK g : g = ledger[k].group /\ g = ledger'[k].group
      BY <2>3
    <3>2. Placed(k, t)
      BY <2>3 DEF AllPlaced
    <3>3. InGroup(t, g) => InGroup(t, g)'
      BY <1>3
    <3>4. Handled(t) => Handled(t)'
      BY <1>3, <1>4, HandledOn
    <3>5. ASSUME NEW q \in Op, call[q].pc = "sweep", <<t, g>> \notin call[q].pairs
          PROVE  call'[q].pc = "sweep" /\ <<t, g>> \notin call'[q].pairs
      BY <1>1, <3>5 DEF Alone
    <3>6. QED  BY <3>1, <3>2, <3>3, <3>4, <3>5 DEF Placed
  <2>4. ASSUME NEW t \in Base(c).tabs
        PROVE  t \in ledger[c.task].tabs /\ ledger[c.task].group = c.group
    <3>1. c.seen.tabs = {} \/ ledger[c.task].known
      BY <1>1, <1>8 DEF GroupsInv, GroupOK, Grouping, Recordable
    <3>2. t \in ledger[c.task].tabs
      BY <2>4, <3>1 DEF Base
    <3>3. ledger[c.task].group # NoGroup
      BY <1>1, <3>2, LedgerFacts
    <3>4. QED  BY <1>1, <3>2, <3>3 DEF Holds, Knows
  <2>5. ASSUME NEW k \in Task, NEW t \in Tab, k = c.task, t = c.tab
        PROVE  Placed(k, t)'
    <3>1. PICK g : g = c.group
      OBVIOUS
    <3>2. InGroup(t, g) \/ Handled(t)
      BY <1>1, <2>5, <3>1 DEF Holds, Grouped
    <3>3. InGroup(t, g) => InGroup(t, g)'
      BY <1>3
    <3>4. Handled(t) => Handled(t)'
      BY <1>3, <1>4, HandledOn
    <3>5. ledger'[k].group = g
      BY <2>1, <2>2, <2>5, <3>1
    <3>6. QED  BY <3>2, <3>3, <3>4, <3>5 DEF Placed
  <2>6. ASSUME NEW k \in Task, NEW t \in ledger'[k].tabs
        PROVE  Placed(k, t)'
    <3>1. CASE k # c.task
      BY <2>1, <2>3, <2>6, <3>1
    <3>2. CASE k = c.task /\ t \in Base(c).tabs
      BY <2>1, <2>2, <2>3, <2>4, <3>2
    <3>3. CASE k = c.task /\ t = c.tab
      BY <1>1, <2>5, <3>3
    <3>4. QED  BY <2>1, <2>2, <2>6, <3>1, <3>2, <3>3
  <2>7. QED  BY <1>5, <2>6 DEF AllPlaced
<1>9. QED  BY <1>6, <1>7, <1>8

LEMMA PlaceUndo ==
    ASSUME TypeInv, NEW o \in Op, Alone(o), AllPlaced, Holds(o), GrantUndo(o)
    PROVE  AllPlaced' /\ Holds(o)'
<1>1. call[o].pc = "undo" /\ call[o].tab \in Tab
  BY MovesUndo
<1>2. UNCHANGED ledger
  BY DEF GrantUndo, stored
<1>3. Holds(o)'
  <2>1. Finished(o) \/ \E x \in Call : Becomes(o, x) /\ x.pc = "discard"
    BY MovesUndo DEF Walks
  <2>2. QED  BY <2>1, OverHolds, HoldsAnyhow DEF Becomes
<1>4. CASE UNCHANGED <<tab, events>>
  BY <1>1, <1>2, <1>3, <1>4, PlacesQuietKept
<1>5. ASSUME NEW g \in Groups, Moves(call[o].tab, g), Raise("moved", call[o].tab, None)
      PROVE  AllPlaced'
  BY <1>1, <1>2, <1>5, PlacesMovedKept DEF Granting
<1>6. UNCHANGED <<tab, events>>
        \/ \E g \in Groups : Moves(call[o].tab, g) /\ Raise("moved", call[o].tab, None)
  BY MovesUndo DEF Moves
<1>7. QED  BY <1>3, <1>4, <1>5, <1>6

LEMMA PlaceDiscard ==
    ASSUME TypeInv, NEW o \in Op, Alone(o), AllPlaced, Holds(o), Discard(o)
    PROVE  AllPlaced' /\ Holds(o)'
<1>1. call[o].pc = "discard" /\ call[o].tab \in Tab /\ Finished(o) /\ Closes({call[o].tab})
  BY MovesDiscard
<1>2. UNCHANGED ledger
  BY DEF Discard, stored
<1>3. PICK u \in Tab : u = call[o].tab
  BY <1>1
<1>4. IF IsOpen(u) THEN Raise("removed", u, None) ELSE UNCHANGED events
  BY <1>3 DEF Discard, Raise
<1>5. Raise("removed", u, None) =>
         Heard' = Heard \cup {[kind |-> "removed", tab |-> u, parent |-> None]}
  BY HeardRaised
<1>6. Heard \subseteq Heard'
  BY <1>4, <1>5 DEF Heard
<1>7. IsOpen(u) => Told(u)'
  <2>1. PICK e : e = [kind |-> "removed", tab |-> u, parent |-> None]
    OBVIOUS
  <2>2. IsOpen(u) => e \in Heard' /\ e.kind = "removed" /\ e.tab = u
    BY <1>4, <1>5, <2>1
  <2>3. QED  BY <2>2 DEF Told
<1>8. ASSUME NEW k \in Task, NEW t \in ledger[k].tabs
      PROVE  /\ InGroup(t, ledger[k].group) => InGroup(t, ledger[k].group)' \/ Told(t)'
             /\ ~Checks(call[o], t)
  <2>1. PICK g : g = ledger[k].group /\ g = ledger'[k].group
    BY <1>2
  <2>2. Closes({u}) /\ {u} \in SUBSET Tab
    BY <1>1, <1>3
  <2>3. InGroup(t, g) => t \in {u} \/ InGroup(t, g)'
    BY <2>2, TabsKeep
  <2>4. InGroup(t, g) => IsOpen(t)
    BY DEF InGroup
  <2>5. ~Checks(call[o], t)
    BY <1>1 DEF Checks
  <2>6. QED  BY <1>7, <2>1, <2>3, <2>4, <2>5
<1>9. QED  BY <1>1, <1>2, <1>6, <1>8, PlacesAsideKept, OverHolds

LEMMA PlaceMoved ==
    ASSUME TypeInv, NEW o \in Op, Alone(o), AllPlaced, Holds(o),
           RevokeBegin(o) \/ MovedBegin(o) \/ MovedWhere(o)
    PROVE  AllPlaced' /\ Holds(o)'
<1> DEFINE c == call[o]
<1>1. UNCHANGED <<ledger, tab, events>>
  BY DEF RevokeBegin, MovedBegin, MovedWhere, Quietly, chromeVars, stored
<1>2. Heard \subseteq Heard' /\ \A t, g : InGroup(t, g) => InGroup(t, g)'
  BY <1>1 DEF Heard, InGroup, IsOpen
<1>3. ASSUME c.pc # "sweep",
             \A k \in Task : \A t \in ledger[k].tabs : Checks(c, t) => Placed(k, t)'
      PROVE  AllPlaced'
  <2>1. ASSUME NEW k \in Task, NEW t \in ledger[k].tabs
        PROVE  InGroup(t, ledger[k].group) => InGroup(t, ledger[k].group)'
    BY <1>1 DEF InGroup, IsOpen
  <2>2. QED  BY <1>1, <1>2, <1>3, <2>1, PlacesAsideKept
<1>4. ASSUME NEW x \in Call, Walks(o, x, {"pc"}) \/ Walks(o, x, {"pc", "group"}),
             x.pc \in {"where", "revoke"}, c.kind \in {"moved", "removed"}, c.pc # "sweep"
      PROVE  AllPlaced' /\ call'[o].pc = x.pc /\ call'[o].tab = c.tab
  <2>1. call'[o] = x /\ x.kind = c.kind /\ x.tab = c.tab
    BY <1>4 DEF Walks, Becomes, Keeps
  <2>2. \A t : Checks(c, t) => Checks(call'[o], t)
    BY <1>4, <2>1 DEF Checks
  <2>3. ASSUME NEW k, NEW t, Checks(c, t)
        PROVE  Placed(k, t)'
    BY <2>2, <2>3 DEF Placed, Handled
  <2>4. QED  BY <1>3, <1>4, <2>1, <2>3
<1>5. CASE RevokeBegin(o)
  <2>1. PICK x \in Call : Walks(o, x, {"pc"}) /\ x.pc = "revoke"
    BY <1>5, MovesRevokeBegin
  <2>2. c.pc = "queued" /\ c.kind = "removed"
    BY <1>5, MovesRevokeBegin
  <2>3. AllPlaced' /\ call'[o].pc = "revoke"
    BY <1>4, <2>1, <2>2
  <2>4. QED  BY <2>3, HoldsAnyhow
<1>6. CASE MovedBegin(o)
  <2>1. c.pc = "queued" /\ c.kind = "moved" /\ c.tab \in Tab
    BY <1>6, MovesMovedBegin
  <2>2. CASE ~Owned(c.tab) /\ Finished(o)
    <3>1. \A k \in Task : \A t \in ledger[k].tabs : ~Checks(c, t)
      BY <2>1, <2>2 DEF Owned, Owners, Checks
    <3>2. QED  BY <1>3, <2>1, <2>2, <3>1, OverHolds
  <2>3. ASSUME NEW x \in Call, Walks(o, x, {"pc", "group"}), x.pc = "where",
               NEW j \in Task, c.tab \in ledger[j].tabs, x.group = ledger[j].group
        PROVE  AllPlaced' /\ Holds(o)'
    <3>1. AllPlaced' /\ call'[o].pc = "where" /\ call'[o].tab = c.tab
      BY <1>4, <2>1, <2>3
    <3>2. call'[o].group = ledger[j].group
      BY <2>3 DEF Walks, Becomes
    <3>3. \A k \in Task : c.tab \in ledger[k].tabs => k = j
      BY <2>3 DEF TypeInv, WellFormed, Unambiguous
    <3>4. Holds(o)'
      BY <1>1, <3>1, <3>2, <3>3 DEF Holds, Knows, Grouped
    <3>5. QED  BY <3>1, <3>4
  <2>4. \/ ~Owned(c.tab) /\ Finished(o)
        \/ \E x \in Call, j \in Task :
              /\ Walks(o, x, {"pc", "group"}) /\ x.pc = "where"
              /\ c.tab \in ledger[j].tabs /\ x.group = ledger[j].group
    BY <1>6, MovesMovedBegin
  <2>5. QED  BY <2>2, <2>3, <2>4
<1>7. CASE MovedWhere(o)
  <2>1. c.pc = "where" /\ c.kind = "moved" /\ c.tab \in Tab
    BY <1>7, MovesMovedWhere
  <2>2. CASE InGroup(c.tab, c.group) /\ Finished(o)
    <3>1. ASSUME NEW k \in Task, NEW t \in ledger[k].tabs, Checks(c, t)
          PROVE  Placed(k, t)'
      <4>1. t = c.tab
        BY <2>1, <3>1 DEF Checks
      <4>2. c.group = ledger[k].group
        BY <2>1, <3>1, <4>1 DEF Holds, Knows
      <4>3. InGroup(t, ledger[k].group)
        BY <2>2, <4>1, <4>2
      <4>4. QED  BY <1>1, <4>3 DEF Placed, InGroup, IsOpen
    <3>2. QED  BY <1>3, <2>1, <2>2, <3>1, OverHolds
  <2>3. ASSUME NEW x \in Call, Walks(o, x, {"pc"}), x.pc = "revoke"
        PROVE  AllPlaced' /\ Holds(o)'
    <3>1. AllPlaced' /\ call'[o].pc = "revoke"
      BY <1>4, <2>1, <2>3
    <3>2. QED  BY <3>1, HoldsAnyhow
  <2>4. \/ InGroup(c.tab, c.group) /\ Finished(o)
        \/ \E x \in Call : Walks(o, x, {"pc"}) /\ x.pc = "revoke"
    BY <1>7, MovesMovedWhere
  <2>5. QED  BY <2>2, <2>3, <2>4
<1>8. QED  BY <1>5, <1>6, <1>7

(* Less of the ledger is never refused. *)
LEMMA LessIsStored ==
    ASSUME TypeInv, NEW l, Stored(l),
           \A k \in Task : /\ l[k].tabs \subseteq ledger[k].tabs
                           /\ l[k].created \subseteq l[k].tabs
                           /\ l[k].group \in {ledger[k].group, NoGroup}
                           /\ l[k].group # ledger[k].group => l[k].tabs = {}
    PROVE  /\ ledger' = l
           /\ \A k \in Task : \A t \in ledger'[k].tabs :
                 t \in ledger[k].tabs /\ ledger'[k].group = ledger[k].group
<1>1. WellFormed(l)
  BY LessIsUnambiguous DEF WellFormed
<1>2. QED  BY <1>1 DEF Stored

LEMMA PlaceRevoke ==
    ASSUME TypeInv, NEW o \in Op, Alone(o), AllPlaced, Holds(o), Revoke(o)
    PROVE  AllPlaced' /\ Holds(o)'
<1> DEFINE c == call[o]
<1> DEFINE u == IF c.then = "group" THEN c.tab ELSE Subject(c)
<1>1. c.pc = "revoke" /\ Stored(Revoked(u))
  BY MovesRevoke
<1>2. Heard \subseteq Heard' /\ \A t, g : InGroup(t, g) => InGroup(t, g)'
  BY DEF Revoke, chromeVars, Heard, InGroup, IsOpen
<1>3. Holds(o)'
  <2>1. Finished(o) \/ \E x \in Call : Becomes(o, x) /\ x.pc \in {"publish", "group"}
    BY MovesRevoke DEF Walks
  <2>2. QED  BY <2>1, OverHolds, HoldsAnyhow DEF Becomes
<1>4. \A k \in Task : /\ Revoked(u)[k].tabs = ledger[k].tabs \ {u}
                      /\ Revoked(u)[k].created = ledger[k].created \ {u}
                      /\ Revoked(u)[k].group \in {ledger[k].group, NoGroup}
                      /\ Revoked(u)[k].group # ledger[k].group => Revoked(u)[k].tabs = {}
  BY RevokedIs
<1>5. \A k \in Task : ledger[k].created \subseteq ledger[k].tabs
  BY LedgerFacts
<1>6. /\ ledger' = Revoked(u)
      /\ \A k \in Task : \A t \in ledger'[k].tabs :
            t \in ledger[k].tabs /\ ledger'[k].group = ledger[k].group
  BY <1>1, <1>4, <1>5, LessIsStored
<1>7. \A t : Checks(c, t) => t = u
  <2>1. CallOK(c)
    BY CallFacts
  <2>2. ASSUME c.kind \in {"moved", "removed"}
        PROVE  c.then # "group" /\ c.parent = None
    BY <1>1, <2>1, <2>2 DEF CallOK, InGrant, Grants
  <2>3. QED  BY <1>1, <2>2 DEF Checks, Subject
<1>8. ASSUME NEW k \in Task, NEW t \in ledger'[k].tabs
      PROVE  /\ t \in ledger[k].tabs /\ ledger'[k].group = ledger[k].group
             /\ InGroup(t, ledger[k].group) => InGroup(t, ledger[k].group)'
             /\ ~Checks(c, t)
  <2>1. PICK g : g = ledger[k].group
    OBVIOUS
  <2>2. t # u
    BY <1>4, <1>6, <1>8
  <2>3. InGroup(t, g) => InGroup(t, g)'
    BY <1>2
  <2>4. QED  BY <1>6, <1>7, <1>8, <2>1, <2>2, <2>3
<1>9. QED  BY <1>1, <1>2, <1>3, <1>8, PlacesKept

LEMMA PlaceReconcile ==
    ASSUME TypeInv, NEW o \in Op, Alone(o), AllPlaced, Holds(o), ReconcileBegin(o)
    PROVE  AllPlaced' /\ Holds(o)'
<1>1. PICK x \in Call :
         /\ Walks(o, x, {"pc", "pairs"}) /\ x.pc = "sweep"
         /\ x.pairs = {<<t, tab[t].group>> : t \in {u \in Tab : IsOpen(u)}}
  BY MovesReconcileBegin
<1>2. call[o].pc = "queued" /\ call'[o] = x
  BY <1>1, MovesReconcileBegin DEF Walks, Becomes
<1>3. UNCHANGED <<ledger, tab, events>>
  BY DEF ReconcileBegin, Quietly, chromeVars, stored
<1>4. ASSUME NEW k \in Task, NEW t \in ledger'[k].tabs
      PROVE  Placed(k, t)'
  <2>1. PICK g : g = ledger[k].group /\ g = ledger'[k].group
    BY <1>3
  <2>2. g # NoGroup
    BY <1>3, <1>4, <2>1, LedgerFacts
  <2>3. <<t, g>> \in x.pairs => InGroup(t, g)
    <3>1. ASSUME NEW u \in Tab, IsOpen(u), <<t, g>> = <<u, tab[u].group>>
          PROVE  InGroup(t, g)
      <4>1. t = u /\ g = tab[u].group
        BY <3>1
      <4>2. QED  BY <2>2, <3>1, <4>1 DEF InGroup
    <3>2. QED  BY <1>1, <3>1
  <2>4. InGroup(t, g) => InGroup(t, g)'
    BY <1>3 DEF InGroup, IsOpen
  <2>5. QED  BY <1>1, <1>2, <2>1, <2>3, <2>4 DEF Placed
<1>5. AllPlaced'
  BY <1>4 DEF AllPlaced
<1>6. QED  BY <1>1, <1>2, <1>5, HoldsAnyhow

LEMMA PlaceSweep ==
    ASSUME TypeInv, NEW o \in Op, Alone(o), AllPlaced, Holds(o), Sweep(o)
    PROVE  AllPlaced' /\ Holds(o)'
<1> DEFINE c == call[o]
<1>1. c.pc = "sweep" /\ Stored(Swept(c.pairs))
  BY MovesSweep
<1>2. Heard \subseteq Heard' /\ \A t, g : InGroup(t, g) => InGroup(t, g)'
  BY DEF Sweep, chromeVars, Heard, InGroup, IsOpen
<1>3. Holds(o)'
  <2>1. \E x \in Call : Becomes(o, x) /\ x.pc = "publish"
    BY MovesSweep DEF Walks
  <2>2. QED  BY <2>1, HoldsAnyhow DEF Becomes
<1>4. \A k \in Task : /\ Swept(c.pairs)[k].tabs = ledger[k].tabs \ Gone(k, c.pairs)
                      /\ Swept(c.pairs)[k].created = ledger[k].created \ Gone(k, c.pairs)
                      /\ Swept(c.pairs)[k].group \in {ledger[k].group, NoGroup}
                      /\ Swept(c.pairs)[k].group # ledger[k].group => Swept(c.pairs)[k].tabs = {}
  BY SweptIs
<1>5. \A k \in Task : ledger[k].created \subseteq ledger[k].tabs
  BY LedgerFacts
<1>6. /\ ledger' = Swept(c.pairs)
      /\ \A k \in Task : \A t \in ledger'[k].tabs :
            t \in ledger[k].tabs /\ ledger'[k].group = ledger[k].group
  BY <1>1, <1>4, <1>5, LessIsStored
<1>7. ASSUME NEW k \in Task, NEW t \in ledger'[k].tabs
      PROVE  /\ t \in ledger[k].tabs /\ ledger'[k].group = ledger[k].group
             /\ InGroup(t, ledger[k].group) => InGroup(t, ledger[k].group)'
             /\ ~Checks(c, t)
             /\ <<t, ledger[k].group>> \in c.pairs
  <2>1. PICK g : g = ledger[k].group
    OBVIOUS
  <2>2. InGroup(t, g) => InGroup(t, g)'
    BY <1>2
  <2>3. t \notin Gone(k, c.pairs) /\ t \in ledger[k].tabs
    BY <1>4, <1>6, <1>7
  <2>4. <<t, ledger[k].group>> \in c.pairs
    BY <2>3 DEF Gone
  <2>5. ~Checks(c, t)
    BY <1>1 DEF Checks
  <2>6. QED  BY <1>6, <1>7, <2>1, <2>2, <2>4, <2>5
<1>8. QED  BY <1>2, <1>3, <1>7, PlacesKept

LEMMA PlaceEnd ==
    ASSUME TypeInv, NEW o \in Op, Alone(o), AllPlaced, Holds(o), EndBegin(o) \/ Classify(o)
    PROVE  AllPlaced' /\ Holds(o)'
<1> DEFINE c == call[o]
<1>1. UNCHANGED <<ledger, tab, events>>
  BY DEF EndBegin, Classify, Quietly, chromeVars, stored
<1>2. c.pc \in {"queued", "classify"} /\ c.kind \in EndKinds
  <2>1. EndBegin(o) => c.pc = "queued" /\ c.kind \in EndKinds
    BY MovesEndBegin
  <2>2. Classify(o) => c.pc = "classify"
    BY MovesClassify
  <2>3. CallOK(c)
    BY CallFacts
  <2>4. QED  BY <2>1, <2>2, <2>3 DEF CallOK, Ending
<1>3. AllPlaced'
  BY <1>1, <1>2, PlacesQuietKept DEF EndKinds
<1>4. CASE EndBegin(o)
  <2>1. c.doomed = {}
    BY <1>2, MovesEndBegin DEF Holds, Knows
  <2>2. ASSUME NEW x \in Call, Walks(o, x, {"pc", "seen", "keep"}),
               x.pc \in {"forget", "classify"}, x.seen = ledger[c.task],
               x.keep \subseteq x.seen.tabs
        PROVE  Holds(o)'
    <3>1. call'[o] = x /\ x.task = c.task /\ x.doomed = {}
      BY <2>1, <2>2 DEF Walks, Becomes, Keeps
    <3>2. ledger'[x.task] = x.seen /\ x.keep \cup x.doomed \subseteq x.seen.tabs
      BY <1>1, <2>2, <3>1
    <3>3. QED  BY <2>2, <3>1, <3>2 DEF Holds, Knows, Grouped
  <2>3. \/ Finished(o)
        \/ \E x \in Call : /\ Walks(o, x, {"pc", "seen", "keep"})
                           /\ x.pc \in {"forget", "classify"} /\ x.seen = ledger[c.task]
                           /\ x.keep \subseteq x.seen.tabs
    BY <1>4, MovesEndBegin
  <2>4. QED  BY <1>3, <2>2, <2>3, OverHolds
<1>5. CASE Classify(o)
  <2>1. PICK x \in Call :
           /\ Walks(o, x, {"pc", "keep", "doomed"}) /\ x.pc = "forget"
           /\ x.keep = {t \in c.seen.tabs : IsOpen(t)
                          /\ (t \in c.keep \/ ~InGroup(t, c.seen.group))}
           /\ x.doomed = {t \in c.seen.tabs \ c.keep : InGroup(t, c.seen.group)}
    BY <1>5, MovesClassify
  <2>2. call'[o] = x /\ x.task = c.task /\ x.seen = c.seen
    BY <2>1 DEF Walks, Becomes, Keeps
  <2>3. ledger[c.task] = c.seen
    BY <1>5, MovesClassify DEF Holds, Knows
  <2>4. x.keep \cup x.doomed \subseteq x.seen.tabs /\ ledger'[x.task] = x.seen
    BY <1>1, <2>1, <2>2, <2>3
  <2>5. Holds(o)'
    BY <2>1, <2>2, <2>4 DEF Holds, Knows, Grouped
  <2>6. QED  BY <1>3, <2>5
<1>6. QED  BY <1>4, <1>5

(* The record goes, and its tabs are of no task: no other has them. *)
LEMMA PlaceForget ==
    ASSUME TypeInv, NEW o \in Op, Alone(o), AllPlaced, Holds(o), Forget(o)
    PROVE  AllPlaced' /\ Holds(o)'
<1> DEFINE c == call[o]
<1> DEFINE l == [ledger EXCEPT ![c.task] = NoTask]
<1>1. c.pc = "forget" /\ c.task \in Task /\ Stored(l)
  BY MovesForget
<1>2. Heard \subseteq Heard' /\ \A t, g : InGroup(t, g) => InGroup(t, g)'
  BY DEF Forget, chromeVars, Heard, InGroup, IsOpen
<1>3. /\ ledger \in [Task -> TaskRecord] /\ l[c.task] = NoTask
      /\ \A k \in Task : k # c.task => l[k] = ledger[k]
  BY <1>1, LedgerType
<1>4. \A k \in Task : /\ l[k].tabs \subseteq ledger[k].tabs
                      /\ l[k].created \subseteq l[k].tabs
                      /\ l[k].group \in {ledger[k].group, NoGroup}
                      /\ l[k].group # ledger[k].group => l[k].tabs = {}
  BY <1>3, NoTaskIs, LedgerFacts
<1>5. /\ ledger' = l
      /\ \A k \in Task : \A t \in ledger'[k].tabs :
            t \in ledger[k].tabs /\ ledger'[k].group = ledger[k].group
  BY <1>1, <1>4, LessIsStored
<1>6. \A t \in ledger[c.task].tabs : ~Owned(t)'
  <2>1. ASSUME NEW t \in ledger[c.task].tabs, NEW k \in Task, t \in ledger'[k].tabs
        PROVE  FALSE
    <3>1. k = c.task
      BY <1>1, <1>5, <2>1 DEF TypeInv, WellFormed, Unambiguous
    <3>2. QED  BY <1>3, <1>5, <2>1, <3>1, NoTaskIs
  <2>2. QED  BY <2>1 DEF Owned, Owners
<1>7. Holds(o)'
  <2>1. PICK x \in Call :
           /\ Walks(o, x, {"pc", "doomed"}) /\ x.pc = "release"
           /\ x.doomed = IF c.kind = "close" THEN ledger[c.task].tabs ELSE c.doomed
    BY MovesForget
  <2>2. call'[o] = x /\ x.keep = c.keep
    BY <2>1 DEF Walks, Becomes, Keeps
  <2>3. ledger[c.task] = c.seen /\ c.keep \cup c.doomed \subseteq c.seen.tabs
    BY <1>1 DEF Holds, Knows
  <2>4. x.keep \cup x.doomed \subseteq ledger[c.task].tabs
    BY <2>1, <2>2, <2>3
  <2>5. \A t \in x.keep \cup x.doomed : ~Owned(t)'
    BY <1>6, <2>4
  <2>6. QED  BY <2>1, <2>2, <2>5 DEF Holds, Knows, Grouped
<1>8. ASSUME NEW k \in Task, NEW t \in ledger'[k].tabs
      PROVE  /\ t \in ledger[k].tabs /\ ledger'[k].group = ledger[k].group
             /\ InGroup(t, ledger[k].group) => InGroup(t, ledger[k].group)'
             /\ ~Checks(c, t)
  <2>1. PICK g : g = ledger[k].group
    OBVIOUS
  <2>2. InGroup(t, g) => InGroup(t, g)'
    BY <1>2
  <2>3. QED  BY <1>1, <1>5, <1>8, <2>1, <2>2 DEF Checks
<1>9. QED  BY <1>1, <1>2, <1>7, <1>8, PlacesKept

(* What an end lets go of or closes is in no record any more. *)
LEMMA PlaceRelease ==
    ASSUME TypeInv, NEW o \in Op, Alone(o), AllPlaced, Holds(o), Release(o) \/ Remove(o)
    PROVE  AllPlaced' /\ Holds(o)'
<1> DEFINE c == call[o]
<1>1. /\ c.pc \in {"release", "remove"} /\ c \in Call
      /\ c.pc = "release" => c.keep \subseteq Tab
  BY MovesRelease, MovesRemove, CallFacts
<1>2. UNCHANGED <<ledger, events>>
  BY DEF Release, Remove, stored
<1>3. \A t \in c.keep \cup c.doomed : ~Owned(t)
  BY <1>1 DEF Holds, Knows
<1>4. \E ts \in SUBSET (Tab \cap (c.keep \cup c.doomed)) : Closes(ts) \/ Lets(ts)
  <2>1. CASE Release(o)
    <3>1. PICK ts : ts = {t \in c.keep : InGroup(t, c.seen.group)}
      OBVIOUS
    <3>2. Lets(ts)
      BY <2>1, <3>1 DEF Release, Lets
    <3>3. ts \in SUBSET (Tab \cap (c.keep \cup c.doomed))
      BY <3>1 DEF InGroup, IsOpen
    <3>4. QED  BY <3>2, <3>3
  <2>2. CASE Remove(o)
    <3>1. PICK held \in SUBSET {t \in c.doomed : IsOpen(t)} : Closes(c.doomed \ held)
      BY <2>2 DEF Remove
    <3>2. c.doomed \subseteq Tab
      BY <1>1 DEF Call
    <3>3. c.doomed \ held \in SUBSET (Tab \cap (c.keep \cup c.doomed))
      BY <3>2
    <3>4. QED  BY <3>1, <3>3
  <2>3. QED  BY <2>1, <2>2
<1>5. PICK ts \in SUBSET (Tab \cap (c.keep \cup c.doomed)) : Closes(ts) \/ Lets(ts)
  BY <1>4
<1>6. ASSUME NEW k \in Task, NEW t \in ledger[k].tabs
      PROVE  /\ InGroup(t, ledger[k].group) => InGroup(t, ledger[k].group)'
             /\ ~Checks(c, t)
  <2>1. PICK g : g = ledger[k].group /\ g = ledger'[k].group
    BY <1>2
  <2>2. Owned(t)
    BY <1>6 DEF Owned, Owners
  <2>3. t \notin ts /\ ts \in SUBSET Tab
    BY <1>3, <1>5, <2>2
  <2>4. InGroup(t, g) => InGroup(t, g)'
    BY <1>5, <2>3, TabsKeep
  <2>5. ~Checks(c, t)
    BY <1>1 DEF Checks
  <2>6. QED  BY <2>1, <2>4, <2>5
<1>7. AllPlaced'
  <2>1. Heard \subseteq Heard'
    BY <1>2 DEF Heard
  <2>2. QED  BY <1>1, <1>2, <1>6, <2>1, PlacesAsideKept
<1>8. CASE Release(o)
  <2>1. PICK x \in Call :
           /\ Walks(o, x, {"pc", "doomed"}) /\ x.pc = "remove"
           /\ x.doomed = {t \in c.doomed : InGroup(t, c.seen.group)}
    BY <1>8, MovesRelease
  <2>2. call'[o] = x /\ x.keep = c.keep
    BY <2>1 DEF Walks, Becomes, Keeps
  <2>3. x.doomed \subseteq c.doomed
    BY <2>1
  <2>4. \A t \in x.keep \cup x.doomed : ~Owned(t)
    BY <1>3, <2>2, <2>3
  <2>5. \A t \in x.keep \cup x.doomed : ~Owned(t)'
    BY <1>2, <2>4 DEF Owned, Owners
  <2>6. Holds(o)'
    BY <2>1, <2>2, <2>5 DEF Holds, Knows, Grouped
  <2>7. QED  BY <1>7, <2>6
<1>9. CASE Remove(o)
  <2>1. \E x \in Call : Becomes(o, x) /\ x.pc = "publish"
    BY <1>9, MovesRemove DEF Walks
  <2>2. QED  BY <1>7, <2>1, HoldsAnyhow DEF Becomes
<1>10. QED  BY <1>8, <1>9

LEMMA PlacePublish ==
    ASSUME TypeInv, NEW o \in Op, Alone(o), AllPlaced, Holds(o), PublishRead(o) \/ PublishSend(o)
    PROVE  AllPlaced' /\ Holds(o)'
<1>1. UNCHANGED <<ledger, tab, events>> /\ call[o].pc \in {"publish", "send"}
  BY DEF PublishRead, PublishSend, Quietly, chromeVars, stored, At
<1>2. Finished(o) \/ \E x \in Call : Becomes(o, x) /\ x.pc \in {"send", "group"}
  BY MovesPublishRead, MovesPublishSend DEF Walks
<1>3. QED  BY <1>1, <1>2, PlacesQuietKept, OverHolds, HoldsAnyhow DEF Becomes

LEMMA PlaceStepAlone ==
    ASSUME TypeInv, GroupsInv, NEW o \in Op, Alone(o), AllPlaced, Holds(o), Steps(o)
    PROVE  AllPlaced' /\ Holds(o)'
<1>1. CASE AssertBegin(o) \/ AssertCheck(o) \/ AssertRecheck(o)
  BY <1>1, PlaceAssert
<1>2. CASE \E t \in Tab : OpenBegin(o, t) \/ AdoptBegin(o, t)
  BY <1>2, PlaceBegin
<1>3. CASE GrantLook(o) \/ GrantMark(o) \/ GrantGroup(o) \/ GrantVerify(o)
             \/ GrantRecord(o) \/ GrantUndo(o) \/ Discard(o)
  BY <1>3, PlaceLook, PlaceMark, PlaceGroup, PlaceVerify, PlaceRecord, PlaceUndo, PlaceDiscard
<1>4. CASE RevokeBegin(o) \/ MovedBegin(o) \/ MovedWhere(o) \/ Revoke(o)
  BY <1>4, PlaceMoved, PlaceRevoke
<1>5. CASE ReconcileBegin(o) \/ Sweep(o)
  BY <1>5, PlaceReconcile, PlaceSweep
<1>6. CASE EndBegin(o) \/ Classify(o) \/ Forget(o) \/ Release(o) \/ Remove(o)
  BY <1>6, PlaceEnd, PlaceForget, PlaceRelease
<1>7. CASE PublishRead(o) \/ PublishSend(o)
  BY <1>7, PlacePublish
<1>8. QED  BY <1>1, <1>2, <1>3, <1>4, <1>5, <1>6, <1>7 DEF Steps

(* What happens beside the operation that works. *)
LEMMA PlacesBeside ==
    ASSUME AllPlaced, \A q \in Op : Holds(q), UNCHANGED ledger,
           \A t, g : InGroup(t, g) => InGroup(t, g)' \/ Told(t)',
           \A t : Handled(t) => Handled(t)',
           \A q \in Op : \/ call'[q] = call[q]
                         \/ /\ call[q].pc # "sweep"
                            /\ call'[q].pc \in {"idle", "queued", "publish", "send"}
                            /\ call'[q].pc = "queued" => call'[q].doomed = {}
    PROVE  AllPlaced' /\ \A q \in Op : Holds(q)'
<1>1. ASSUME NEW k \in Task, NEW t \in ledger[k].tabs
      PROVE  Placed(k, t)'
  <2>1. PICK g : g = ledger[k].group /\ g = ledger'[k].group
    OBVIOUS
  <2>2. Placed(k, t)
    BY <1>1 DEF AllPlaced
  <2>3. InGroup(t, g) => InGroup(t, g)' \/ Handled(t)'
    BY DEF Handled
  <2>4. ASSUME NEW q \in Op, call[q].pc = "sweep", <<t, g>> \notin call[q].pairs
        PROVE  call'[q].pc = "sweep" /\ <<t, g>> \notin call'[q].pairs
    BY <2>4
  <2>5. QED  BY <2>1, <2>2, <2>3, <2>4 DEF Placed
<1>2. ASSUME NEW q \in Op, call'[q] = call[q]
      PROVE  Holds(q)'
  <2>1. PICK t, g : t = call[q].tab /\ g = call[q].group
    OBVIOUS
  <2>2. InGroup(t, g) \/ Handled(t) => InGroup(t, g)' \/ Handled(t)'
    BY DEF Handled
  <2>3. Holds(q)
    OBVIOUS
  <2>4. Grouped(call[q])'
    BY <1>2, <2>1, <2>2, <2>3 DEF Holds, Grouped
  <2>5. Knows(call[q])'
    BY <1>2, <2>3 DEF Holds, Knows, Owned, Owners
  <2>6. QED  BY <2>4, <2>5 DEF Holds
<1>3. ASSUME NEW q \in Op, call'[q].pc \in {"idle", "queued", "publish", "send"},
             call'[q].pc = "queued" => call'[q].doomed = {}
      PROVE  Holds(q)'
  BY <1>3 DEF Holds, Knows, Grouped
<1>4. QED  BY <1>1, <1>2, <1>3 DEF AllPlaced

(* The user and the pages: a tab that leaves its group is heard of. *)
LEMMA PlaceChrome ==
    ASSUME TypeInv, AllPlaced, \A q \in Op : Holds(q), Chrome
    PROVE  AllPlaced' /\ \A q \in Op : Holds(q)'
<1>1. UNCHANGED <<ledger, call>>
  BY ChromeStays DEF LedgerStays
<1>2. /\ Heard \subseteq Heard'
      /\ \A t, g : InGroup(t, g) => InGroup(t, g)' \/ Told(t)'
  <2>1. CASE TabsStay /\ UNCHANGED events
    BY <2>1 DEF TabsStay, Heard, InGroup, IsOpen
  <2>2. ASSUME NEW u \in Tab, UserOpens(u)
        PROVE  Heard \subseteq Heard' /\ \A t, g : InGroup(t, g) => InGroup(t, g)'
    <3>1. Opens(u, "user") /\ UNCHANGED events
      BY <2>2 DEF UserOpens
    <3>2. QED  BY <3>1, TabsKeep DEF Heard
  <2>3. ASSUME NEW u \in Tab, NEW p \in Tab, PageOpens(u, p)
        PROVE  Heard \subseteq Heard' /\ \A t, g : InGroup(t, g) => InGroup(t, g)'
    <3>1. Opens(u, "child") /\ Raise("child", u, p)
      BY <2>3 DEF PageOpens
    <3>2. QED  BY <3>1, TabsKeep, HeardRaised
  <2>4. ASSUME NEW u \in Tab, NEW kind \in {"moved", "removed"}, Leaves(kind, u)
        PROVE  Heard \subseteq Heard' /\ Told(u)'
    <3>1. PICK e : e = [kind |-> kind, tab |-> u, parent |-> None]
      OBVIOUS
    <3>2. Heard \subseteq Heard' /\ e \in Heard' /\ e.kind \in {"moved", "removed"} /\ e.tab = u
      BY <2>4, <3>1, HeardLeaves
    <3>3. QED  BY <3>2 DEF Told
  <2>5. ASSUME NEW u \in Tab, UserCloses(u)
        PROVE  Heard \subseteq Heard' /\ \A t, g : InGroup(t, g) => InGroup(t, g)' \/ Told(t)'
    <3>1. Closes({u}) /\ Leaves("removed", u) /\ {u} \in SUBSET Tab
      BY <2>5 DEF UserCloses
    <3>2. Heard \subseteq Heard' /\ Told(u)'
      BY <2>4, <3>1
    <3>3. ASSUME NEW t, NEW g, InGroup(t, g)
          PROVE  t = u \/ InGroup(t, g)'
      <4>1. t \in {u} \/ InGroup(t, g)'
        BY <3>1, <3>3, TabsKeep
      <4>2. QED  BY <4>1
    <3>4. QED  BY <3>2, <3>3
  <2>6. ASSUME NEW u \in Tab, NEW h \in Groups, UserMoves(u, h)
        PROVE  Heard \subseteq Heard' /\ \A t, g : InGroup(t, g) => InGroup(t, g)' \/ Told(t)'
    <3>1. Moves(u, h) /\ Leaves("moved", u)
      BY <2>6 DEF UserMoves, Moves
    <3>2. Heard \subseteq Heard' /\ Told(u)'
      BY <2>4, <3>1
    <3>3. ASSUME NEW t, NEW g, InGroup(t, g)
          PROVE  t = u \/ InGroup(t, g)'
      BY <3>1, <3>3, TabsKeep
    <3>4. QED  BY <3>2, <3>3
  <2>7. QED  BY <2>1, <2>2, <2>3, <2>5, <2>6, ChromeStays
<1>3. \A t : Handled(t) => Handled(t)'
  BY <1>1, <1>2 DEF Handled, Told
<1>4. QED  BY <1>1, <1>2, <1>3, PlacesBeside

LEMMA PlaceBegun ==
    ASSUME TypeInv, AllPlaced, \A q \in Op : Holds(q), Commands \/ \E o \in Op : Deliver(o)
    PROVE  AllPlaced' /\ \A q \in Op : Holds(q)'
<1>1. UNCHANGED <<ledger, tab>>
  BY CommandsStay, DeliverStays DEF LedgerStays, TabsStay
<1>2. \A t, g : InGroup(t, g) => InGroup(t, g)'
  BY <1>1 DEF InGroup, IsOpen
<1>3. PICK o \in Op, x \in Call :
         /\ call[o].pc = "idle" /\ Becomes(o, x) /\ x.doomed = {}
         /\ x.pc \in {"queued", "publish"}
  BY Begun
<1>4. call'[o] = x /\ \A q \in Op : q # o => call'[q] = call[q]
  BY <1>3 DEF Becomes
<1>5. ASSUME NEW t, Handled(t)
      PROVE  Handled(t)'
  <2>1. ASSUME NEW q \in Op, Checks(call[q], t)
        PROVE  Handled(t)'
    <3>1. q # o
      BY <1>3, <2>1 DEF Checks
    <3>2. Checks(call'[q], t)
      BY <1>4, <2>1, <3>1
    <3>3. QED  BY <3>2 DEF Handled
  <2>2. CASE Told(t) /\ Commands
    BY <2>2, CommandsStay DEF Told, Heard, Handled
  <2>3. ASSUME Told(t), NEW p \in Op, Deliver(p)
        PROVE  Handled(t)'
    <3>1. PICK y \in Call, e \in Heard :
             /\ Becomes(p, y) /\ y.pc = "queued" /\ y.kind = e.kind /\ y.tab = e.tab
             /\ \A f \in Heard : f = e \/ f \in Heard'
      BY <2>3, MovesDeliver
    <3>2. PICK f \in Heard : (f.kind \in {"moved", "removed"} /\ f.tab = t) \/ f.kind = "reconcile"
      BY <2>3 DEF Told
    <3>3. CASE f \in Heard'
      BY <3>2, <3>3 DEF Told, Handled
    <3>4. CASE f = e
      <4>1. Checks(y, t) /\ call'[p] = y
        BY <3>1, <3>2, <3>4 DEF Checks, Becomes
      <4>2. QED  BY <4>1 DEF Handled
    <3>5. QED  BY <3>1, <3>3, <3>4
  <2>4. QED  BY <1>5, <2>1, <2>2, <2>3 DEF Handled
<1>6. QED  BY <1>1, <1>2, <1>3, <1>4, <1>5, PlacesBeside

(* A publication beside the chain. *)
LEMMA AnnounceMoves ==
    ASSUME TypeInv, NEW o \in Op, Steps(o), call[o].kind = "announce"
    PROVE  /\ UNCHANGED <<ledger, tab, events, touched, letGo>>
           /\ call[o].pc \in {"publish", "send"} /\ call[o].then = "done"
           /\ \/ call'[o] = Idle
              \/ /\ call'[o].pc = "send" /\ call'[o].then = "done"
                 /\ call'[o].kind = "announce"
           /\ \A q \in Op : q # o => call'[q] = call[q]
<1>1. call[o].pc \in {"publish", "send"} /\ call[o].then = "done"
  BY CallFacts DEF CallOK
<1>2. PublishRead(o) \/ PublishSend(o)
  <2>1. /\ ~(AssertBegin(o) \/ AssertCheck(o) \/ AssertRecheck(o))
        /\ ~(\E t \in Tab : OpenBegin(o, t) \/ AdoptBegin(o, t))
    BY <1>1, MovesAssertBegin, MovesAssertCheck, MovesAssertRecheck, MovesBegin
  <2>2. ~(GrantLook(o) \/ GrantMark(o) \/ GrantGroup(o) \/ GrantVerify(o))
    BY <1>1, MovesLook, MovesMark, MovesGroup, MovesVerify
  <2>3. ~(GrantRecord(o) \/ GrantUndo(o) \/ Discard(o))
    BY <1>1, MovesRecord, MovesUndo, MovesDiscard
  <2>4. ~(RevokeBegin(o) \/ MovedBegin(o) \/ MovedWhere(o) \/ Revoke(o))
    BY <1>1, MovesRevokeBegin, MovesMovedBegin, MovesMovedWhere, MovesRevoke
  <2>5. ~(ReconcileBegin(o) \/ Sweep(o) \/ EndBegin(o))
    BY <1>1, MovesReconcileBegin, MovesSweep, MovesEndBegin
  <2>6. ~(Classify(o) \/ Forget(o) \/ Release(o) \/ Remove(o))
    BY <1>1, MovesClassify, MovesForget, MovesRelease, MovesRemove
  <2>7. QED  BY <2>1, <2>2, <2>3, <2>4, <2>5, <2>6 DEF Steps
<1>3. UNCHANGED <<ledger, tab, events, touched, letGo>>
  BY <1>2 DEF PublishRead, PublishSend, Quietly, chromeVars, stored, ghosts
<1>4. ASSUME PublishRead(o)
      PROVE  \E x \in Call : /\ Becomes(o, x) /\ x.pc = "send" /\ x.then = "done"
                            /\ x.kind = "announce"
  BY <1>1, <1>4, MovesPublishRead DEF Walks, Keeps
<1>5. PublishSend(o) => Becomes(o, Idle)
  BY <1>1, MovesPublishSend, Over
<1>6. QED  BY <1>1, <1>2, <1>3, <1>4, <1>5 DEF Becomes

LEMMA PlaceAnnounced ==
    ASSUME TypeInv, AllPlaced, \A q \in Op : Holds(q), NEW o \in Op, Steps(o),
           call[o].kind = "announce"
    PROVE  AllPlaced' /\ \A q \in Op : Holds(q)'
<1>1. call[o].pc \in {"publish", "send"} /\ call[o].then = "done"
  BY AnnounceMoves
<1>2. UNCHANGED <<ledger, tab, events>>
  BY AnnounceMoves
<1>3. /\ call'[o].pc \in {"idle", "send"}
      /\ \A q \in Op : q # o => call'[q] = call[q]
  BY AnnounceMoves DEF Idle
<1>4. \A t, g : InGroup(t, g) => InGroup(t, g)'
  BY <1>2 DEF InGroup, IsOpen
<1>5. ASSUME NEW t, Handled(t)
      PROVE  Handled(t)'
  <2>1. Told(t) => Told(t)'
    BY <1>2 DEF Told, Heard
  <2>2. ASSUME NEW q \in Op, Checks(call[q], t)
        PROVE  Checks(call'[q], t)
    BY <1>1, <1>3, <2>2 DEF Checks
  <2>3. QED  BY <1>5, <2>1, <2>2 DEF Handled
<1>6. QED  BY <1>1, <1>2, <1>3, <1>4, <1>5, PlacesBeside

(* The next worker reconciles first. *)
LEMMA PlaceRestarted ==
    ASSUME TypeInv, Restart
    PROVE  AllPlaced' /\ \A q \in Op : Holds(q)'
<1>1. PICK o \in Op, x \in Call :
         /\ call'[o] = x /\ x.pc = "queued" /\ x.kind = "reconcile"
         /\ Keeps(x, Idle, {"pc", "kind"})
         /\ \A q \in Op : q # o => call'[q] = Idle
  BY MovesRestart
<1>2. \A t : Checks(call'[o], t)
  BY <1>1 DEF Checks
<1>3. AllPlaced'
  BY <1>2 DEF AllPlaced, Placed, Handled
<1>4. x.doomed = {} /\ Idle.pc = "idle"
  BY <1>1 DEF Keeps, Idle
<1>5. \A q \in Op : Holds(q)'
  BY <1>1, <1>4 DEF Holds, Knows, Grouped
<1>6. QED  BY <1>3, <1>5

LEMMA PlaceStep ==
    ASSUME TypeInv, ChainInv, GroupsInv, PlaceInv, Next
    PROVE  PlaceInv'
<1>1. SUFFICES ASSUME Orderly'
               PROVE  AllPlaced' /\ \A q \in Op : Holds(q)'
  BY DEF PlaceInv, Holds
<1>2. UNCHANGED overruns \/ Overrun
  BY CommandsStay, DeliverStays, StepsStay, ChromeStays, FaultStays DEF Next, FaultsStay, Restart
<1>3. ~Overrun
  BY <1>1 DEF Overrun, ChainInv, Orderly
<1>4. Orderly /\ AllPlaced /\ \A q \in Op : Holds(q)
  BY <1>1, <1>2, <1>3 DEF PlaceInv, Holds, Orderly
<1>5. CASE Commands \/ \E o \in Op : Deliver(o)
  BY <1>4, <1>5, PlaceBegun
<1>6. CASE Chrome
  BY <1>4, <1>6, PlaceChrome
<1>7. CASE Restart
  BY <1>7, PlaceRestarted
<1>8. ASSUME NEW o \in Op, Steps(o)
      PROVE  AllPlaced' /\ \A q \in Op : Holds(q)'
  <2>1. CASE call[o].kind = "announce"
    BY <1>4, <1>8, <2>1, PlaceAnnounced
  <2>2. CASE call[o].kind # "announce"
    <3>1. Alone(o)
      BY <1>4, <1>8, <2>2, StepsAlone
    <3>2. AllPlaced' /\ Holds(o)'
      BY <1>4, <1>8, <3>1, PlaceStepAlone
    <3>3. ASSUME NEW q \in Op, q # o
          PROVE  Holds(q)'
      <4>1. call'[q] = call[q] /\ ~Works(call[q]) /\ CallOK(call[q])
        BY <3>1, <3>3, CallFacts DEF Alone
      <4>2. call[q].pc = "queued" => call[q].doomed = {}
        BY <1>4 DEF Holds, Knows
      <4>3. call[q].pc \in {"idle", "queued", "publish", "send"}
        BY <4>1 DEF Works, CallOK
      <4>4. QED  BY <4>1, <4>2, <4>3 DEF Holds, Knows, Grouped
    <3>4. QED  BY <3>2, <3>3
  <2>3. QED  BY <2>1, <2>2
<1>9. QED  BY <1>3, <1>5, <1>6, <1>7, <1>8 DEF Next

LEMMA PlaceInit ==
    ASSUME Init
    PROVE  PlaceInv
<1>1. (\A k \in Task : ledger[k] = NoTask) /\ \A o \in Op : call[o] = Idle
  BY DEF Init
<1>2. AllPlaced
  BY <1>1, NoTaskIs DEF AllPlaced
<1>3. Knows(Idle) /\ Grouped(Idle)
  BY DEF Knows, Grouped, Idle
<1>4. QED  BY <1>1, <1>2, <1>3 DEF PlaceInv

LEMMA PlaceStutter ==
    ASSUME ChainInv, PlaceInv, UNCHANGED vars
    PROVE  ChainInv' /\ PlaceInv'
<1>1. UNCHANGED <<tab, events, ledger, call, chain, overruns>>
  BY DEF vars, chromeVars, stored, faults
<1>2. ChainInv'
  BY <1>1 DEF ChainInv, Orderly, Works
<1>3. PlaceInv'
  BY <1>1 DEF PlaceInv, Orderly, AllPlaced, Placed, Knows, Grouped, Handled, Told, Heard,
     InGroup, IsOpen, Owned, Owners
<1>4. QED  BY <1>2, <1>3

(* With no event to come and every operation over, nothing is left to handle. *)
LEMMA PlacedAtRest ==
    ASSUME PlaceInv
    PROVE  LedgerMatchesChrome
<1>1. ASSUME Quiet, Orderly, NEW k \in Task, NEW t \in ledger[k].tabs
      PROVE  InGroup(t, ledger[k].group)
  <2>1. Placed(k, t)
    BY <1>1 DEF PlaceInv, AllPlaced
  <2>2. Heard = {} /\ \A o \in Op : call[o].pc = "idle"
    BY <1>1 DEF Quiet, Heard
  <2>3. ~Handled(t)
    BY <2>2 DEF Handled, Told, Checks
  <2>4. QED  BY <2>1, <2>2, <2>3 DEF Placed
<1>2. QED  BY <1>1 DEF LedgerMatchesChrome

(* At rest the ledger (ownership.ts), the tab groups of Chrome and the inventory *)
(* of the host agree, and no tab is ever in two tasks: a tab that leaves its     *)
(* group, by the user, an undone grant or a discard, raises an event, and until  *)
(* revokeIfMoved, revoke or reconcile has handled it that event or operation is  *)
(* there.  While every operation ends within its hold nothing that one of them   *)
(* read of the ledger changes under it.                                          *)
THEOREM RecordsAgreed == Spec => []RecordsAgree
<1> DEFINE IInv == TypeInv /\ ChainInv /\ GroupsInv /\ HostInv /\ PlaceInv
<1>1. Init => IInv
  BY TypeInit, ChainInit, GroupsInit, HostInit, PlaceInit
<1>2. IInv /\ Next => IInv'
  BY TypeStep, ChainStep, GroupsStep, HostStep, PlaceStep
<1>3. IInv /\ UNCHANGED vars => IInv'
  BY TypeStutter, GroupsStutter, HostStutter, PlaceStutter
<1>4. IInv => RecordsAgree
  <2>1. TypeInv => TypeOK
    BY DEF TypeInv
  <2>2. GroupsInv => NothingAmbiguous
    BY DEF GroupsInv, NothingAmbiguous
  <2>3. HostInv => HostKnowsNoMore
    BY DEF HostInv, HostKnowsNoMore, Quiet, Informs, Late
  <2>4. QED  BY <2>1, <2>2, <2>3, PlacedAtRest DEF RecordsAgree
<1>5. QED  BY <1>1, <1>2, <1>3, <1>4, PTL DEF Spec

--------------------------------
(* What a grant leaves behind *)

Closed(t) == t \in Tab /\ tab[t].state = "closed"

(* The user moved it, or a task let it go. *)
Loose(t) == t \in touched \cup letGo

(* A tab that would be left behind if no task had it. *)
Needs(t) == IsOpen(t) /\ ~Loose(t) /\ (tab[t].by = "agent" \/ tab[t].group # NoGroup)

(* Operation c will record the tab, put it back, or close it. *)
Answers(c, t) ==
    \/ c.kind \in {"open", "request"} /\ InGrant(c) /\ c.tab = t
    \/ c.pc \in {"verify", "record", "undo"} /\ c.tab = t
    \/ c.pc = "release" /\ t \in c.keep \cup c.doomed
    \/ c.pc = "remove" /\ t \in c.doomed
AllAnswered == \A t \in Tab : Needs(t) => Owned(t) \/ \E o \in Op : Answers(call[o], t)

(* A grant that found the tab without an owner, or took it from its own task. *)
Unowned(c) ==
    c.pc \in {"group", "verify", "record", "undo"}
      \/ (c.pc \in {"publish", "send"} /\ c.then = "group")

(* What an operation knows of its tab. *)
TabKnown(c) ==
    /\ c.kind = "removed" => Closed(c.tab)
    /\ c.pc = "check" => c.seen = ledger[c.task] /\ Subject(c) \in c.seen.tabs
    /\ c.pc = "look" /\ c.kind \in {"open", "request"} =>
          tab[c.tab].group = NoGroup \/ c.tab \in touched
    /\ c.pc = "mark" => c.tab \in ledger[c.task].tabs
    /\ Unowned(c) =>
          /\ ~Owned(c.tab)
          /\ \/ Loose(c.tab)
             \/ c.was = NoGroup /\ (c.kind \in {"adopt", "child"} => tab[c.tab].by # "agent")
    /\ c.pc = "record" => c.tab \in touched \/ InGroup(c.tab, c.group) \/ Closed(c.tab)
    /\ c.pc = "where" =>
          \E k \in Task : c.tab \in ledger[k].tabs /\ c.group = ledger[k].group
    /\ c.pc = "revoke" => IF c.then = "group" THEN Loose(c.tab)
                                              ELSE Subject(c) \in touched \/ Closed(Subject(c))

(* What an operation knows of the tabs of its task, or of all tasks. *)
TabsKnown(c) ==
    /\ c.pc = "sweep" => \A k \in Task : \A t \in ledger[k].tabs :
          t \in touched \/ Closed(t) \/ <<t, ledger[k].group>> \in c.pairs
    /\ c.pc = "forget" /\ c.kind # "close" =>
          \A t \in c.seen.tabs : IsOpen(t) => t \in touched \cup c.keep \cup c.doomed
    /\ c.pc \in {"forget", "release"} =>
          \A t \in c.doomed : t \in touched \/ Closed(t) \/ InGroup(t, c.seen.group)

(* Only the user takes tabs of the ledger from their group, or closes them. *)
LedgerLeft ==
    \A k \in Task : \A t \in ledger[k].tabs :
       t \in touched \/ Closed(t) \/ InGroup(t, ledger[k].group)
EventsLeft == \A e \in Heard : e.kind = "removed" => Closed(e.tab)

Left(o) == LedgerLeft /\ EventsLeft /\ AllAnswered /\ TabKnown(call[o]) /\ TabsKnown(call[o])

AllLeft ==
    /\ LedgerLeft /\ EventsLeft /\ AllAnswered
    /\ \A o \in Op : TabKnown(call[o]) /\ TabsKnown(call[o])

LeftInv == restarts \in Nat /\ (Orderly /\ restarts = 0 => AllLeft)

LEMMA AnsweredBy ==
    ASSUME TypeInv, NEW o \in Op, Alone(o), AllAnswered, NEW t \in Tab, Needs(t)
    PROVE  Owned(t) \/ Answers(call[o], t)
<1>1. ASSUME NEW q \in Op, q # o
      PROVE  ~Answers(call[q], t)
  <2>1. ~Works(call[q]) /\ CallOK(call[q])
    BY <1>1, CallFacts DEF Alone
  <2>2. call[q].pc \in {"idle", "queued"} \/ call[q].kind = "announce"
    BY <2>1 DEF Works
  <2>3. call[q].kind = "announce" => call[q].pc \in {"publish", "send"} /\ call[q].then = "done"
    BY <2>1 DEF CallOK
  <2>4. QED  BY <2>2, <2>3 DEF Answers, InGrant, Granting
<1>2. QED  BY <1>1 DEF AllAnswered

(* A step of the operation that works: less of the ledger, the tabs where they were. *)
LEMMA LeftLess ==
    ASSUME TypeInv, NEW o \in Op, Alone(o), Left(o), UNCHANGED <<tab, events, touched, letGo>>,
           \A k \in Task : \A t \in ledger'[k].tabs :
              t \in ledger[k].tabs /\ ledger'[k].group = ledger[k].group,
           \A t \in Tab : Needs(t) /\ (Owned(t) \/ Answers(call[o], t))
                             => Owned(t)' \/ Answers(call'[o], t),
           TabKnown(call[o])', TabsKnown(call[o])'
    PROVE  Left(o)'
<1>1. LedgerLeft'
  <2>1. ASSUME NEW k \in Task, NEW t \in ledger'[k].tabs
        PROVE  t \in touched' \/ Closed(t)' \/ InGroup(t, ledger[k].group)'
    <3>1. ledger'[k].group = ledger[k].group
      BY <2>1
    <3>2. t \in touched \/ Closed(t) \/ InGroup(t, ledger[k].group)
      BY <2>1 DEF Left, LedgerLeft
    <3>3. QED  BY <3>1, <3>2 DEF Closed, InGroup, IsOpen
  <2>2. QED  BY <2>1 DEF LedgerLeft
<1>2. EventsLeft'
  BY DEF Left, EventsLeft, Heard, Closed
<1>3. AllAnswered'
  <2>1. ASSUME NEW t \in Tab, Needs(t)'
        PROVE  Owned(t)' \/ Answers(call'[o], t)
    <3>1. Needs(t)
      BY <2>1 DEF Needs, IsOpen, Loose
    <3>2. Owned(t) \/ Answers(call[o], t)
      BY <3>1, AnsweredBy DEF Left
    <3>3. QED  BY <3>1, <3>2
  <2>2. QED  BY <2>1 DEF AllAnswered
<1>4. QED  BY <1>1, <1>2, <1>3 DEF Left

LEMMA LeftQuiet ==
    ASSUME TypeInv, NEW o \in Op, Alone(o), Left(o), UNCHANGED <<tab, events, touched, letGo>>,
           \A k \in Task : ledger'[k].tabs = ledger[k].tabs /\ ledger'[k].group = ledger[k].group,
           \A t \in Tab : Answers(call[o], t) => Owned(t) \/ Answers(call'[o], t),
           TabKnown(call[o])', TabsKnown(call[o])'
    PROVE  Left(o)'
<1>1. \A t : Owned(t) => Owned(t)'
  BY DEF Owned, Owners
<1>2. QED  BY <1>1, LeftLess

(* At these places an operation answers for nothing. *)
LEMMA AnswersNothing ==
    ASSUME NEW c, NEW t, ~InGrant(c), c.pc \notin {"release", "remove"}
    PROVE  ~Answers(c, t)
BY DEF Answers, InGrant, Granting

(* What is known of a tab by an operation that is over or publishes. *)
LEMMA KnownAnyhow ==
    ASSUME NEW o \in Op, call'[o].kind = "removed" => Closed(call[o].tab)',
           call'[o].pc \in {"idle", "queued", "discard"}
             \/ (call'[o].pc \in {"publish", "send"} /\ call'[o].then = "done")
    PROVE  TabKnown(call[o])' /\ TabsKnown(call[o])'
BY DEF TabKnown, TabsKnown, Unowned

LEMMA OverKnown ==
    ASSUME TypeInv, NEW o \in Op, Finished(o)
    PROVE  TabKnown(call[o])' /\ TabsKnown(call[o])'
<1>1. call'[o].pc = "idle" /\ call'[o].kind = "idle"
  BY Over DEF Becomes, Idle
<1>2. QED  BY <1>1, KnownAnyhow

(* Where an operation knows of no tabs of its task. *)
LEMMA TabsKnownAnyhow ==
    ASSUME NEW o \in Op, call'[o].pc \notin {"sweep", "forget", "release"}
    PROVE  TabsKnown(call[o])'
BY DEF TabsKnown

LEMMA LeftAssert ==
    ASSUME TypeInv, NEW o \in Op, Alone(o), Left(o), AssertBegin(o) \/ AssertCheck(o)
    PROVE  Left(o)'
<1> DEFINE c == call[o]
<1>1. UNCHANGED <<tab, events, touched, letGo, ledger>>
  BY DEF AssertBegin, AssertCheck, Quietly, chromeVars, stored, ghosts
<1>2. CallOK(c) /\ c.pc \in {"queued", "check"} /\ c.kind \in {"assert", "child", "request"}
  <2>1. CallOK(c)
    BY CallFacts
  <2>2. AssertBegin(o) => c.pc = "queued" /\ c.kind \in {"assert", "child", "request"}
    BY MovesAssertBegin
  <2>3. AssertCheck(o) => c.pc = "check"
    BY MovesAssertCheck
  <2>4. QED  BY <2>1, <2>2, <2>3 DEF CallOK
<1>3. \A t : ~Answers(c, t)
  BY <1>2, AnswersNothing DEF InGrant, Granting
<1>4. SUFFICES TabKnown(call[o])' /\ TabsKnown(call[o])'
  BY <1>1, <1>3, LeftQuiet
<1>5. ASSUME NEW x \in Call, Walks(o, x, {"pc", "task", "seen"}), x.pc = "check",
             x.seen = ledger[x.task], Subject(x) \in x.seen.tabs
      PROVE  TabKnown(call[o])' /\ TabsKnown(call[o])'
  <2>1. call'[o] = x /\ x.kind = c.kind
    BY <1>5 DEF Walks, Becomes, Keeps
  <2>2. QED  BY <1>1, <1>2, <1>5, <2>1, TabsKnownAnyhow DEF TabKnown, Unowned
<1>6. ASSUME NEW x \in Call, Walks(o, x, {"pc", "then"}), AssertCheck(o),
             \/ x.pc = "recheck"
             \/ x.pc = "revoke" /\ x.then = "done" /\ ~InGroup(Subject(c), c.seen.group)
      PROVE  TabKnown(call[o])' /\ TabsKnown(call[o])'
  <2>1. call'[o] = x /\ x.kind = c.kind /\ Subject(x) = Subject(c)
    BY <1>6 DEF Walks, Becomes, Keeps, Subject
  <2>2. c.pc = "check" /\ c.task \in Task
    BY <1>2, <1>6, MovesAssertCheck DEF CallOK
  <2>3. Subject(c) \in touched \/ Closed(Subject(c)) \/ InGroup(Subject(c), c.seen.group)
    BY <2>2 DEF Left, TabKnown, LedgerLeft
  <2>4. x.pc = "revoke" => Subject(x) \in touched' \/ Closed(Subject(c))'
    BY <1>1, <1>6, <2>1, <2>3 DEF Closed
  <2>5. QED  BY <1>2, <1>6, <2>1, <2>4, TabsKnownAnyhow DEF TabKnown, Unowned
<1>7. CASE AssertBegin(o)
  BY <1>5, <1>7, MovesAssertBegin, OverKnown
<1>8. CASE AssertCheck(o)
  BY <1>6, <1>8, MovesAssertCheck
<1>9. QED  BY <1>7, <1>8

(* A tab opened for a task has an operation that answers for it. *)
LEMMA LeftOpens ==
    ASSUME TypeInv, NEW o \in Op, Alone(o), Left(o), UNCHANGED <<touched, letGo, ledger>>,
           NEW u \in Tab, Opens(u, "agent"),
           \A e \in Heard' : e \in Heard \/ e.kind # "removed",
           \A t : ~Answers(call[o], t),
           call'[o].pc = "look", call'[o].tab = u, call'[o].kind \in {"open", "request"}
    PROVE  Left(o)'
<1>1. /\ tab[u].state = "new" /\ tab'[u].state = "open" /\ tab'[u].group = NoGroup
      /\ \A t \in Tab : t # u => tab'[t] = tab[t]
  BY OpensIs
<1>2. \A t \in Tab : Closed(t) => Closed(t)'
  BY <1>1 DEF Closed
<1>3. LedgerLeft'
  <2>1. ASSUME NEW k \in Task, NEW t \in ledger[k].tabs
        PROVE  t \in touched' \/ Closed(t)' \/ InGroup(t, ledger[k].group)'
    <3>1. PICK g : g = ledger[k].group /\ g = ledger'[k].group
      OBVIOUS
    <3>2. t \in Tab
      BY <2>1, LedgerType DEF TaskRecord
    <3>3. InGroup(t, g) => InGroup(t, g)'
      BY TabsKeep
    <3>4. QED  BY <1>2, <2>1, <3>1, <3>2, <3>3 DEF Left, LedgerLeft
  <2>2. QED  BY <2>1 DEF LedgerLeft
<1>4. EventsLeft'
  <2>1. \A e \in Heard : e.kind = "removed" => e.tab \in Tab
    BY DEF TypeInv, EventOK
  <2>2. QED  BY <1>2, <2>1 DEF Left, EventsLeft
<1>5. AllAnswered'
  <2>1. Answers(call'[o], u)
    BY DEF Answers, InGrant, Granting
  <2>2. ASSUME NEW t \in Tab, t # u, Needs(t)'
        PROVE  Owned(t)'
    <3>1. Needs(t)
      BY <1>1, <2>2 DEF Needs, IsOpen, Loose
    <3>2. QED  BY <3>1, AnsweredBy DEF Left, Owned, Owners
  <2>3. QED  BY <2>1, <2>2 DEF AllAnswered
<1>6. TabKnown(call[o])' /\ TabsKnown(call[o])'
  BY <1>1 DEF TabKnown, TabsKnown, Unowned
<1>7. QED  BY <1>3, <1>4, <1>5, <1>6 DEF Left

LEMMA LeftBegin ==
    ASSUME TypeInv, NEW o \in Op, Alone(o), Left(o), NEW u \in Tab,
           OpenBegin(o, u) \/ AdoptBegin(o, u)
    PROVE  Left(o)'
<1>1. call[o].pc = "queued" /\ call[o].kind \in {"open", "adopt"}
  BY MovesBegin
<1>2. PICK x \in Call : Walks(o, x, {"pc", "tab"}) /\ x.pc = "look" /\ x.tab = u
  BY MovesBegin
<1>3. call'[o] = x /\ x.kind = call[o].kind
  BY <1>2 DEF Walks, Becomes, Keeps
<1>4. \A t : ~Answers(call[o], t)
  BY <1>1, AnswersNothing DEF InGrant, Granting
<1>5. CASE OpenBegin(o, u)
  <2>1. UNCHANGED <<touched, letGo, ledger, events>> /\ Opens(u, "agent") /\ call[o].kind = "open"
    BY <1>5 DEF OpenBegin, stored, ghosts, Starts
  <2>2. Heard' = Heard
    BY <2>1 DEF Heard
  <2>3. QED  BY <1>2, <1>3, <1>4, <2>1, <2>2, LeftOpens
<1>6. CASE AdoptBegin(o, u)
  <2>1. UNCHANGED <<tab, events, touched, letGo, ledger>> /\ call[o].kind = "adopt"
    BY <1>6 DEF AdoptBegin, Quietly, chromeVars, stored, ghosts, Starts
  <2>2. TabKnown(call[o])' /\ TabsKnown(call[o])'
    BY <1>2, <1>3, <2>1 DEF TabKnown, TabsKnown, Unowned
  <2>3. QED  BY <1>4, <2>1, <2>2, LeftQuiet
<1>7. QED  BY <1>5, <1>6

LEMMA LeftRecheck ==
    ASSUME TypeInv, NEW o \in Op, Alone(o), Left(o), AssertRecheck(o)
    PROVE  Left(o)'
<1> DEFINE c == call[o]
<1>1. UNCHANGED <<touched, letGo, ledger>> /\ c.pc = "recheck"
  BY DEF AssertRecheck, stored, ghosts, At
<1>2. CallOK(c) /\ c.kind \in {"assert", "child", "request"}
  BY <1>1, CallFacts DEF CallOK
<1>3. \A t : ~Answers(c, t)
  BY <1>1, AnswersNothing DEF InGrant, Granting
<1>4. CASE Finished(o) /\ UNCHANGED <<tab, events>>
  BY <1>1, <1>3, <1>4, OverKnown, LeftQuiet
<1>5. ASSUME NEW x \in Call, Walks(o, x, {"pc"}), x.pc = "look", c.kind = "child",
             UNCHANGED <<tab, events>>
      PROVE  Left(o)'
  <2>1. call'[o] = x /\ x.kind = "child"
    BY <1>5 DEF Walks, Becomes, Keeps
  <2>2. TabKnown(call[o])' /\ TabsKnown(call[o])'
    BY <1>5, <2>1 DEF TabKnown, TabsKnown, Unowned
  <2>3. QED  BY <1>1, <1>3, <1>5, <2>2, LeftQuiet
<1>6. ASSUME NEW u \in Tab, Opens(u, "agent"), Raise("child", u, c.parent),
             NEW x \in Call, Walks(o, x, {"pc", "tab"}), x.pc = "look", x.tab = u,
             c.kind \notin {"child", "assert"}
      PROVE  Left(o)'
  <2>1. call'[o] = x /\ x.kind = "request"
    BY <1>2, <1>6 DEF Walks, Becomes, Keeps
  <2>2. c.parent \in Tab \cup {None}
    BY CallFacts DEF Call
  <2>3. PICK e : e = [kind |-> "child", tab |-> u, parent |-> c.parent]
    OBVIOUS
  <2>4. Heard' = Heard \cup {e} /\ e.kind = "child"
    BY <1>6, <2>2, <2>3, HeardRaised
  <2>5. \A f \in Heard' : f \in Heard \/ f.kind # "removed"
    BY <2>4
  <2>6. QED  BY <1>1, <1>3, <1>6, <2>1, <2>5, LeftOpens
<1>7. QED  BY <1>4, <1>5, <1>6, MovesAssertRecheck

(* A grant that finds its tab owned, or not: nothing is moved yet. *)
LEMMA LeftLook ==
    ASSUME TypeInv, NEW o \in Op, Alone(o), Left(o), GrantLook(o)
    PROVE  Left(o)'
<1> DEFINE c == call[o]
<1>1. UNCHANGED <<tab, events, touched, letGo, ledger>> /\ c.pc = "look"
  BY DEF GrantLook, Quietly, chromeVars, stored, ghosts, At
<1>2. CallOK(c) /\ c.tab \in Tab /\ c.task \in Task /\ c.kind \in Grants
  BY <1>1, CallFacts DEF CallOK, InGrant, Granting
<1>3. \A t : Answers(c, t) => t = c.tab /\ c.kind \in {"open", "request"}
  BY <1>1 DEF Answers
<1>4. c.kind # "removed"
  BY <1>2 DEF Grants
<1>5. ASSUME \A t \in Tab : Answers(c, t) => Owned(t) \/ Answers(call'[o], t),
             TabKnown(call[o])', TabsKnown(call[o])'
      PROVE  Left(o)'
  BY <1>1, <1>5, LeftQuiet
<1>6. ASSUME NEW k \in Task, c.tab \in ledger[k].tabs
      PROVE  Owned(c.tab)
  BY <1>6 DEF Owned, Owners
<1>7. CASE Finished(o) /\ (c.kind \notin {"open", "request"} \/ c.tab \in ledger[c.task].tabs)
  BY <1>2, <1>3, <1>5, <1>6, <1>7, OverKnown
<1>8. ASSUME NEW x \in Call, Walks(o, x, {"pc"}), x.pc = "discard", c.kind \in {"open", "request"}
      PROVE  Left(o)'
  <2>1. call'[o] = x /\ x.kind = c.kind /\ x.tab = c.tab
    BY <1>8 DEF Walks, Becomes, Keeps
  <2>2. Answers(x, c.tab)
    BY <1>8, <2>1 DEF Answers, InGrant, Granting
  <2>3. QED  BY <1>3, <1>4, <1>5, <1>8, <2>1, <2>2, KnownAnyhow
<1>9. ASSUME NEW x \in Call, Walks(o, x, {"pc"}), x.pc = "mark", c.tab \in ledger[c.task].tabs
      PROVE  Left(o)'
  <2>1. call'[o] = x /\ x.kind = c.kind /\ x.tab = c.tab /\ x.task = c.task
    BY <1>9 DEF Walks, Becomes, Keeps
  <2>2. TabKnown(call[o])' /\ TabsKnown(call[o])'
    BY <1>1, <1>4, <1>9, <2>1 DEF TabKnown, TabsKnown, Unowned
  <2>3. QED  BY <1>2, <1>3, <1>5, <1>6, <1>9, <2>2
<1>10. ASSUME NEW x \in Call, Walks(o, x, {"pc", "was", "then"}), x.pc = "revoke",
              x.then = "group", IsOpen(c.tab), c.tab \in ledger[c.task].tabs,
              ~InGroup(c.tab, ledger[c.task].group)
       PROVE  Left(o)'
  <2>1. call'[o] = x /\ x.kind = c.kind /\ x.tab = c.tab
    BY <1>10 DEF Walks, Becomes, Keeps
  <2>2. c.tab \in touched \/ Closed(c.tab) \/ InGroup(c.tab, ledger[c.task].group)
    BY <1>2, <1>10 DEF Left, LedgerLeft
  <2>3. Loose(c.tab)
    BY <1>10, <2>2 DEF Closed, IsOpen, Loose
  <2>4. TabKnown(call[o])' /\ TabsKnown(call[o])'
    BY <1>1, <1>4, <1>10, <2>1, <2>3 DEF TabKnown, TabsKnown, Unowned, Loose
  <2>5. QED  BY <1>2, <1>3, <1>5, <1>6, <1>10, <2>4
<1>11. ASSUME NEW x \in Call, Walks(o, x, {"pc", "was"}), x.pc = "group",
              x.was = tab[c.tab].group, ~Owned(c.tab), IsOpen(c.tab)
       PROVE  Left(o)'
  <2>1. call'[o] = x /\ x.kind = c.kind /\ x.tab = c.tab
    BY <1>11 DEF Walks, Becomes, Keeps
  <2>2. CASE c.kind \in {"open", "request"}
    <3>1. tab[c.tab].group = NoGroup \/ Loose(c.tab)
      BY <1>1, <2>2 DEF Left, TabKnown, Loose
    <3>2. TabKnown(call[o])' /\ TabsKnown(call[o])'
      BY <1>1, <1>11, <2>1, <2>2, <3>1
      DEF TabKnown, TabsKnown, Unowned, Owned, Owners, Loose
    <3>3. Answers(x, c.tab)
      BY <1>11, <2>1, <2>2 DEF Answers, InGrant, Granting
    <3>4. QED  BY <1>3, <1>5, <2>1, <3>2, <3>3
  <2>3. CASE c.kind \in {"adopt", "child"}
    <3>1. ~Answers(c, c.tab)
      BY <1>3, <2>3
    <3>2. ~Needs(c.tab)
      BY <1>2, <1>11, <3>1, AnsweredBy DEF Left
    <3>3. Loose(c.tab) \/ (x.was = NoGroup /\ tab[c.tab].by # "agent")
      BY <1>11, <3>2 DEF Needs
    <3>4. TabKnown(call[o])' /\ TabsKnown(call[o])'
      BY <1>1, <1>11, <2>1, <2>3, <3>3
      DEF TabKnown, TabsKnown, Unowned, Owned, Owners, Loose
    <3>5. QED  BY <1>3, <1>5, <2>3, <3>4
  <2>4. QED  BY <1>2, <2>2, <2>3 DEF Grants
<1>12. \/ Finished(o) /\ (c.kind \notin {"open", "request"} \/ c.tab \in ledger[c.task].tabs)
       \/ /\ c.kind \in {"open", "request"}
          /\ \E x \in Call : Walks(o, x, {"pc"}) /\ x.pc = "discard"
       \/ /\ c.tab \in ledger[c.task].tabs
          /\ \E x \in Call : Walks(o, x, {"pc"}) /\ x.pc = "mark"
       \/ /\ c.tab \in ledger[c.task].tabs /\ ~InGroup(c.tab, ledger[c.task].group)
          /\ IsOpen(c.tab)
          /\ \E x \in Call : /\ Walks(o, x, {"pc", "was", "then"})
                             /\ x.pc = "revoke" /\ x.then = "group"
       \/ /\ ~Owned(c.tab) /\ IsOpen(c.tab)
          /\ \E x \in Call : /\ Walks(o, x, {"pc", "was"})
                             /\ x.pc = "group" /\ x.was = tab[c.tab].group
  BY MovesLook
<1>13. QED  BY <1>7, <1>8, <1>9, <1>10, <1>11, <1>12

LEMMA LeftMark ==
    ASSUME TypeInv, NEW o \in Op, Alone(o), Left(o), GrantMark(o)
    PROVE  Left(o)'
<1> DEFINE c == call[o]
<1>1. UNCHANGED <<tab, events, touched, letGo>> /\ c.pc = "mark"
  BY DEF GrantMark, chromeVars, At
<1>2. c.tab \in Tab /\ c.task \in Task /\ c.kind \in Grants
  BY <1>1, CallFacts DEF CallOK, InGrant, Granting
<1>3. \A k \in Task : ledger'[k].tabs = ledger[k].tabs /\ ledger'[k].group = ledger[k].group
  <2>1. ledger' \in {ledger, [ledger EXCEPT ![c.task].created = @ \cup {c.tab}]}
    BY DEF GrantMark, Stored
  <2>2. ledger \in [Task -> TaskRecord]
    BY LedgerType
  <2>3. QED  BY <1>2, <2>1, <2>2 DEF TaskRecord
<1>4. \A t : Answers(c, t) => t = c.tab
  BY <1>1 DEF Answers
<1>5. Owned(c.tab)
  BY <1>1, <1>2 DEF Left, TabKnown, Owned, Owners
<1>6. TabKnown(call[o])' /\ TabsKnown(call[o])'
  <2>1. ASSUME NEW x \in Call, Walks(o, x, {"pc"}), x.pc = "discard"
        PROVE  TabKnown(call[o])' /\ TabsKnown(call[o])'
    <3>1. call'[o] = x /\ x.kind = c.kind
      BY <2>1 DEF Walks, Becomes, Keeps
    <3>2. QED  BY <1>2, <2>1, <3>1, KnownAnyhow DEF Grants
  <2>2. Finished(o) \/ \E x \in Call : Walks(o, x, {"pc"}) /\ x.pc = "discard"
    BY MovesMark
  <2>3. QED  BY <2>1, <2>2, OverKnown
<1>7. QED  BY <1>1, <1>3, <1>4, <1>5, <1>6, LeftQuiet

(* A closed tab stays closed, and a tab of the ledger where it was. *)
LEMMA LedgerLeftKept ==
    ASSUME TypeInv, LedgerLeft, UNCHANGED ledger, touched \subseteq touched',
           \A t \in Tab : Closed(t) => Closed(t)',
           \A t, g : InGroup(t, g) => InGroup(t, g)' \/ Closed(t)' \/ t \in touched' \/ ~Owned(t)
    PROVE  LedgerLeft'
<1>1. ASSUME NEW k \in Task, NEW t \in ledger[k].tabs
      PROVE  t \in touched' \/ Closed(t)' \/ InGroup(t, ledger[k].group)'
  <2>1. PICK g : g = ledger[k].group /\ g = ledger'[k].group
    OBVIOUS
  <2>2. t \in Tab /\ Owned(t)
    BY <1>1, LedgerType DEF TaskRecord, Owned, Owners
  <2>3. t \in touched \/ Closed(t) \/ InGroup(t, g)
    BY <1>1, <2>1 DEF LedgerLeft
  <2>4. t \in touched' \/ Closed(t)' \/ InGroup(t, g)'
    BY <2>2, <2>3
  <2>5. QED  BY <2>1, <2>4
<1>2. QED  BY <1>1 DEF LedgerLeft

LEMMA EventsLeftKept ==
    ASSUME TypeInv, EventsLeft, \A t \in Tab : Closed(t) => Closed(t)',
           \A e \in Heard' : e \in Heard \/ (e.kind = "removed" => Closed(e.tab)')
    PROVE  EventsLeft'
<1>1. \A e \in Heard : e.kind = "removed" => e.tab \in Tab
  BY DEF TypeInv, EventOK
<1>2. QED  BY <1>1 DEF EventsLeft

(* An operation moves its tab, which is of no task. *)
LEMMA LeftMoves ==
    ASSUME TypeInv, NEW o \in Op, Alone(o), Left(o), UNCHANGED <<touched, letGo, ledger>>,
           NEW u \in Tab, NEW h \in Groups, Moves(u, h), ~Owned(u), Raise("moved", u, None),
           \A t : Answers(call[o], t) => t = u,
           Needs(u)' => Answers(call'[o], u),
           TabKnown(call[o])', TabsKnown(call[o])'
    PROVE  Left(o)'
<1>1. /\ tab'[u].state = tab[u].state /\ tab'[u].group = h /\ tab'[u].by = tab[u].by
      /\ \A t \in Tab : t # u => tab'[t] = tab[t]
  BY MovesIs
<1>2. \A t \in Tab : Closed(t) => Closed(t)'
  BY <1>1 DEF Closed
<1>3. \A t, g : InGroup(t, g) => InGroup(t, g)' \/ ~Owned(t)
  BY TabsKeep
<1>4. LedgerLeft'
  BY <1>2, <1>3, LedgerLeftKept DEF Left
<1>5. EventsLeft'
  <2>1. PICK e : e = [kind |-> "moved", tab |-> u, parent |-> None]
    OBVIOUS
  <2>2. Heard' = Heard \cup {e} /\ e.kind = "moved"
    BY <2>1, HeardRaised
  <2>3. QED  BY <1>2, <2>2, EventsLeftKept DEF Left
<1>6. AllAnswered'
  <2>1. ASSUME NEW t \in Tab, t # u, Needs(t)'
        PROVE  Owned(t)'
    <3>1. Needs(t)
      BY <1>1, <2>1 DEF Needs, IsOpen, Loose
    <3>2. QED  BY <2>1, <3>1, AnsweredBy DEF Left, Owned, Owners
  <2>2. QED  BY <2>1 DEF AllAnswered
<1>7. QED  BY <1>4, <1>5, <1>6 DEF Left

LEMMA LeftGroup ==
    ASSUME TypeInv, NEW o \in Op, Alone(o), Left(o), GrantGroup(o)
    PROVE  Left(o)'
<1> DEFINE c == call[o]
<1>1. UNCHANGED <<touched, letGo, ledger>> /\ c.pc = "group"
  BY DEF GrantGroup, stored, ghosts, At
<1>2. c.tab \in Tab /\ c.kind \in Grants
  BY <1>1, CallFacts DEF CallOK, InGrant, Granting
<1>3. PICK u : u = c.tab
  OBVIOUS
<1>4. \A t : Answers(c, t) => t = u
  BY <1>1, <1>3 DEF Answers
<1>5. /\ ~Owned(u)
      /\ Loose(u) \/ (c.was = NoGroup /\ (c.kind \in {"adopt", "child"} => tab[u].by # "agent"))
  BY <1>1, <1>3 DEF Left, TabKnown, Unowned
<1>6. ASSUME NEW x \in Call, Walks(o, x, {"pc", "group", "seen"}), x.pc = "verify",
             x.group \in Group, Moves(u, x.group), Raise("moved", u, None)
      PROVE  Left(o)'
  <2>1. call'[o] = x /\ x.kind = c.kind /\ x.tab = u /\ x.was = c.was
    BY <1>3, <1>6 DEF Walks, Becomes, Keeps
  <2>2. x.group \in Groups
    BY <1>6 DEF Groups
  <2>3. tab'[u].by = tab[u].by
    BY <1>2, <1>3, <1>6, <2>2, MovesIs
  <2>4. TabKnown(call[o])' /\ TabsKnown(call[o])'
    BY <1>1, <1>2, <1>5, <1>6, <2>1, <2>3
    DEF TabKnown, TabsKnown, Unowned, Grants, Owned, Owners, Loose
  <2>5. Answers(x, u)
    BY <1>6, <2>1 DEF Answers
  <2>6. QED  BY <1>1, <1>2, <1>3, <1>4, <1>5, <1>6, <2>1, <2>2, <2>4, <2>5, LeftMoves
<1>7. ASSUME NEW x \in Call, Walks(o, x, {"pc"}), x.pc = "undo", UNCHANGED <<tab, events>>
      PROVE  Left(o)'
  <2>1. call'[o] = x /\ x.kind = c.kind /\ x.tab = u /\ x.was = c.was
    BY <1>3, <1>7 DEF Walks, Becomes, Keeps
  <2>2. TabKnown(call[o])' /\ TabsKnown(call[o])'
    BY <1>1, <1>2, <1>5, <1>7, <2>1
    DEF TabKnown, TabsKnown, Unowned, Grants, Owned, Owners, Loose
  <2>3. Answers(x, u)
    BY <1>7, <2>1 DEF Answers
  <2>4. QED  BY <1>1, <1>4, <1>7, <2>1, <2>2, <2>3, LeftQuiet
<1>8. \/ \E x \in Call : /\ Walks(o, x, {"pc", "group", "seen"}) /\ x.pc = "verify"
                         /\ x.group \in Group
                         /\ tab' = [tab EXCEPT ![c.tab].group = x.group]
                         /\ Raise("moved", c.tab, None)
      \/ \E x \in Call : Walks(o, x, {"pc"}) /\ x.pc = "undo" /\ UNCHANGED <<tab, events>>
  BY MovesGroup
<1>9. QED  BY <1>3, <1>6, <1>7, <1>8 DEF Moves

LEMMA LeftVerify ==
    ASSUME TypeInv, NEW o \in Op, Alone(o), Left(o), GrantVerify(o)
    PROVE  Left(o)'
<1> DEFINE c == call[o]
<1>1. UNCHANGED <<tab, events, touched, letGo, ledger>> /\ c.pc = "verify"
  BY DEF GrantVerify, Quietly, chromeVars, stored, ghosts, At
<1>2. c.tab \in Tab /\ c.kind \in Grants
  BY <1>1, CallFacts DEF CallOK, InGrant, Granting
<1>3. PICK x \in Call : /\ Walks(o, x, {"pc"})
                        /\ \/ x.pc = "record" /\ InGroup(c.tab, c.group)
                           \/ x.pc = "undo"
  BY MovesVerify
<1>4. /\ call'[o] = x /\ x.kind = c.kind /\ x.tab = c.tab /\ x.was = c.was
      /\ x.group = c.group
  BY <1>3 DEF Walks, Becomes, Keeps
<1>5. Answers(x, c.tab) /\ \A t : Answers(c, t) => t = c.tab
  BY <1>1, <1>3, <1>4 DEF Answers
<1>6. TabKnown(call[o])' /\ TabsKnown(call[o])'
  <2>1. /\ ~Owned(c.tab)
        /\ Loose(c.tab)
             \/ (c.was = NoGroup /\ (c.kind \in {"adopt", "child"} => tab[c.tab].by # "agent"))
    BY <1>1 DEF Left, TabKnown, Unowned
  <2>2. QED
    BY <1>1, <1>2, <1>3, <1>4, <2>1
    DEF TabKnown, TabsKnown, Unowned, Grants, Owned, Owners, Loose, InGroup, IsOpen
<1>7. QED  BY <1>1, <1>4, <1>5, <1>6, LeftQuiet

(* The tab goes on the record where it was put, or where the user took it. *)
LEMMA LeftRecord ==
    ASSUME TypeInv, GroupsInv, NEW o \in Op, Alone(o), Left(o), Holds(o), GrantRecord(o)
    PROVE  Left(o)'
<1> DEFINE c == call[o]
<1> DEFINE recorded == [ledger EXCEPT ![c.task] = Granted(c)]
<1>1. UNCHANGED <<tab, events, touched, letGo>>
  BY DEF GrantRecord, chromeVars
<1>2. c.pc = "record" /\ c.tab \in Tab /\ c.task \in Task
  BY MovesRecord
<1>3. c.kind \in Grants
  BY <1>2, CallFacts DEF CallOK, InGrant, Granting
<1>4. \A t : Answers(c, t) => t = c.tab
  BY <1>2 DEF Answers
<1>5. ASSUME NEW x \in Call, Walks(o, x, {"pc", "then"}) \/ Walks(o, x, {"pc"}), x.pc = "undo",
             UNCHANGED ledger
      PROVE  Left(o)'
  <2>1. call'[o] = x /\ x.kind = c.kind /\ x.tab = c.tab /\ x.was = c.was
    BY <1>5 DEF Walks, Becomes, Keeps
  <2>2. /\ ~Owned(c.tab)
        /\ Loose(c.tab)
             \/ (c.was = NoGroup /\ (c.kind \in {"adopt", "child"} => tab[c.tab].by # "agent"))
    BY <1>2 DEF Left, TabKnown, Unowned
  <2>3. TabKnown(call[o])' /\ TabsKnown(call[o])'
    BY <1>1, <1>3, <1>5, <2>1, <2>2
    DEF TabKnown, TabsKnown, Unowned, Grants, Owned, Owners, Loose
  <2>4. Answers(x, c.tab)
    BY <1>5, <2>1 DEF Answers
  <2>5. QED  BY <1>1, <1>4, <1>5, <2>1, <2>3, <2>4, LeftQuiet
<1>6. ASSUME NEW x \in Call, Walks(o, x, {"pc", "then"}), x.pc = "publish", x.then = "done",
             Recordable(c), ledger' = recorded
      PROVE  Left(o)'
  <2>1. call'[o] = x /\ x.kind = c.kind
    BY <1>6 DEF Walks, Becomes, Keeps
  <2>2. /\ ledger \in [Task -> TaskRecord] /\ ledger'[c.task] = Granted(c)
        /\ \A k \in Task : k # c.task => ledger'[k] = ledger[k]
    BY <1>2, <1>6, LedgerType
  <2>3. Granted(c).group = c.group /\ Granted(c).tabs = Base(c).tabs \cup {c.tab}
    BY <1>2, GrantedIs
  <2>4. Base(c).tabs = ledger[c.task].tabs
    <3>1. c.seen.tabs = {} \/ ledger[c.task].known
      BY <1>2, <1>6 DEF GroupsInv, GroupOK, Grouping, Recordable
    <3>2. ~ledger[c.task].known => ledger[c.task].tabs = {}
      BY <1>2, LedgerFacts, NoTaskIs
    <3>3. QED  BY <3>1, <3>2 DEF Base
  <2>5. ledger[c.task].group \in {c.group, NoGroup}
          /\ (ledger[c.task].group = NoGroup => ledger[c.task].tabs = {})
    BY <1>2, LedgerFacts DEF Holds, Knows
  <2>6. LedgerLeft'
    <3>1. ASSUME NEW k \in Task, NEW t \in ledger[k].tabs, ledger'[k].group = ledger[k].group
          PROVE  t \in touched' \/ Closed(t)' \/ InGroup(t, ledger[k].group)'
      <4>1. PICK g : g = ledger[k].group /\ g = ledger'[k].group
        BY <3>1
      <4>2. t \in touched \/ Closed(t) \/ InGroup(t, g)
        BY <3>1, <4>1 DEF Left, LedgerLeft
      <4>3. t \in touched' \/ Closed(t)' \/ InGroup(t, g)'
        BY <1>1, <4>2 DEF Closed, InGroup, IsOpen
      <4>4. QED  BY <4>1, <4>3
    <3>2. ASSUME NEW k \in Task, k = c.task, NEW t, t = c.tab
          PROVE  t \in touched' \/ Closed(t)' \/ InGroup(t, ledger[k].group)'
      <4>1. PICK g : g = c.group
        OBVIOUS
      <4>2. ledger'[k].group = g
        BY <2>2, <2>3, <3>2, <4>1
      <4>3. t \in touched \/ Closed(t) \/ InGroup(t, g)
        BY <1>2, <3>2, <4>1 DEF Left, TabKnown
      <4>4. t \in touched' \/ Closed(t)' \/ InGroup(t, g)'
        BY <1>1, <4>3 DEF Closed, InGroup, IsOpen
      <4>5. QED  BY <4>2, <4>4
    <3>3. ASSUME NEW k \in Task, NEW t \in ledger'[k].tabs
          PROVE  t \in touched' \/ Closed(t)' \/ InGroup(t, ledger[k].group)'
      <4>1. CASE k # c.task
        BY <2>2, <3>1, <3>3, <4>1
      <4>2. CASE k = c.task /\ t = c.tab
        BY <3>2, <4>2
      <4>3. CASE k = c.task /\ t # c.tab
        <5>1. t \in ledger[k].tabs
          BY <2>2, <2>3, <2>4, <3>3, <4>3
        <5>2. ledger'[k].group = ledger[k].group
          BY <2>2, <2>3, <2>5, <4>3, <5>1
        <5>3. QED  BY <3>1, <5>1, <5>2
      <4>4. QED  BY <4>1, <4>2, <4>3
    <3>4. QED  BY <3>3 DEF LedgerLeft
  <2>7. \A t : Owned(t) \/ t = c.tab => Owned(t)'
    BY <1>2, <2>2, <2>3, <2>4 DEF Owned, Owners
  <2>8. AllAnswered'
    <3>1. ASSUME NEW t \in Tab, Needs(t)'
          PROVE  Owned(t)'
      <4>1. Needs(t)
        BY <1>1, <3>1 DEF Needs, IsOpen, Loose
      <4>2. QED  BY <1>4, <2>7, <4>1, AnsweredBy DEF Left
    <3>2. QED  BY <3>1 DEF AllAnswered
  <2>9. EventsLeft'
    BY <1>1 DEF Left, EventsLeft, Heard, Closed
  <2>10. TabKnown(call[o])' /\ TabsKnown(call[o])'
    BY <1>3, <1>6, <2>1, KnownAnyhow DEF Grants
  <2>11. QED  BY <2>6, <2>8, <2>9, <2>10 DEF Left
<1>7. \/ /\ Recordable(c) /\ Stored(recorded)
         /\ \E x \in Call :
              /\ Walks(o, x, {"pc", "then"}) /\ x.then = "done"
              /\ x.pc = IF WellFormed(recorded) THEN "publish" ELSE "undo"
      \/ /\ ~Recordable(c) /\ UNCHANGED ledger
         /\ \E x \in Call : Walks(o, x, {"pc"}) /\ x.pc = "undo"
  BY MovesRecord
<1>8. QED  BY <1>5, <1>6, <1>7 DEF Stored

(* A tab that cannot go back where it was is one the user moved or a task let go. *)
LEMMA LeftUndo ==
    ASSUME TypeInv, NEW o \in Op, Alone(o), Left(o), GrantUndo(o)
    PROVE  Left(o)'
<1> DEFINE c == call[o]
<1>1. UNCHANGED <<touched, letGo, ledger>>
  BY DEF GrantUndo, stored, ghosts
<1>2. c.pc = "undo" /\ c.tab \in Tab
  BY MovesUndo
<1>3. c.kind \in Grants
  BY <1>2, CallFacts DEF CallOK, InGrant, Granting
<1>4. PICK u \in Tab : u = c.tab
  BY <1>2
<1>5. \A t : Answers(c, t) => t = u
  BY <1>2, <1>4 DEF Answers
<1>6. /\ ~Owned(u)
      /\ Loose(u) \/ (c.was = NoGroup /\ (c.kind \in {"adopt", "child"} => tab[u].by # "agent"))
  BY <1>2, <1>4 DEF Left, TabKnown, Unowned
<1>7. TabKnown(call[o])' /\ TabsKnown(call[o])'
        /\ (Needs(u)' => Answers(call'[o], u))
  <2>1. ASSUME NEW x \in Call, Walks(o, x, {"pc"}), x.pc = "discard",
               c.kind \in {"open", "request"}
        PROVE  TabKnown(call[o])' /\ TabsKnown(call[o])' /\ Answers(call'[o], u)
    <3>1. call'[o] = x /\ x.kind = c.kind /\ x.tab = u
      BY <1>4, <2>1 DEF Walks, Becomes, Keeps
    <3>2. Answers(x, u)
      BY <2>1, <3>1 DEF Answers, InGrant, Granting
    <3>3. QED  BY <1>3, <2>1, <3>1, <3>2, KnownAnyhow DEF Grants
  <2>2. ASSUME Finished(o), c.kind \notin {"open", "request"},
               \/ Moves(u, c.was)
               \/ c.was # NoGroup /\ UNCHANGED tab
               \/ ~IsOpen(u) /\ UNCHANGED tab
        PROVE  ~Needs(u)'
    <3>1. c.kind \in {"adopt", "child"} /\ c.was \in Groups
      BY <1>3, <2>2, CallFacts DEF Grants, Call
    <3>2. CASE Loose(u)
      BY <1>1, <3>2 DEF Needs, Loose
    <3>3. CASE c.was = NoGroup /\ tab[u].by # "agent"
      <4>1. CASE ~IsOpen(u) /\ UNCHANGED tab
        BY <4>1 DEF Needs, IsOpen
      <4>2. CASE Moves(u, c.was)
        <5>1. tab'[u].group = NoGroup /\ tab'[u].by = tab[u].by
          BY <3>1, <3>3, <4>2, MovesIs
        <5>2. QED  BY <3>3, <5>1 DEF Needs
      <4>3. QED  BY <2>2, <3>3, <4>1, <4>2
    <3>4. QED  BY <1>6, <3>1, <3>2, <3>3
  <2>3. \/ /\ c.kind \notin {"open", "request"} /\ Finished(o)
           /\ \/ tab' = [tab EXCEPT ![c.tab].group = c.was]
              \/ c.was # NoGroup /\ UNCHANGED tab
              \/ ~IsOpen(c.tab) /\ UNCHANGED tab
        \/ /\ c.kind \in {"open", "request"}
           /\ \E x \in Call : Walks(o, x, {"pc"}) /\ x.pc = "discard"
    BY MovesUndo
  <2>4. QED  BY <1>4, <2>1, <2>2, <2>3, OverKnown DEF Moves
<1>8. CASE UNCHANGED <<tab, events>>
  <2>1. \A t \in Tab : Needs(t) /\ Answers(c, t) => Answers(call'[o], t)
    BY <1>1, <1>5, <1>7, <1>8 DEF Needs, IsOpen, Loose
  <2>2. \A t \in Tab : Owned(t) => Owned(t)'
    BY <1>1 DEF Owned, Owners
  <2>3. QED  BY <1>1, <1>7, <1>8, <2>1, <2>2, LeftLess
<1>9. ASSUME NEW g \in Groups, Moves(u, g), Raise("moved", u, None)
      PROVE  Left(o)'
  BY <1>1, <1>5, <1>6, <1>7, <1>9, LeftMoves
<1>10. UNCHANGED <<tab, events>>
         \/ \E g \in Groups : Moves(c.tab, g) /\ Raise("moved", c.tab, None)
  BY MovesUndo DEF Moves
<1>11. QED  BY <1>4, <1>8, <1>9, <1>10

LEMMA LeftDiscard ==
    ASSUME TypeInv, NEW o \in Op, Alone(o), Left(o), Discard(o)
    PROVE  Left(o)'
<1>1. UNCHANGED <<touched, letGo, ledger>>
  BY DEF Discard, stored, ghosts
<1>2. call[o].pc = "discard" /\ call[o].tab \in Tab /\ Finished(o) /\ Closes({call[o].tab})
  BY MovesDiscard
<1>3. PICK u \in Tab : u = call[o].tab
  BY <1>2
<1>4. Closes({u}) /\ {u} \in SUBSET Tab
  BY <1>2, <1>3
<1>5. tab'[u].state = "closed" /\ \A t \in Tab : t # u => tab'[t] = tab[t]
  BY <1>4, ClosesIs
<1>6. \A t \in Tab : Closed(t) => Closed(t)'
  BY <1>5 DEF Closed
<1>7. \A t, g : InGroup(t, g) => InGroup(t, g)' \/ Closed(t)'
  <2>1. \A t, g : InGroup(t, g) => t \in {u} \/ InGroup(t, g)'
    BY <1>4, TabsKeep
  <2>2. QED  BY <1>5, <2>1 DEF Closed
<1>8. LedgerLeft'
  BY <1>1, <1>6, <1>7, LedgerLeftKept DEF Left
<1>9. EventsLeft'
  <2>1. UNCHANGED events \/ Raise("removed", u, None)
    BY <1>3, MovesDiscard
  <2>2. PICK e : e = [kind |-> "removed", tab |-> u, parent |-> None]
    OBVIOUS
  <2>3. Heard' \subseteq Heard \cup {e}
    BY <2>1, <2>2, HeardRaised DEF Heard
  <2>4. e.kind = "removed" => Closed(e.tab)'
    BY <1>5, <2>2 DEF Closed
  <2>5. QED  BY <1>6, <2>3, <2>4, EventsLeftKept DEF Left
<1>10. AllAnswered'
  <2>1. ASSUME NEW t \in Tab, Needs(t)'
        PROVE  Owned(t)'
    <3>1. t # u
      BY <1>5, <2>1 DEF Needs, IsOpen
    <3>2. Needs(t)
      BY <1>1, <1>5, <2>1, <3>1 DEF Needs, IsOpen, Loose
    <3>3. ~Answers(call[o], t)
      BY <1>2, <1>3, <3>1 DEF Answers
    <3>4. QED  BY <1>1, <3>2, <3>3, AnsweredBy DEF Left, Owned, Owners
  <2>2. QED  BY <2>1 DEF AllAnswered
<1>11. QED  BY <1>2, <1>8, <1>9, <1>10, OverKnown DEF Left

LEMMA LeftMoved ==
    ASSUME TypeInv, NEW o \in Op, Alone(o), Left(o),
           RevokeBegin(o) \/ MovedBegin(o) \/ MovedWhere(o)
    PROVE  Left(o)'
<1> DEFINE c == call[o]
<1>1. UNCHANGED <<tab, events, touched, letGo, ledger>>
  BY DEF RevokeBegin, MovedBegin, MovedWhere, Quietly, chromeVars, stored, ghosts
<1>2. /\ c.pc \in {"queued", "where"} /\ c.kind \in {"removed", "moved"}
      /\ c.then = "done" /\ c.parent = None
  <2>1. CallOK(c)
    BY CallFacts
  <2>2. c.pc \in {"queued", "where"} /\ c.kind \in {"removed", "moved"}
    BY MovesRevokeBegin, MovesMovedBegin, MovesMovedWhere
  <2>3. QED  BY <2>1, <2>2 DEF CallOK
<1>3. \A t : ~Answers(c, t)
  BY <1>2, AnswersNothing DEF InGrant, Granting
<1>4. SUFFICES TabKnown(call[o])' /\ TabsKnown(call[o])'
  BY <1>1, <1>3, LeftQuiet
<1>5. ASSUME NEW x \in Call, Walks(o, x, {"pc"}), x.pc = "revoke",
             c.tab \in touched \/ Closed(c.tab), c.kind = "removed" => Closed(c.tab)
      PROVE  TabKnown(call[o])' /\ TabsKnown(call[o])'
  <2>1. /\ call'[o] = x /\ x.kind = c.kind /\ x.then = "done" /\ Subject(x) = c.tab
        /\ x.tab = c.tab
    BY <1>2, <1>5 DEF Walks, Becomes, Keeps, Subject
  <2>2. QED  BY <1>1, <1>5, <2>1, TabsKnownAnyhow DEF TabKnown, Unowned, Closed
<1>6. CASE RevokeBegin(o)
  <2>1. c.kind = "removed" /\ Closed(c.tab)
    BY <1>6, MovesRevokeBegin DEF Left, TabKnown
  <2>2. QED  BY <1>5, <1>6, <2>1, MovesRevokeBegin
<1>7. CASE MovedBegin(o)
  <2>1. ASSUME NEW x \in Call, Walks(o, x, {"pc", "group"}), x.pc = "where", c.kind = "moved",
               NEW k \in Task, c.tab \in ledger[k].tabs, x.group = ledger[k].group
        PROVE  TabKnown(call[o])' /\ TabsKnown(call[o])'
    <3>1. call'[o] = x /\ x.kind = "moved" /\ x.tab = c.tab
      BY <2>1 DEF Walks, Becomes, Keeps
    <3>2. QED  BY <1>1, <2>1, <3>1, TabsKnownAnyhow DEF TabKnown, Unowned
  <2>2. QED  BY <1>7, <2>1, OverKnown, MovesMovedBegin
<1>8. CASE MovedWhere(o)
  <2>1. c.pc = "where" /\ c.kind = "moved"
    BY <1>8, MovesMovedWhere
  <2>2. PICK k \in Task : c.tab \in ledger[k].tabs /\ c.group = ledger[k].group
    BY <2>1 DEF Left, TabKnown
  <2>3. InGroup(c.tab, c.group) \/ c.tab \in touched \/ Closed(c.tab)
    BY <2>2 DEF Left, LedgerLeft
  <2>4. QED  BY <1>5, <1>8, <2>1, <2>3, OverKnown, MovesMovedWhere
<1>9. QED  BY <1>6, <1>7, <1>8

(* Only a tab that the user moved or closed leaves a record. *)
LEMMA LeftRevoke ==
    ASSUME TypeInv, NEW o \in Op, Alone(o), Left(o), Revoke(o)
    PROVE  Left(o)'
<1> DEFINE c == call[o]
<1>1. UNCHANGED <<tab, events, touched, letGo>>
  BY DEF Revoke, chromeVars
<1>2. PICK u : u = IF c.then = "group" THEN c.tab ELSE Subject(c)
  OBVIOUS
<1>3. c.pc = "revoke" /\ Stored(Revoked(u))
  BY <1>2, MovesRevoke
<1>4. /\ c.then = "group" => Loose(c.tab)
      /\ c.then # "group" => u \in touched \/ Closed(u)
      /\ c.kind = "removed" => Closed(c.tab)
  BY <1>2, <1>3 DEF Left, TabKnown
<1>5. ~Needs(u)
  BY <1>2, <1>4 DEF Needs, Loose, Closed, IsOpen
<1>6. \A k \in Task : /\ Revoked(u)[k].tabs = ledger[k].tabs \ {u}
                      /\ Revoked(u)[k].created = ledger[k].created \ {u}
                      /\ Revoked(u)[k].group \in {ledger[k].group, NoGroup}
                      /\ Revoked(u)[k].group # ledger[k].group => Revoked(u)[k].tabs = {}
  BY RevokedIs
<1>7. \A k \in Task : ledger[k].created \subseteq ledger[k].tabs
  BY LedgerFacts
<1>8. /\ ledger' = Revoked(u)
      /\ \A k \in Task : \A t \in ledger'[k].tabs :
            t \in ledger[k].tabs /\ ledger'[k].group = ledger[k].group
  BY <1>3, <1>6, <1>7, LessIsStored
<1>9. ~Owned(u)' /\ \A t : Owned(t) /\ t # u => Owned(t)'
  BY <1>6, <1>8 DEF Owned, Owners
<1>10. \A t : Answers(c, t) => t = u
  BY <1>2, <1>3 DEF Answers, InGrant, Granting
<1>11. TabKnown(call[o])' /\ TabsKnown(call[o])'
  <2>1. ASSUME NEW x \in Call, Walks(o, x, {"pc"}), x.pc \in {"publish", "group"},
               x.pc = "group" => c.then = "group"
        PROVE  TabKnown(call[o])' /\ TabsKnown(call[o])'
    <3>1. call'[o] = x /\ x.kind = c.kind /\ x.tab = c.tab /\ x.then = c.then
      BY <2>1 DEF Walks, Becomes, Keeps
    <3>2. c.kind = "removed" => Closed(c.tab)
      BY <1>4
    <3>3. CASE c.then = "group"
      <4>1. u = c.tab /\ Loose(u)
        BY <1>2, <1>4, <3>3
      <4>2. QED
        BY <1>1, <1>9, <2>1, <3>1, <3>2, <3>3, <4>1 DEF TabKnown, TabsKnown, Unowned, Loose, Closed
    <3>4. CASE c.then # "group"
      BY <1>1, <2>1, <3>1, <3>2, <3>4 DEF TabKnown, TabsKnown, Unowned, Closed
    <3>5. QED  BY <3>3, <3>4
  <2>2. \/ \E x \in Call : Walks(o, x, {"pc"}) /\ x.pc = "publish"
        \/ c.then = "group" /\ \E x \in Call : Walks(o, x, {"pc"}) /\ x.pc = "group"
        \/ Finished(o)
    BY MovesRevoke
  <2>3. QED  BY <2>1, <2>2, OverKnown
<1>12. QED  BY <1>1, <1>5, <1>8, <1>9, <1>10, <1>11, LeftLess

LEMMA LeftReconcile ==
    ASSUME TypeInv, NEW o \in Op, Alone(o), Left(o), ReconcileBegin(o)
    PROVE  Left(o)'
<1> DEFINE c == call[o]
<1>1. UNCHANGED <<tab, events, touched, letGo, ledger>>
  BY DEF ReconcileBegin, Quietly, chromeVars, stored, ghosts
<1>2. PICK x \in Call :
         /\ Walks(o, x, {"pc", "pairs"}) /\ x.pc = "sweep"
         /\ x.pairs = {<<t, tab[t].group>> : t \in {u \in Tab : IsOpen(u)}}
  BY MovesReconcileBegin
<1>3. c.pc = "queued" /\ c.kind = "reconcile"
  BY MovesReconcileBegin
<1>4. call'[o] = x /\ x.kind = "reconcile"
  BY <1>2, <1>3 DEF Walks, Becomes, Keeps
<1>5. \A t : ~Answers(c, t)
  BY <1>3, CallFacts, AnswersNothing DEF InGrant, Granting
<1>6. ASSUME NEW k \in Task, NEW t \in ledger[k].tabs
      PROVE  t \in touched \/ Closed(t) \/ <<t, ledger[k].group>> \in x.pairs
  <2>1. t \in touched \/ Closed(t) \/ InGroup(t, ledger[k].group)
    BY <1>6 DEF Left, LedgerLeft
  <2>2. InGroup(t, ledger[k].group) => t \in Tab /\ IsOpen(t) /\ tab[t].group = ledger[k].group
    BY DEF InGroup, IsOpen
  <2>3. QED  BY <1>2, <2>1, <2>2
<1>7. TabsKnown(call[o])'
  BY <1>1, <1>2, <1>4, <1>6 DEF TabsKnown, Closed
<1>8. TabKnown(call[o])'
  BY <1>2, <1>4 DEF TabKnown, Unowned
<1>9. QED  BY <1>1, <1>5, <1>7, <1>8, LeftQuiet

LEMMA LeftSweep ==
    ASSUME TypeInv, NEW o \in Op, Alone(o), Left(o), Sweep(o)
    PROVE  Left(o)'
<1> DEFINE c == call[o]
<1>1. UNCHANGED <<tab, events, touched, letGo>>
  BY DEF Sweep, chromeVars
<1>2. c.pc = "sweep" /\ c.kind = "reconcile" /\ c.then = "done" /\ Stored(Swept(c.pairs))
  BY MovesSweep, CallFacts DEF CallOK
<1>3. \A k \in Task : /\ Swept(c.pairs)[k].tabs = ledger[k].tabs \ Gone(k, c.pairs)
                      /\ Swept(c.pairs)[k].created = ledger[k].created \ Gone(k, c.pairs)
                      /\ Swept(c.pairs)[k].group \in {ledger[k].group, NoGroup}
                      /\ Swept(c.pairs)[k].group # ledger[k].group => Swept(c.pairs)[k].tabs = {}
  BY SweptIs
<1>4. \A k \in Task : ledger[k].created \subseteq ledger[k].tabs
  BY LedgerFacts
<1>5. /\ ledger' = Swept(c.pairs)
      /\ \A k \in Task : \A t \in ledger'[k].tabs :
            t \in ledger[k].tabs /\ ledger'[k].group = ledger[k].group
  BY <1>2, <1>3, <1>4, LessIsStored
<1>6. ASSUME NEW t \in Tab, Needs(t), Owned(t)
      PROVE  Owned(t)'
  <2>1. PICK k \in Task : t \in ledger[k].tabs
    BY <1>6 DEF Owned, Owners
  <2>2. t \in touched \/ Closed(t) \/ <<t, ledger[k].group>> \in c.pairs
    BY <1>2, <2>1 DEF Left, TabsKnown
  <2>3. t \notin Gone(k, c.pairs)
    BY <1>6, <2>2 DEF Needs, Loose, Closed, IsOpen, Gone
  <2>4. t \in ledger'[k].tabs
    BY <1>3, <1>5, <2>1, <2>3
  <2>5. QED  BY <2>4 DEF Owned, Owners
<1>7. \A t : ~Answers(c, t)
  BY <1>2, AnswersNothing DEF InGrant, Granting
<1>8. TabKnown(call[o])' /\ TabsKnown(call[o])'
  <2>1. PICK x \in Call : Walks(o, x, {"pc", "pairs"}) /\ x.pc = "publish"
    BY MovesSweep
  <2>2. call'[o] = x /\ x.kind = "reconcile" /\ x.then = "done"
    BY <1>2, <2>1 DEF Walks, Becomes, Keeps
  <2>3. QED  BY <2>1, <2>2, KnownAnyhow
<1>9. QED  BY <1>1, <1>5, <1>6, <1>7, <1>8, LeftLess

LEMMA LeftEnd ==
    ASSUME TypeInv, NEW o \in Op, Alone(o), Left(o), Holds(o), EndBegin(o) \/ Classify(o)
    PROVE  Left(o)'
<1> DEFINE c == call[o]
<1>1. UNCHANGED <<tab, events, touched, letGo, ledger>>
  BY DEF EndBegin, Classify, Quietly, chromeVars, stored, ghosts
<1>2. /\ c.pc \in {"queued", "classify"} /\ c.kind \in EndKinds /\ c.doomed = {}
  <2>1. EndBegin(o) => c.pc = "queued" /\ c.kind \in EndKinds
    BY MovesEndBegin
  <2>2. Classify(o) => c.pc = "classify"
    BY MovesClassify
  <2>3. CallOK(c)
    BY CallFacts
  <2>4. QED  BY <2>1, <2>2, <2>3 DEF CallOK, Ending, Holds, Knows
<1>3. \A t : ~Answers(c, t)
  BY <1>2 DEF Answers, EndKinds
<1>4. c.kind # "removed"
  BY <1>2 DEF EndKinds
<1>5. SUFFICES TabKnown(call[o])' /\ TabsKnown(call[o])'
  BY <1>1, <1>3, LeftQuiet
<1>6. CASE EndBegin(o)
  <2>1. ASSUME NEW x \in Call, Walks(o, x, {"pc", "seen", "keep"}),
               x.pc = IF c.kind = "close" THEN "forget" ELSE "classify"
        PROVE  TabKnown(call[o])' /\ TabsKnown(call[o])'
    <3>1. call'[o] = x /\ x.kind = c.kind /\ x.doomed = {}
      BY <1>2, <2>1 DEF Walks, Becomes, Keeps
    <3>2. QED  BY <1>4, <2>1, <3>1 DEF TabKnown, TabsKnown, Unowned
  <2>2. \/ Finished(o)
        \/ \E x \in Call : /\ Walks(o, x, {"pc", "seen", "keep"})
                           /\ x.pc = IF c.kind = "close" THEN "forget" ELSE "classify"
    BY <1>6, MovesEndBegin
  <2>3. QED  BY <2>1, <2>2, OverKnown
<1>7. CASE Classify(o)
  <2>1. PICK x \in Call :
           /\ Walks(o, x, {"pc", "keep", "doomed"}) /\ x.pc = "forget"
           /\ x.keep = {t \in c.seen.tabs : IsOpen(t)
                          /\ (t \in c.keep \/ ~InGroup(t, c.seen.group))}
           /\ x.doomed = {t \in c.seen.tabs \ c.keep : InGroup(t, c.seen.group)}
    BY <1>7, MovesClassify
  <2>2. call'[o] = x /\ x.kind = c.kind /\ x.seen = c.seen
    BY <2>1 DEF Walks, Becomes, Keeps
  <2>3. \A t \in x.seen.tabs : IsOpen(t) => t \in x.keep \cup x.doomed
    BY <2>1, <2>2
  <2>4. \A t \in x.doomed : InGroup(t, x.seen.group)
    BY <2>1, <2>2
  <2>5. TabsKnown(call[o])'
    BY <1>1, <2>1, <2>2, <2>3, <2>4 DEF TabsKnown, InGroup, IsOpen
  <2>6. TabKnown(call[o])'
    BY <1>4, <2>1, <2>2 DEF TabKnown, Unowned
  <2>7. QED  BY <2>5, <2>6
<1>8. QED  BY <1>6, <1>7

(* The record goes: the end answers for the tabs it had. *)
LEMMA LeftForget ==
    ASSUME TypeInv, NEW o \in Op, Alone(o), Left(o), Holds(o), Forget(o)
    PROVE  Left(o)'
<1> DEFINE c == call[o]
<1> DEFINE l == [ledger EXCEPT ![c.task] = NoTask]
<1>1. UNCHANGED <<tab, events, touched, letGo>>
  BY DEF Forget, chromeVars
<1>2. c.pc = "forget" /\ c.task \in Task /\ c.kind \in EndKinds /\ Stored(l)
  BY MovesForget
<1>3. /\ ledger \in [Task -> TaskRecord] /\ l[c.task] = NoTask
      /\ \A k \in Task : k # c.task => l[k] = ledger[k]
  BY <1>2, LedgerType
<1>4. \A k \in Task : /\ l[k].tabs \subseteq ledger[k].tabs
                      /\ l[k].created \subseteq l[k].tabs
                      /\ l[k].group \in {ledger[k].group, NoGroup}
                      /\ l[k].group # ledger[k].group => l[k].tabs = {}
  BY <1>3, NoTaskIs, LedgerFacts
<1>5. /\ ledger' = l
      /\ \A k \in Task : \A t \in ledger'[k].tabs :
            t \in ledger[k].tabs /\ ledger'[k].group = ledger[k].group
  BY <1>2, <1>4, LessIsStored
<1>6. PICK x \in Call :
         /\ Walks(o, x, {"pc", "doomed"}) /\ x.pc = "release"
         /\ x.doomed = IF c.kind = "close" THEN ledger[c.task].tabs ELSE c.doomed
  BY MovesForget
<1>7. call'[o] = x /\ x.kind = c.kind /\ x.keep = c.keep /\ x.seen = c.seen
  BY <1>6 DEF Walks, Becomes, Keeps
<1>8. ledger[c.task] = c.seen
  BY <1>2 DEF Holds, Knows
<1>9. /\ \A t : Answers(c, t) => FALSE
      /\ c.kind # "removed"
  BY <1>2 DEF Answers, InGrant, Granting, EndKinds
<1>10. ASSUME NEW t \in Tab, Needs(t), Owned(t)
       PROVE  Owned(t)' \/ Answers(call'[o], t)
  <2>1. PICK k \in Task : t \in ledger[k].tabs
    BY <1>10 DEF Owned, Owners
  <2>2. CASE k # c.task
    BY <1>3, <1>5, <2>1, <2>2 DEF Owned, Owners
  <2>3. CASE k = c.task
    <3>1. IsOpen(t) /\ t \notin touched
      BY <1>10 DEF Needs, Loose
    <3>2. t \in x.keep \cup x.doomed
      BY <1>2, <1>6, <1>7, <1>8, <2>1, <2>3, <3>1 DEF Left, TabsKnown
    <3>3. QED  BY <1>6, <1>7, <3>2 DEF Answers
  <2>4. QED  BY <2>2, <2>3
<1>11. ASSUME NEW t \in x.doomed
       PROVE  t \in touched \/ Closed(t) \/ InGroup(t, x.seen.group)
  <2>1. CASE c.kind = "close"
    BY <1>2, <1>6, <1>7, <1>8, <1>11, <2>1 DEF Left, LedgerLeft
  <2>2. CASE c.kind # "close"
    BY <1>2, <1>6, <1>7, <1>11, <2>2 DEF Left, TabsKnown
  <2>3. QED  BY <2>1, <2>2
<1>12. TabsKnown(call[o])'
  BY <1>1, <1>6, <1>7, <1>11 DEF TabsKnown, Closed, InGroup, IsOpen
<1>13. TabKnown(call[o])'
  BY <1>6, <1>7, <1>9 DEF TabKnown, Unowned
<1>14. QED  BY <1>1, <1>5, <1>9, <1>10, <1>12, <1>13, LeftLess

(* What an end lets go of stays; it answers for what it will close. *)
LEMMA LeftRelease ==
    ASSUME TypeInv, NEW o \in Op, Alone(o), Left(o), Holds(o), Release(o)
    PROVE  Left(o)'
<1> DEFINE c == call[o]
<1> DEFINE leaving == {t \in c.keep : InGroup(t, c.seen.group)}
<1>1. UNCHANGED <<events, touched, ledger>> /\ letGo' = letGo \cup c.keep
  BY DEF Release, stored
<1>2. c.pc = "release" /\ c.keep \subseteq Tab /\ c.kind \in EndKinds
  BY MovesRelease
<1>3. Lets(leaving) /\ leaving \in SUBSET Tab
  BY <1>2 DEF Release, Lets
<1>4. \A t \in Tab : /\ tab'[t].by = tab[t].by /\ tab'[t].state = tab[t].state
                     /\ t \notin leaving => tab'[t] = tab[t]
  BY <1>3, LetsIs
<1>5. \A t \in Tab : Closed(t) => Closed(t)'
  BY <1>4 DEF Closed
<1>6. \A t \in c.keep \cup c.doomed : ~Owned(t)
  BY <1>2 DEF Holds, Knows
<1>7. \A t, g : InGroup(t, g) => InGroup(t, g)' \/ ~Owned(t)
  <2>1. \A t, g : InGroup(t, g) => t \in leaving \/ InGroup(t, g)'
    BY <1>3, TabsKeep
  <2>2. QED  BY <1>6, <2>1
<1>8. LedgerLeft'
  BY <1>1, <1>5, <1>7, LedgerLeftKept DEF Left
<1>9. EventsLeft'
  BY <1>1, <1>5, EventsLeftKept DEF Left, Heard
<1>10. PICK x \in Call :
          /\ Walks(o, x, {"pc", "doomed"}) /\ x.pc = "remove"
          /\ x.doomed = {t \in c.doomed : InGroup(t, c.seen.group)}
  BY MovesRelease
<1>11. call'[o] = x /\ x.kind = c.kind
  BY <1>10 DEF Walks, Becomes, Keeps
<1>12. AllAnswered'
  <2>1. ASSUME NEW t \in Tab, Needs(t)'
        PROVE  Owned(t)' \/ Answers(call'[o], t)
    <3>1. t \notin c.keep
      BY <1>1, <2>1 DEF Needs, Loose
    <3>2. Needs(t)
      BY <1>1, <1>4, <2>1, <3>1 DEF Needs, Loose, IsOpen
    <3>3. Owned(t) \/ t \in c.doomed
      BY <1>2, <3>1, <3>2, AnsweredBy DEF Left, Answers, InGrant, Granting
    <3>4. CASE t \in c.doomed
      <4>1. InGroup(t, c.seen.group)
        BY <1>2, <3>2, <3>4 DEF Left, TabsKnown, Needs, Loose, Closed, IsOpen
      <4>2. QED  BY <1>10, <1>11, <3>4, <4>1 DEF Answers
    <3>5. QED  BY <1>1, <3>3, <3>4 DEF Owned, Owners
  <2>2. QED  BY <2>1 DEF AllAnswered
<1>13. TabKnown(call[o])' /\ TabsKnown(call[o])'
  BY <1>2, <1>10, <1>11 DEF TabKnown, TabsKnown, Unowned, EndKinds
<1>14. QED  BY <1>8, <1>9, <1>12, <1>13 DEF Left

(* It closes them, or a page holds them open. *)
LEMMA LeftRemove ==
    ASSUME TypeInv, NEW o \in Op, Alone(o), Left(o), Holds(o), Remove(o)
    PROVE  Left(o)'
<1> DEFINE c == call[o]
<1>1. UNCHANGED <<events, touched, ledger>>
  BY DEF Remove, stored
<1>2. c.pc = "remove" /\ c.kind \in EndKinds /\ c.doomed \subseteq Tab
  BY MovesRemove, CallFacts DEF Call
<1>3. PICK held \in SUBSET {t \in c.doomed : IsOpen(t)} :
         Closes(c.doomed \ held) /\ letGo' = letGo \cup held
  BY DEF Remove
<1>4. PICK ts \in SUBSET Tab : ts = c.doomed \ held /\ Closes(ts)
  BY <1>2, <1>3
<1>5. \A t \in Tab : IF t \in ts THEN tab'[t].state = "closed" ELSE tab'[t] = tab[t]
  BY <1>4, ClosesIs
<1>6. \A t \in Tab : Closed(t) => Closed(t)'
  BY <1>5 DEF Closed
<1>7. \A t, g : InGroup(t, g) => InGroup(t, g)' \/ Closed(t)'
  <2>1. \A t, g : InGroup(t, g) => t \in ts \/ InGroup(t, g)'
    BY <1>4, TabsKeep
  <2>2. QED  BY <1>5, <2>1 DEF Closed
<1>8. LedgerLeft'
  BY <1>1, <1>6, <1>7, LedgerLeftKept DEF Left
<1>9. EventsLeft'
  BY <1>1, <1>6, EventsLeftKept DEF Left, Heard
<1>10. AllAnswered'
  <2>1. ASSUME NEW t \in Tab, Needs(t)'
        PROVE  Owned(t)'
    <3>1. t \notin c.doomed
      BY <1>3, <1>4, <1>5, <2>1 DEF Needs, Loose, IsOpen
    <3>2. Needs(t)
      BY <1>1, <1>3, <1>4, <1>5, <2>1, <3>1 DEF Needs, Loose, IsOpen
    <3>3. ~Answers(c, t)
      BY <1>2, <3>1 DEF Answers, InGrant, Granting
    <3>4. QED  BY <1>1, <3>2, <3>3, AnsweredBy DEF Left, Owned, Owners
  <2>2. QED  BY <2>1 DEF AllAnswered
<1>11. TabKnown(call[o])' /\ TabsKnown(call[o])'
  <2>1. PICK x \in Call : /\ Walks(o, x, {"pc", "then", "doomed", "keep"})
                          /\ x.pc = "publish" /\ x.then = "done"
    BY MovesRemove
  <2>2. call'[o] = x /\ x.kind = c.kind
    BY <2>1 DEF Walks, Becomes, Keeps
  <2>3. QED  BY <1>2, <2>1, <2>2, KnownAnyhow DEF EndKinds
<1>12. QED  BY <1>8, <1>9, <1>10, <1>11 DEF Left

LEMMA LeftPublish ==
    ASSUME TypeInv, NEW o \in Op, Alone(o), Left(o), PublishRead(o) \/ PublishSend(o)
    PROVE  Left(o)'
<1> DEFINE c == call[o]
<1>1. UNCHANGED <<tab, events, touched, letGo, ledger>>
  BY DEF PublishRead, PublishSend, Quietly, chromeVars, stored, ghosts
<1>2. c.pc \in {"publish", "send"} /\ c.kind = "removed" => Closed(c.tab)
  BY DEF Left, TabKnown
<1>3. \A t : Answers(c, t) => t = c.tab /\ c.then = "group" /\ c.kind \in {"open", "request"}
  <2>1. c.pc \in {"publish", "send"}
    BY MovesPublishRead, MovesPublishSend
  <2>2. QED  BY <2>1 DEF Answers, InGrant, Granting
<1>4. c.pc \in {"publish", "send"}
  BY MovesPublishRead, MovesPublishSend
<1>5. ASSUME NEW x \in Call, Walks(o, x, {"pc", "pairs", "keep"}),
             x.pc = "send" \/ (x.pc = "group" /\ c.then = "group")
      PROVE  Left(o)'
  <2>1. /\ call'[o] = x /\ x.kind = c.kind /\ x.tab = c.tab /\ x.then = c.then
        /\ x.was = c.was
    BY <1>5 DEF Walks, Becomes, Keeps
  <2>2. c.then = "group" =>
           /\ ~Owned(c.tab)
           /\ \/ Loose(c.tab)
              \/ c.was = NoGroup /\ (c.kind \in {"adopt", "child"} => tab[c.tab].by # "agent")
    BY <1>4 DEF Left, TabKnown, Unowned
  <2>3. TabKnown(call[o])' /\ TabsKnown(call[o])'
    BY <1>1, <1>2, <1>4, <1>5, <2>1, <2>2
    DEF TabKnown, TabsKnown, Unowned, Owned, Owners, Loose, Closed
  <2>4. \A t : Answers(c, t) => Answers(x, t)
    BY <1>3, <1>5, <2>1 DEF Answers, InGrant, Granting
  <2>5. QED  BY <1>1, <2>1, <2>3, <2>4, LeftQuiet
<1>6. CASE c.then = "done" /\ Finished(o)
  BY <1>1, <1>3, <1>6, OverKnown, LeftQuiet
<1>7. QED  BY <1>5, <1>6, MovesPublishRead, MovesPublishSend

LEMMA LeftStepAlone ==
    ASSUME TypeInv, GroupsInv, NEW o \in Op, Alone(o), Left(o), Holds(o), Steps(o)
    PROVE  Left(o)'
<1>1. CASE AssertBegin(o) \/ AssertCheck(o) \/ AssertRecheck(o)
  BY <1>1, LeftAssert, LeftRecheck
<1>2. CASE \E t \in Tab : OpenBegin(o, t) \/ AdoptBegin(o, t)
  BY <1>2, LeftBegin
<1>3. CASE GrantLook(o) \/ GrantMark(o) \/ GrantGroup(o) \/ GrantVerify(o)
             \/ GrantRecord(o) \/ GrantUndo(o) \/ Discard(o)
  BY <1>3, LeftLook, LeftMark, LeftGroup, LeftVerify, LeftRecord, LeftUndo, LeftDiscard
<1>4. CASE RevokeBegin(o) \/ MovedBegin(o) \/ MovedWhere(o) \/ Revoke(o)
  BY <1>4, LeftMoved, LeftRevoke
<1>5. CASE ReconcileBegin(o) \/ Sweep(o)
  BY <1>5, LeftReconcile, LeftSweep
<1>6. CASE EndBegin(o) \/ Classify(o) \/ Forget(o) \/ Release(o) \/ Remove(o)
  BY <1>6, LeftEnd, LeftForget, LeftRelease, LeftRemove
<1>7. CASE PublishRead(o) \/ PublishSend(o)
  BY <1>7, LeftPublish
<1>8. QED  BY <1>1, <1>2, <1>3, <1>4, <1>5, <1>6, <1>7 DEF Steps

(* A closed tab is never opened again. *)
LEMMA ClosedStays ==
    ASSUME TypeInv, Next, NEW t \in Tab, Closed(t)
    PROVE  Closed(t)'
<1>1. ASSUME NEW u \in Tab, NEW by \in {"user", "child", "agent"}, Opens(u, by)
      PROVE  Closed(t)'
  BY <1>1, OpensIs DEF Closed
<1>2. ASSUME NEW ts \in SUBSET Tab, Closes(ts) \/ Lets(ts)
      PROVE  Closed(t)'
  BY <1>2, ClosesIs, LetsIs DEF Closed
<1>3. ASSUME NEW u \in Tab, NEW g \in Groups, Moves(u, g)
      PROVE  Closed(t)'
  BY <1>3, MovesIs DEF Closed
<1>4. UNCHANGED tab => Closed(t)'
  BY DEF Closed
<1>5. QED  BY <1>1, <1>2, <1>3, <1>4, HowTabsMove

(* What an operation knows when it does not work, or has just ended. *)
LEMMA KnownAside ==
    ASSUME TypeInv, NEW q \in Op, call'[q] = call[q], ~Works(call[q]), TabKnown(call[q]),
           \A t \in Tab : Closed(t) => Closed(t)'
    PROVE  TabKnown(call[q])' /\ TabsKnown(call[q])'
<1>1. CallOK(call[q])
  BY CallFacts
<1>2. call[q].kind = "removed" => Closed(call[q].tab)'
  BY <1>1 DEF CallOK, TabKnown
<1>3. call[q].pc \in {"idle", "queued"}
        \/ (call[q].pc \in {"publish", "send"} /\ call[q].then = "done")
  BY <1>1 DEF CallOK, Works
<1>4. QED  BY <1>2, <1>3, KnownAnyhow

(* What it still knows after the user did something to the tabs. *)
LEMMA KnownBeside ==
    ASSUME TypeInv, LedgerLeft', NEW q \in Op, call'[q] = call[q],
           TabKnown(call[q]), TabsKnown(call[q]), Holds(q),
           UNCHANGED <<ledger, letGo>>, touched \subseteq touched',
           \A t \in Tab : Closed(t) => Closed(t)',
           \A t \in Tab : \/ tab'[t] = tab[t] \/ t \in touched'
                          \/ /\ tab[t].state = "new" /\ tab'[t].state = "open"
                             /\ tab'[t].group = NoGroup /\ tab'[t].by # "agent"
    PROVE  TabKnown(call[q])' /\ TabsKnown(call[q])'
<1> DEFINE c == call[q]
<1>1. CallOK(c) /\ c \in Call
  BY CallFacts
<1>2. \A t, g : InGroup(t, g) => InGroup(t, g)' \/ t \in touched'
  BY DEF InGroup, IsOpen
<1>3. \A t : Owned(t)' => Owned(t)
  BY DEF Owned, Owners
<1>4. ASSUME NEW t, Loose(t)
      PROVE  Loose(t)'
  BY <1>4 DEF Loose
<1>5. c.kind = "removed" => c.tab \in Tab /\ Closed(c.tab) /\ Closed(c.tab)'
  BY <1>1 DEF CallOK, TabKnown
<1>6. c.pc = "check" => c.seen = ledger'[c.task] /\ Subject(c) \in c.seen.tabs
  BY DEF TabKnown
<1>7. c.pc = "look" /\ c.kind \in {"open", "request"} =>
         tab'[c.tab].group = NoGroup \/ c.tab \in touched'
  <2>1. ASSUME c.pc = "look" PROVE c.tab \in Tab
    BY <1>1, <2>1 DEF CallOK, InGrant, Granting
  <2>2. QED  BY <2>1 DEF TabKnown
<1>8. c.pc = "mark" => c.tab \in ledger'[c.task].tabs
  BY DEF TabKnown
<1>9. PICK u : u = c.tab
  OBVIOUS
<1>10. ASSUME Unowned(c)
       PROVE  /\ ~Owned(u)'
              /\ \/ Loose(u)'
                 \/ c.was = NoGroup /\ (c.kind \in {"adopt", "child"} => tab'[u].by # "agent")
  <2>1. u \in Tab
    BY <1>1, <1>9, <1>10 DEF CallOK, InGrant, Granting, Unowned
  <2>2. /\ ~Owned(u)
        /\ \/ Loose(u)
           \/ c.was = NoGroup /\ (c.kind \in {"adopt", "child"} => tab[u].by # "agent")
    BY <1>9, <1>10 DEF TabKnown
  <2>3. u \in touched' => Loose(u)'
    BY DEF Loose
  <2>4. QED  BY <1>3, <1>4, <2>1, <2>2, <2>3
<1>11. PICK d : d = c.group
  OBVIOUS
<1>12. c.pc = "record" => u \in touched' \/ InGroup(u, d)' \/ Closed(u)'
  <2>1. ASSUME c.pc = "record" PROVE u \in Tab
    BY <1>1, <1>9, <2>1 DEF CallOK, InGrant, Granting
  <2>2. c.pc = "record" => u \in touched \/ InGroup(u, d) \/ Closed(u)
    BY <1>9, <1>11 DEF TabKnown
  <2>3. QED  BY <1>2, <2>1, <2>2
<1>13. c.pc = "where" => \E k \in Task : c.tab \in ledger'[k].tabs /\ c.group = ledger'[k].group
  BY DEF TabKnown
<1>14. PICK s : s = Subject(c)
  OBVIOUS
<1>15. c.pc = "revoke" =>
          IF c.then = "group" THEN Loose(u)' ELSE s \in touched' \/ Closed(s)'
  <2>1. c.pc = "revoke" => IF c.then = "group" THEN Loose(u) ELSE s \in touched \/ Closed(s)
    BY <1>9, <1>14 DEF TabKnown
  <2>2. Closed(s) => Closed(s)'
    BY DEF Closed
  <2>3. QED  BY <1>4, <2>1, <2>2
<1>16. TabKnown(call[q])'
  BY <1>5, <1>6, <1>7, <1>8, <1>9, <1>10, <1>11, <1>12, <1>13, <1>14, <1>15
  DEF TabKnown, Unowned, Subject
<1>17. c.pc = "sweep" => \A k \in Task : \A t \in ledger[k].tabs :
          t \in touched' \/ Closed(t)' \/ <<t, ledger[k].group>> \in c.pairs
  <2>1. \A t : Closed(t) => Closed(t)'
    BY DEF Closed
  <2>2. QED  BY <2>1 DEF TabsKnown
<1>18. c.pc = "forget" /\ c.kind # "close" =>
          \A t \in c.seen.tabs : IsOpen(t)' => t \in touched' \cup c.keep \cup c.doomed
  <2>1. ASSUME c.pc = "forget", c.kind # "close", NEW t \in c.seen.tabs, IsOpen(t)',
               t \notin touched'
        PROVE  t \in c.keep \cup c.doomed
    <3>1. c.task \in Task /\ ledger[c.task] = c.seen
      BY <1>1, <2>1 DEF CallOK, Ending, Holds, Knows
    <3>2. PICK g : g = ledger[c.task].group
      OBVIOUS
    <3>3. Closed(t)' \/ InGroup(t, g)'
      BY <2>1, <3>1, <3>2 DEF LedgerLeft
    <3>4. IsOpen(t)
      BY <2>1, <3>3 DEF Closed, InGroup, IsOpen
    <3>5. QED  BY <2>1, <3>4 DEF TabsKnown
  <2>2. QED  BY <2>1
<1>19. PICK h : h = c.seen.group
  OBVIOUS
<1>20. c.pc \in {"forget", "release"} =>
          \A t \in c.doomed : t \in touched' \/ Closed(t)' \/ InGroup(t, h)'
  <2>1. c.doomed \subseteq Tab
    BY <1>1 DEF Call
  <2>2. c.pc \in {"forget", "release"} =>
           \A t \in c.doomed : t \in touched \/ Closed(t) \/ InGroup(t, h)
    BY <1>19 DEF TabsKnown
  <2>3. QED  BY <1>2, <2>1, <2>2
<1>21. TabsKnown(call[q])'
  BY <1>17, <1>18, <1>19, <1>20 DEF TabsKnown
<1>22. QED  BY <1>16, <1>21

(* The user and the pages: what they touch is theirs, and a page opens no tab *)
(* for a task.                                                               *)
LEMMA LeftChrome ==
    ASSUME TypeInv, AllLeft, \A q \in Op : Holds(q), Chrome
    PROVE  AllLeft'
<1>1. UNCHANGED <<ledger, call, letGo>>
  BY ChromeStays DEF LedgerStays, GhostsStay
<1> DEFINE Sets(t) == /\ tab[t].state = "new" /\ tab'[t].state = "open"
                      /\ tab'[t].group = NoGroup /\ tab'[t].by # "agent"
<1> DEFINE G == /\ touched \subseteq touched'
                /\ \A t \in Tab : tab'[t] = tab[t] \/ t \in touched' \/ Sets(t)
                /\ \A e \in Heard' : e \in Heard \/ (e.kind = "removed" => Closed(e.tab)')
<1>2. ASSUME TabsStay, UNCHANGED events
      PROVE  G
  BY <1>2 DEF TabsStay, Heard
<1>3. ASSUME NEW u \in Tab, NEW by \in {"user", "child"}, Opens(u, by), UNCHANGED touched,
             \A e \in Heard' : e \in Heard \/ e.kind # "removed"
      PROVE  G
  <2>1. /\ tab[u].state = "new" /\ tab'[u].state = "open" /\ tab'[u].group = NoGroup
        /\ tab'[u].by # "agent" /\ \A t \in Tab : t # u => tab'[t] = tab[t]
    BY <1>3, OpensIs
  <2>2. QED  BY <1>3, <2>1
<1>4. ASSUME NEW u \in Tab, UserOpens(u)
      PROVE  G
  <2>1. Opens(u, "user") /\ UNCHANGED <<touched, events>>
    BY <1>4 DEF UserOpens
  <2>2. Heard' = Heard
    BY <2>1 DEF Heard
  <2>3. QED  BY <1>3, <2>1, <2>2
<1>5. ASSUME NEW u \in Tab, NEW p \in Tab, PageOpens(u, p)
      PROVE  G
  <2>1. Opens(u, "child") /\ UNCHANGED touched /\ Raise("child", u, p)
    BY <1>5 DEF PageOpens
  <2>2. PICK e : e = [kind |-> "child", tab |-> u, parent |-> p]
    OBVIOUS
  <2>3. Heard' = Heard \cup {e} /\ e.kind = "child"
    BY <2>1, <2>2, HeardRaised
  <2>4. QED  BY <1>3, <2>1, <2>3
<1>6. ASSUME NEW u \in Tab, NEW kind \in {"moved", "removed"}, Leaves(kind, u),
             touched' = touched \cup {u}, \A t \in Tab : t # u => tab'[t] = tab[t],
             kind = "removed" => Closed(u)'
      PROVE  G
  <2>1. PICK e, f : /\ e = [kind |-> kind, tab |-> u, parent |-> None]
                    /\ f = [kind |-> "reconcile", tab |-> None, parent |-> None]
    OBVIOUS
  <2>2. /\ \A d \in Heard' : d \in Heard \/ d = e \/ d = f
        /\ e.kind = kind /\ e.tab = u /\ f.kind = "reconcile"
    BY <1>6, <2>1, HeardLeaves
  <2>3. \A d \in Heard' : d \in Heard \/ (d.kind = "removed" => Closed(d.tab)')
    BY <1>6, <2>2
  <2>4. QED  BY <1>6, <2>3
<1>7. ASSUME NEW u \in Tab, UserCloses(u)
      PROVE  G
  <2>1. Closes({u}) /\ Leaves("removed", u) /\ touched' = touched \cup {u} /\ {u} \in SUBSET Tab
    BY <1>7 DEF UserCloses
  <2>2. tab'[u].state = "closed" /\ \A t \in Tab : t # u => tab'[t] = tab[t]
    BY <2>1, ClosesIs
  <2>3. QED  BY <1>6, <2>1, <2>2 DEF Closed
<1>8. ASSUME NEW u \in Tab, NEW h \in Groups, UserMoves(u, h)
      PROVE  G
  <2>1. Moves(u, h) /\ Leaves("moved", u) /\ touched' = touched \cup {u}
    BY <1>8 DEF UserMoves, Moves
  <2>2. \A t \in Tab : t # u => tab'[t] = tab[t]
    BY <2>1, MovesIs
  <2>3. QED  BY <1>6, <2>1, <2>2
<1>9. G
  BY <1>2, <1>4, <1>5, <1>7, <1>8, ChromeStays
<1>10. \A t \in Tab : Closed(t) => Closed(t)'
  BY ClosedStays DEF Next
<1>11. LedgerLeft'
  <2>1. \A t, g : InGroup(t, g) => InGroup(t, g)' \/ t \in touched'
    BY <1>9 DEF InGroup, IsOpen
  <2>2. QED  BY <1>1, <1>9, <1>10, <2>1, LedgerLeftKept DEF AllLeft
<1>12. EventsLeft'
  BY <1>9, <1>10, EventsLeftKept DEF AllLeft
<1>13. AllAnswered'
  <2>1. ASSUME NEW t \in Tab, Needs(t)'
        PROVE  Needs(t)
    BY <1>1, <1>9, <2>1 DEF Needs, Loose, IsOpen
  <2>2. QED  BY <1>1, <2>1 DEF AllLeft, AllAnswered, Owned, Owners
<1>14. \A q \in Op : TabKnown(call[q])' /\ TabsKnown(call[q])'
  BY <1>1, <1>9, <1>10, <1>11, KnownBeside DEF AllLeft
<1>15. QED  BY <1>11, <1>12, <1>13, <1>14 DEF AllLeft

(* What happens beside the operation that works, with the tabs where they were. *)
LEMMA LeftBeside ==
    ASSUME TypeInv, AllLeft, UNCHANGED <<ledger, tab, touched, letGo>>, Heard' \subseteq Heard,
           NEW o \in Op, \A q \in Op : q # o => call'[q] = call[q],
           \A t : ~Answers(call[o], t), TabKnown(call[o])', TabsKnown(call[o])'
    PROVE  AllLeft'
<1>1. \A t \in Tab : Closed(t) => Closed(t)'
  BY DEF Closed
<1>2. LedgerLeft'
  <2>1. \A t, g : InGroup(t, g) => InGroup(t, g)'
    BY DEF InGroup, IsOpen
  <2>2. QED  BY <1>1, <2>1, LedgerLeftKept DEF AllLeft
<1>3. EventsLeft'
  BY <1>1, EventsLeftKept DEF AllLeft
<1>4. AllAnswered'
  <2>1. ASSUME NEW t \in Tab, Needs(t)', ~Owned(t)'
        PROVE  \E q \in Op : Answers(call'[q], t)
    <3>1. Needs(t) /\ ~Owned(t)
      BY <2>1 DEF Needs, Loose, IsOpen, Owned, Owners
    <3>2. PICK q \in Op : Answers(call[q], t)
      BY <3>1 DEF AllLeft, AllAnswered
    <3>3. call'[q] = call[q]
      BY <3>2
    <3>4. QED  BY <3>2, <3>3
  <2>2. QED  BY <2>1 DEF AllAnswered
<1>5. ASSUME NEW q \in Op, q # o
      PROVE  TabKnown(call[q])' /\ TabsKnown(call[q])'
  <2>1. call'[q] = call[q]
    BY <1>5
  <2>2. QED
    BY <2>1 DEF AllLeft, TabKnown, TabsKnown, Unowned, Closed, Loose, InGroup, IsOpen, Owned, Owners
<1>6. QED  BY <1>2, <1>3, <1>4, <1>5 DEF AllLeft

LEMMA LeftBegun ==
    ASSUME TypeInv, AllLeft, Commands \/ \E o \in Op : Deliver(o)
    PROVE  AllLeft'
<1>1. UNCHANGED <<ledger, tab, touched, letGo>>
  BY CommandsStay, DeliverStays DEF LedgerStays, TabsStay, GhostsStay
<1>2. Heard' \subseteq Heard
  <2>1. Commands => Heard' = Heard
    BY CommandsStay DEF Heard
  <2>2. QED  BY <2>1, MovesDeliver
<1>3. PICK o \in Op, x \in Call :
         /\ call[o].pc = "idle" /\ Becomes(o, x) /\ x.then = "done"
         /\ x.kind = "removed" => \E e \in Heard : e.kind = "removed" /\ e.tab = x.tab
         /\ x.pc \in {"queued", "publish"}
  BY Begun
<1>4. call'[o] = x /\ \A q \in Op : q # o => call'[q] = call[q]
  BY <1>3 DEF Becomes
<1>5. \A t : ~Answers(call[o], t)
  <2>1. call[o] = Idle
    BY <1>3, CallFacts DEF CallOK
  <2>2. QED  BY <2>1 DEF Answers, InGrant, Granting, Idle
<1>6. x.kind = "removed" => Closed(x.tab)'
  BY <1>1, <1>3 DEF AllLeft, EventsLeft, Closed
<1>7. TabKnown(call[o])' /\ TabsKnown(call[o])'
  BY <1>3, <1>4, <1>6, KnownAnyhow
<1>8. QED  BY <1>1, <1>2, <1>4, <1>5, <1>7, LeftBeside

LEMMA LeftAnnounced ==
    ASSUME TypeInv, AllLeft, NEW o \in Op, Steps(o), call[o].kind = "announce"
    PROVE  AllLeft'
<1>1. UNCHANGED <<ledger, tab, touched, letGo>> /\ Heard' \subseteq Heard
  BY AnnounceMoves DEF Heard
<1>2. \A q \in Op : q # o => call'[q] = call[q]
  BY AnnounceMoves
<1>3. \A t : ~Answers(call[o], t)
  BY AnnounceMoves DEF Answers, InGrant, Granting
<1>4. TabKnown(call[o])' /\ TabsKnown(call[o])'
  <2>1. call'[o].kind # "removed"
    BY AnnounceMoves DEF Idle
  <2>2. call'[o].pc = "idle" \/ (call'[o].pc = "send" /\ call'[o].then = "done")
    BY AnnounceMoves DEF Idle
  <2>3. QED  BY <2>1, <2>2, KnownAnyhow
<1>5. QED  BY <1>1, <1>2, <1>3, <1>4, LeftBeside

LEMMA RestartsStay ==
    ASSUME Commands \/ Chrome \/ Overrun \/ \E o \in Op : Steps(o) \/ Deliver(o)
    PROVE  UNCHANGED restarts
<1>1. ASSUME NEW o \in Op, Steps(o)
      PROVE  UNCHANGED restarts
  BY <1>1, StepsAre, WalkingStays, OpeningStays, StoringStays, OthersStay DEF FaultsStay
<1>2. ASSUME NEW o \in Op, Deliver(o)
      PROVE  UNCHANGED restarts
  BY <1>2, DeliverStays DEF FaultsStay
<1>3. QED  BY <1>1, <1>2, CommandsStay, ChromeStays, FaultStays DEF FaultsStay

LEMMA LeftStep ==
    ASSUME TypeInv, ChainInv, GroupsInv, PlaceInv, LeftInv, Next
    PROVE  LeftInv'
<1>1. /\ restarts' = restarts \/ Restart
      /\ Restart => restarts' = restarts + 1
  BY RestartsStay DEF Next, Restart
<1>2. restarts' \in Nat
  BY <1>1 DEF LeftInv
<1>3. SUFFICES ASSUME Orderly', restarts' = 0
               PROVE  AllLeft'
  BY <1>2 DEF LeftInv
<1>4. ~Restart /\ restarts = 0
  BY <1>1, <1>3 DEF LeftInv
<1>5. UNCHANGED overruns \/ Overrun
  BY <1>4, CommandsStay, DeliverStays, StepsStay, ChromeStays DEF Next, FaultsStay
<1>6. ~Overrun
  BY <1>3 DEF Overrun, ChainInv, Orderly
<1>7. Orderly /\ AllLeft /\ \A q \in Op : Holds(q)
  BY <1>3, <1>4, <1>5, <1>6 DEF PlaceInv, LeftInv, Holds, Orderly
<1>8. CASE Commands \/ \E o \in Op : Deliver(o)
  BY <1>7, <1>8, LeftBegun
<1>9. CASE Chrome
  BY <1>7, <1>9, LeftChrome
<1>10. ASSUME NEW o \in Op, Steps(o)
       PROVE  AllLeft'
  <2>1. CASE call[o].kind = "announce"
    BY <1>7, <1>10, <2>1, LeftAnnounced
  <2>2. CASE call[o].kind # "announce"
    <3>1. Alone(o)
      BY <1>7, <1>10, <2>2, StepsAlone
    <3>2. Left(o)'
      BY <1>7, <1>10, <3>1, LeftStepAlone DEF AllLeft, Left
    <3>3. ASSUME NEW q \in Op, q # o
          PROVE  TabKnown(call[q])' /\ TabsKnown(call[q])'
      <4>1. call'[q] = call[q] /\ ~Works(call[q]) /\ TabKnown(call[q])
        BY <1>7, <3>1, <3>3 DEF Alone, AllLeft
      <4>2. \A t \in Tab : Closed(t) => Closed(t)'
        BY ClosedStays
      <4>3. QED  BY <4>1, <4>2, KnownAside
    <3>4. QED  BY <3>2, <3>3 DEF Left, AllLeft
  <2>3. QED  BY <2>1, <2>2
<1>11. QED  BY <1>4, <1>6, <1>8, <1>9, <1>10 DEF Next

LEMMA LeftInit ==
    ASSUME TypeInv, Init
    PROVE  LeftInv
<1>1. /\ restarts = 0 /\ events = <<>> /\ \A k \in Task : ledger[k] = NoTask
      /\ \A o \in Op : call[o] = Idle
  BY DEF Init, chromeVars, stored, faults
<1>2. LedgerLeft
  BY <1>1, NoTaskIs DEF LedgerLeft
<1>3. EventsLeft
  BY <1>1 DEF EventsLeft, Heard
<1>4. AllAnswered
  BY DEF Init, AllAnswered, Needs, IsOpen, Loose
<1>5. TabKnown(Idle) /\ TabsKnown(Idle)
  BY DEF TabKnown, TabsKnown, Unowned, Idle
<1>6. QED  BY <1>1, <1>2, <1>3, <1>4, <1>5 DEF LeftInv, AllLeft

LEMMA LeftStutter ==
    ASSUME LeftInv, UNCHANGED vars
    PROVE  LeftInv'
<1>1. UNCHANGED <<tab, events, ledger, call, overruns, restarts, touched, letGo>>
  BY DEF vars, chromeVars, stored, faults, ghosts
<1>2. Heard' = Heard /\ \A o : call'[o] = call[o]
  BY <1>1 DEF Heard
<1>3. QED
  BY <1>1, <1>2 DEF LeftInv, Orderly, AllLeft, LedgerLeft, EventsLeft, AllAnswered, Needs, Loose,
     Answers, InGrant, TabKnown, TabsKnown, Unowned, Closed, InGroup, IsOpen, Owned, Owners

(* An operation that is over answers for nothing. *)
LEMMA LeftAtRest ==
    ASSUME LeftInv
    PROVE  NothingLeftBehind
<1>1. ASSUME Quiet, Orderly, restarts = 0, NEW t \in Tab, Needs(t)
      PROVE  Owned(t)
  <2>1. Owned(t) \/ \E o \in Op : Answers(call[o], t)
    BY <1>1 DEF LeftInv, AllLeft, AllAnswered
  <2>2. \A o \in Op : call[o].pc = "idle"
    BY <1>1 DEF Quiet
  <2>3. \A o \in Op : ~Answers(call[o], t)
    BY <2>2 DEF Answers, InGrant, Granting
  <2>4. QED  BY <2>1, <2>3
<1>2. QED  BY <1>1 DEF NothingLeftBehind, Needs, Loose

(* Once every event is handled and every operation over, no tab that the agent   *)
(* opened and no tab in a group that grant made is left without a task           *)
(* (ownership.ts): until grant has recorded the tab the operation at work will   *)
(* record it, put it back where it was or close it, and a tab that has left the  *)
(* ledger was moved by the user, let go by its task, or closed.  Not so once an  *)
(* operation overran its hold, or a worker died between chrome.tabs.create and   *)
(* the record.                                                                   *)
THEOREM NothingIsLeft == Spec => []NothingLeftBehind
<1> DEFINE IInv == TypeInv /\ ChainInv /\ GroupsInv /\ PlaceInv /\ LeftInv
<1>1. Init => IInv
  BY TypeInit, ChainInit, GroupsInit, PlaceInit, LeftInit
<1>2. IInv /\ Next => IInv'
  BY TypeStep, ChainStep, GroupsStep, PlaceStep, LeftStep
<1>3. IInv /\ UNCHANGED vars => IInv'
  BY TypeStutter, GroupsStutter, PlaceStutter, LeftStutter
<1>4. IInv => NothingLeftBehind
  BY LeftAtRest
<1>5. QED  BY <1>1, <1>2, <1>3, <1>4, PTL DEF Spec

================================
