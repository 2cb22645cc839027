---- MODULE ExtensionSchedulerProofs ----
(***************************************************************************)
(* Proofs about ExtensionScheduler for any number of operations, tabs and  *)
(* tasks, and any number of stops and invalidations.                       *)
(***************************************************************************)
EXTENDS ExtensionScheduler, TLAPS

(* A lane is what a tail stands for: a tab, a task, or the work that is    *)
(* global.  An operation is a member of the lanes whose tail it becomes,   *)
(* and awaits the lanes whose tails it finds.                              *)
Lane == [kind : {"global"}, of : {None}] \cup [kind : {"tab"}, of : Tab]
           \cup [kind : {"task"}, of : Task]

GlobalWork == {"global", "profileWrite", "profileRead"}

Member(o, l) ==
    \/ l.kind = "tab" /\ op[o].tab = l.of
    \/ l.kind = "task" /\ op[o].task = l.of
    \/ l.kind = "global" /\ op[o].class \in GlobalWork

Awaits(o, l) ==
    \/ l.kind = "global" \/ Member(o, l)
    \/ l.kind = "tab" /\ op[o].class \in {"global", "profileWrite"}

TailOf(l) ==
    IF l.kind = "tab" THEN tabTail[l.of]
    ELSE IF l.kind = "task" THEN taskTail[l.of]
    ELSE globalTail

(* What enqueueTab, readAfterWrites, enqueueGlobal and enqueueProfile make. *)
ShapeOK(c) ==
    \/ c.class = "tab" /\ c.task \in Task /\ c.tab \in Tab
    \/ c.class = "read" /\ c.task = None /\ c.tab \in Tab
    \/ c.class \in GlobalWork /\ c.task = None /\ c.tab = None

Shaped == \A o \in Pending : ShapeOK(op[o])

(* The order in which pending operations were accepted, as ranks below n.  *)
(* An operation that awaits a lane with an earlier pending member waits    *)
(* for a pending member at least as late as that one, and the tail of a    *)
(* lane is its latest pending member.                                      *)
InOrder(rank, n) ==
    /\ \A o \in Pending : rank[o] < n
    /\ \A o, q \in Pending : rank[o] = rank[q] => o = q
    /\ \A l \in Lane, o, q \in Pending :
         Member(o, l) /\ Awaits(q, l) /\ rank[o] < rank[q]
           => /\ op[q].phase = "queued"
              /\ \E p \in op[q].waits \cap Pending :
                   Member(p, l) /\ rank[o] <= rank[p] /\ rank[p] < rank[q]
    /\ \A l \in Lane, o \in Pending :
         Member(o, l) => /\ TailOf(l) \in Pending /\ Member(TailOf(l), l)
                         /\ rank[o] <= rank[TailOf(l)]

Ordered == \E rank \in [Op -> Nat], n \in Nat : InOrder(rank, n)

Types ==
    /\ TypeOK
    /\ lifecycleEpoch <= epoch
    /\ accepting => lifecycle

ChainInv == Types /\ Shaped /\ Ordered

--------------------------------
LEMMA EnqueuedFacts ==
    ASSUME Types, NEW o \in Op, NEW class \in Class, NEW task \in Task \cup {None},
           NEW tab \in Tab \cup {None}, class = "tab" => tab \in Tab, NEW waits,
           Enqueued(o, class, task, tab, waits)
    PROVE  /\ op' \in [Op -> Call]
           /\ \A q \in Op : q # o => op'[q] = op[q]
           /\ op'[o].phase = "queued" /\ op'[o].class = class /\ op'[o].task = task
           /\ op'[o].tab = tab /\ op'[o].waits = Unsettled(waits)
           /\ op'[o].epoch = (IF class \in Profile THEN lifecycleEpoch ELSE epoch)
           /\ class = "tab" => op'[o].generation = generation[tab]
<1> DEFINE c == [phase |-> "queued", class |-> class, task |-> task, tab |-> tab,
                 waits |-> Unsettled(waits),
                 epoch |-> IF class \in Profile THEN lifecycleEpoch ELSE epoch,
                 generation |-> IF class = "tab" THEN generation[tab] ELSE 0]
<1>1. op' = [op EXCEPT ![o] = c] /\ op \in [Op -> Call]
    BY DEF Enqueued, Types, TypeOK
<1>2. Unsettled(waits) \in SUBSET Op
    BY DEF Unsettled, Pending, In
<1>3. c \in Call
    BY <1>2, SchedulerAssumption DEF Call, Class, Types, TypeOK
<1>4. /\ c.phase = "queued" /\ c.class = class /\ c.task = task
      /\ c.tab = tab /\ c.waits = Unsettled(waits)
      /\ c.epoch = (IF class \in Profile THEN lifecycleEpoch ELSE epoch)
      /\ class = "tab" => c.generation = generation[tab]
    OBVIOUS
<1> HIDE DEF c
<1> QED
    BY <1>1, <1>3, <1>4

LEMMA DispatchFacts ==
    ASSUME Types, NEW o \in Op, Dispatch(o)
    PROVE  /\ op' \in [Op -> Call]
           /\ \A q \in Op : q # o => op'[q] = op[q]
           /\ op'[o].phase = (IF Admitted(o) THEN "running" ELSE "settled")
           /\ op'[o].class = op[o].class /\ op'[o].task = op[o].task
           /\ op'[o].tab = op[o].tab
<1> DEFINE c == [op[o] EXCEPT !.phase = IF Admitted(o) THEN "running" ELSE "settled",
                              !.waits = {}]
<1>1. op \in [Op -> Call] /\ op[o] \in Call
    BY DEF Types, TypeOK
<1>2. op' = [op EXCEPT ![o] = c]
    BY <1>1 DEF Dispatch
<1>3. /\ c \in Call /\ c.phase = (IF Admitted(o) THEN "running" ELSE "settled")
      /\ c.class = op[o].class /\ c.task = op[o].task /\ c.tab = op[o].tab
    BY <1>1 DEF Call
<1> HIDE DEF c
<1> QED
    BY <1>1, <1>2, <1>3

LEMMA SettleFacts ==
    ASSUME Types, NEW o \in Op, Settle(o)
    PROVE  /\ op' \in [Op -> Call]
           /\ \A q \in Op : q # o => op'[q] = op[q]
           /\ op'[o].phase = "settled"
           /\ op'[o].class = op[o].class /\ op'[o].task = op[o].task
           /\ op'[o].tab = op[o].tab
<1> DEFINE c == [op[o] EXCEPT !.phase = "settled"]
<1>1. op \in [Op -> Call] /\ op[o] \in Call
    BY DEF Types, TypeOK
<1>2. op' = [op EXCEPT ![o] = c]
    BY <1>1 DEF Settle
<1>3. /\ c \in Call /\ c.phase = "settled"
      /\ c.class = op[o].class /\ c.task = op[o].task /\ c.tab = op[o].tab
    BY <1>1 DEF Call
<1> HIDE DEF c
<1> QED
    BY <1>1, <1>2, <1>3

--------------------------------
LEMMA TypesInit == Init => Types
<1> SUFFICES ASSUME Init PROVE Types
    OBVIOUS
<1>1. op \in [Op -> Call]
    BY SchedulerAssumption DEF Init, Call, Class
<1>2. /\ paused \in BOOLEAN /\ accepting \in BOOLEAN /\ lifecycle \in BOOLEAN
      /\ permissions \in BOOLEAN /\ accepting => lifecycle
    BY Zenon DEF Init
<1>3. /\ epoch \in 0..MaxStops /\ lifecycleEpoch \in 0..MaxStops /\ lifecycleEpoch <= epoch
      /\ invalidations \in 0..MaxInvalidations
    BY SchedulerAssumption DEF Init
<1> QED
    BY <1>1, <1>2, <1>3 DEF Init, Types, TypeOK

LEMMA TypesEnqueue ==
    ASSUME Types, NEW o \in Op,
           \/ \E a \in Task, b \in Tab : EnqueueTab(o, a, b)
           \/ \E b \in Tab : ReadAfterWrites(o, b)
           \/ EnqueueGlobal(o)
           \/ \E class \in Profile : EnqueueProfile(o, class)
    PROVE  Types'
<1>1. CASE \E a \in Task, b \in Tab : EnqueueTab(o, a, b)
  <2>1. PICK a \in Task, b \in Tab : EnqueueTab(o, a, b)
      BY <1>1
  <2>2. op' \in [Op -> Call]
      BY <2>1, EnqueuedFacts DEF EnqueueTab, Class
  <2> QED
      BY <2>1, <2>2 DEF EnqueueTab, Types, TypeOK, admission, parties
<1>2. CASE \E b \in Tab : ReadAfterWrites(o, b)
  <2>1. PICK b \in Tab : ReadAfterWrites(o, b)
      BY <1>2
  <2>2. op' \in [Op -> Call]
      BY <2>1, EnqueuedFacts DEF ReadAfterWrites, Class
  <2> QED
      BY <2>1, <2>2 DEF ReadAfterWrites, Types, TypeOK, admission, parties
<1>3. CASE EnqueueGlobal(o)
  <2>1. op' \in [Op -> Call]
      BY <1>3, EnqueuedFacts DEF EnqueueGlobal, Class
  <2> QED
      BY <1>3, <2>1 DEF EnqueueGlobal, Types, TypeOK, admission, parties
<1>4. CASE \E class \in Profile : EnqueueProfile(o, class)
  <2>1. PICK class \in Profile : EnqueueProfile(o, class)
      BY <1>4
  <2>2. class \in Class /\ class # "tab"
      BY DEF Class, Profile
  <2>3. op' \in [Op -> Call]
      BY <2>1, <2>2, EnqueuedFacts DEF EnqueueProfile
  <2> QED
      BY <2>1, <2>3 DEF EnqueueProfile, Types, TypeOK, admission, parties
<1> QED
    BY <1>1, <1>2, <1>3, <1>4

LEMMA TypesStep == Types /\ [Next]_vars => Types'
<1> SUFFICES ASSUME Types, [Next]_vars PROVE Types'
    OBVIOUS
<1> USE SchedulerAssumption DEF admission, tails, parties
<1>1. ASSUME NEW o \in Op,
             \/ \E a \in Task, b \in Tab : EnqueueTab(o, a, b)
             \/ \E b \in Tab : ReadAfterWrites(o, b)
             \/ EnqueueGlobal(o)
             \/ \E class \in Profile : EnqueueProfile(o, class)
      PROVE  Types'
    BY <1>1, TypesEnqueue
<1>2. ASSUME NEW o \in Op, Dispatch(o) PROVE Types'
  <2>1. op' \in [Op -> Call]
      BY <1>2, DispatchFacts
  <2>2. UNCHANGED <<admission, tails, generation, drain, parties, barred, invalidations>>
      BY <1>2 DEF Dispatch
  <2> QED
      BY <2>1, <2>2 DEF Types, TypeOK
<1>3. ASSUME NEW o \in Op, Settle(o) PROVE Types'
  <2>1. op' \in [Op -> Call]
      BY <1>3, SettleFacts
  <2>2. UNCHANGED <<admission, tails, generation, drain, parties, barred, invalidations>>
      BY <1>3 DEF Settle
  <2> QED
      BY <2>1, <2>2 DEF Types, TypeOK
<1>4. ASSUME NEW b \in Tab, ForgetTab(b) \/ InvalidateTab(b) PROVE Types'
    BY <1>4 DEF ForgetTab, InvalidateTab, In, Types, TypeOK
<1>5. ASSUME NEW a \in Task, ForgetTask(a) PROVE Types'
    BY <1>5 DEF ForgetTask, Types, TypeOK
<1>6. CASE RevokePermissions \/ RestorePermissions
  <2>1. /\ accepting' \in BOOLEAN /\ permissions' \in BOOLEAN
        /\ UNCHANGED <<lifecycle, lifecycleEpoch, tails, generation, op, drain, parties,
                       invalidations>>
        /\ accepting' => lifecycle
    <3>1. /\ permissions \in BOOLEAN /\ lifecycle \in BOOLEAN
        BY DEF Types, TypeOK
    <3>2. /\ \/ accepting' = FALSE /\ permissions' = FALSE
             \/ accepting' = lifecycle /\ permissions' = TRUE
          /\ UNCHANGED <<lifecycle, lifecycleEpoch, tails, generation, op, drain, parties,
                         invalidations>>
        BY <1>6 DEF RevokePermissions, RestorePermissions
    <3>3. accepting' \in BOOLEAN /\ permissions' \in BOOLEAN
        BY <3>1, <3>2
    <3>4. accepting' => lifecycle
        BY <3>1, <3>2
    <3> QED
        BY <3>2, <3>3, <3>4
  <2>2. epoch' \in 0..MaxStops /\ epoch' >= epoch /\ barred' \subseteq Op
      BY <1>6 DEF RevokePermissions, RestorePermissions, In, Types, TypeOK
  <2>3. lifecycleEpoch' <= epoch'
      BY <2>1, <2>2 DEF Types, TypeOK
  <2> QED
      BY <2>1, <2>2, <2>3 DEF Types, TypeOK
<1>7. CASE Drained \/ PausePersists \/ ResumePersists \/ Connect \/ ReadyDrained
           \/ ReadyPersists \/ ReadyReads
  <2>1. /\ UNCHANGED <<admission, tails, generation, op, barred, invalidations>>
        /\ drain' \in {"none", "draining", "down"}
        /\ user' \in {"idle", "pausing", "resuming"}
        /\ ready' \in {"off", "hello", "reading", "draining", "persisting", "on"}
      BY <1>7 DEF Drained, PausePersists, ResumePersists, Connect, ReadyDrained,
                  ReadyPersists, ReadyReads, Types, TypeOK
  <2>2. paused' \in BOOLEAN /\ hello' \in BOOLEAN /\ waited' \in BOOLEAN
    <3>1. paused \in BOOLEAN /\ hello \in BOOLEAN /\ waited \in BOOLEAN
        BY DEF Types, TypeOK
    <3>2. CASE ReadyReads
        BY <3>1, <3>2, Zenon DEF ReadyReads
    <3>3. CASE Connect
        BY <3>1, <3>3, Zenon DEF Connect
    <3>4. CASE PausePersists \/ ResumePersists \/ ReadyPersists
        BY <3>1, <3>4, Zenon DEF PausePersists, ResumePersists, ReadyPersists
    <3>5. CASE Drained \/ ReadyDrained
        BY <3>1, <3>5, Zenon DEF Drained, ReadyDrained
    <3> QED
        BY <1>7, <3>2, <3>3, <3>4, <3>5
  <2> QED
      BY <2>1, <2>2 DEF Types, TypeOK
<1>8. ASSUME Stopped
      PROVE  /\ accepting' = FALSE /\ lifecycle' = FALSE /\ permissions' \in BOOLEAN
             /\ epoch' \in 0..MaxStops /\ lifecycleEpoch' \in 0..MaxStops
             /\ lifecycleEpoch' <= epoch'
             /\ barred' \subseteq Op
             /\ UNCHANGED <<tails, generation, op, invalidations>>
    BY <1>8 DEF Stopped, In, Types, TypeOK
<1>9. CASE PauseBegins \/ Disconnect \/ ReadyPaused
    BY <1>8, <1>9 DEF PauseBegins, Disconnect, ReadyPaused, Types, TypeOK
<1>10. CASE ResumeEnds \/ ReadyResumes
  <2>1. /\ UNCHANGED <<permissions, epoch, lifecycleEpoch, tails, generation, op, barred,
                       invalidations, paused, hello, waited>>
        /\ drain' \in {"none", "draining", "down"}
        /\ user' \in {"idle", "pausing", "resuming"}
        /\ ready' \in {"off", "hello", "reading", "draining", "persisting", "on"}
      BY <1>10 DEF ResumeEnds, ReadyResumes, Resumed, Types, TypeOK
  <2>2. /\ accepting' \in BOOLEAN /\ lifecycle' \in BOOLEAN
        /\ accepting' => lifecycle'
    <3>1. /\ permissions \in BOOLEAN /\ accepting \in BOOLEAN /\ lifecycle \in BOOLEAN
          /\ accepting => lifecycle
        BY DEF Types, TypeOK
    <3>2. \/ accepting' = permissions /\ lifecycle' = TRUE
          \/ accepting' = accepting /\ lifecycle' = lifecycle
        BY <1>10 DEF ResumeEnds, ReadyResumes, Resumed
    <3>3. accepting' \in BOOLEAN /\ lifecycle' \in BOOLEAN
        BY <3>1, <3>2
    <3>4. accepting' => lifecycle'
        BY <3>1, <3>2
    <3> QED
        BY <3>3, <3>4
  <2> QED
      BY <2>1, <2>2 DEF Types, TypeOK
<1>11. CASE UNCHANGED vars
    BY <1>11 DEF vars, Types, TypeOK
<1> QED
    BY <1>1, <1>2, <1>3, <1>4, <1>5, <1>6, <1>7, <1>9, <1>10, <1>11 DEF Next

--------------------------------
(* The order of acceptance.                                                *)

LEMMA PendingIs ==
    Pending = {o \in Op : op[o].phase \in {"queued", "running"}}
BY DEF Pending, In

LEMMA ChainInit == Init => Shaped /\ Ordered
<1> SUFFICES ASSUME Init PROVE Shaped /\ Ordered
    OBVIOUS
<1>1. Pending = {}
    BY DEF Init, Pending, In
<1>2. InOrder([o \in Op |-> 0], 0)
    BY <1>1 DEF InOrder
<1> QED
    BY <1>1, <1>2 DEF Shaped, Ordered

(* A member of a lane awaits it, so its earliest pending member is not      *)
(* held back by the lane.                                                   *)
LEMMA EarliestInLane ==
    ASSUME NEW rank \in [Op -> Nat], NEW n \in Nat, InOrder(rank, n), NEW x \in Pending,
           op[x].phase = "running" \/ Unsettled(op[x].waits) = {},
           NEW l \in Lane, Awaits(x, l), NEW o \in Pending, Member(o, l)
    PROVE  rank[x] <= rank[o]
<1>1. rank[x] \in Nat /\ rank[o] \in Nat
    BY DEF Pending, In
<1>2. ~(rank[o] < rank[x])
    BY DEF InOrder, Unsettled
<1> QED
    BY <1>1, <1>2

(* A newly accepted operation comes last in every lane it is a member of.   *)
LEMMA OrderEnqueue ==
    ASSUME Shaped, Ordered, NEW x \in Op, op[x].phase = "none",
           \A q \in Op : q # x => op'[q] = op[q],
           op'[x].phase = "queued", ShapeOK(op'[x]),
           \A l \in Lane : /\ Awaits(x, l)' /\ TailOf(l) \in Pending
                                => TailOf(l) \in op'[x].waits
                           /\ TailOf(l)' = IF Member(x, l)' THEN x ELSE TailOf(l)
    PROVE  Shaped' /\ Ordered'
<1>1. PICK rank \in [Op -> Nat], n \in Nat : InOrder(rank, n)
    BY DEF Ordered
<1>2. /\ x \notin Pending /\ Pending' = Pending \cup {x} /\ Pending \subseteq Op
      /\ \A q \in Pending : q # x /\ op'[q] = op[q]
    BY DEF Pending, In
<1>3. \A q \in Pending, l \in Lane : /\ Member(q, l)' <=> Member(q, l)
                                     /\ Awaits(q, l)' <=> Awaits(q, l)
    BY <1>2 DEF Member, Awaits
<1>4. \A l \in Lane : Member(x, l)' => Awaits(x, l)'
    BY DEF Awaits
<1> DEFINE late == [rank EXCEPT ![x] = n]
<1>5. /\ late \in [Op -> Nat] /\ late[x] = n
      /\ \A q \in Pending : late[q] = rank[q] /\ rank[q] < n /\ rank[q] \in Nat
    BY <1>1, <1>2 DEF InOrder
<1> HIDE DEF late
<1>6. InOrder(late, n + 1)'
  <2>1. \A o \in Pending' : late[o] < n + 1
      BY <1>2, <1>5
  <2>2. \A o, q \in Pending' : late[o] = late[q] => o = q
      BY <1>1, <1>2, <1>5 DEF InOrder
  <2>3. ASSUME NEW l \in Lane, NEW o \in Pending', NEW q \in Pending',
               Member(o, l)', Awaits(q, l)', late[o] < late[q]
        PROVE  /\ op'[q].phase = "queued"
               /\ \E p \in op'[q].waits \cap Pending' :
                    Member(p, l)' /\ late[o] <= late[p] /\ late[p] < late[q]
    <3>1. o \in Pending
        BY <1>2, <1>5, <2>3
    <3>2. CASE q = x
      <4>1. /\ TailOf(l) \in Pending /\ Member(TailOf(l), l)
            /\ rank[o] <= rank[TailOf(l)]
          BY <1>1, <1>3, <2>3, <3>1 DEF InOrder
      <4>2. TailOf(l) \in op'[x].waits
          BY <2>3, <3>2, <4>1
      <4> QED
          BY <1>2, <1>3, <1>5, <3>1, <3>2, <4>1, <4>2
    <3>3. CASE q # x
      <4>1. PICK p \in op[q].waits \cap Pending :
                    Member(p, l) /\ rank[o] <= rank[p] /\ rank[p] < rank[q]
          BY <1>1, <1>2, <1>3, <1>5, <2>3, <3>1, <3>3 DEF InOrder
      <4>2. op[q].phase = "queued" /\ op'[q] = op[q]
          BY <1>1, <1>2, <1>3, <1>5, <2>3, <3>1, <3>3 DEF InOrder
      <4> QED
          BY <1>2, <1>3, <1>5, <3>1, <3>3, <4>1, <4>2
    <3> QED
        BY <3>2, <3>3
  <2>4. ASSUME NEW l \in Lane, NEW o \in Pending', Member(o, l)'
        PROVE  /\ TailOf(l)' \in Pending' /\ Member(TailOf(l), l)'
               /\ late[o] <= late[TailOf(l)']
    <3>1. CASE Member(x, l)'
      <4>1. TailOf(l)' = x
          BY <3>1
      <4>2. Member(TailOf(l), l)'
          BY <3>1, <4>1 DEF Member
      <4> QED
          BY <1>2, <1>5, <4>1, <4>2
    <3>2. CASE ~Member(x, l)'
      <4>1. TailOf(l)' = TailOf(l) /\ o # x /\ o \in Pending /\ Member(o, l)
          BY <1>2, <1>3, <2>4, <3>2
      <4>2. TailOf(l) \in Pending /\ Member(TailOf(l), l) /\ rank[o] <= rank[TailOf(l)]
          BY <1>1, <4>1 DEF InOrder
      <4>3. Member(TailOf(l), l)'
          BY <1>2, <4>1, <4>2 DEF Member
      <4> QED
          BY <1>2, <1>5, <4>1, <4>2, <4>3
    <3> QED
        BY <3>1, <3>2
  <2> QED
      BY <2>1, <2>2, <2>3, <2>4 DEF InOrder
<1>7. Ordered'
    BY <1>5, <1>6 DEF Ordered
<1>8. Shaped'
    BY <1>2 DEF Shaped
<1> QED
    BY <1>7, <1>8

(* An operation whose turn has come leaves the others in their order,       *)
(* whether it starts or settles.                                            *)
LEMMA OrderSettle ==
    ASSUME Shaped, Ordered, NEW x \in Pending,
           op[x].phase = "running" \/ Unsettled(op[x].waits) = {},
           \A q \in Op : q # x => op'[q] = op[q],
           op'[x].phase \in {"running", "settled"},
           op'[x].class = op[x].class, op'[x].task = op[x].task, op'[x].tab = op[x].tab,
           UNCHANGED tails
    PROVE  Shaped' /\ Ordered'
<1>1. PICK rank \in [Op -> Nat], n \in Nat : InOrder(rank, n)
    BY DEF Ordered
<1>2. /\ Pending' \subseteq Pending /\ Pending \subseteq Op
      /\ \A q \in Pending : q # x => q \in Pending'
      /\ x \in Pending' <=> op'[x].phase = "running"
    BY DEF Pending, In
<1>3. /\ \A q \in Pending, l \in Lane : /\ Member(q, l)' <=> Member(q, l)
                                        /\ Awaits(q, l)' <=> Awaits(q, l)
      /\ \A l \in Lane : TailOf(l)' = TailOf(l)
    BY <1>2 DEF Member, Awaits, TailOf, tails
<1>4. \A q \in Pending : rank[q] \in Nat
    BY <1>2
<1>5. \A l \in Lane, o \in Pending : Awaits(x, l) /\ Member(o, l) => rank[x] <= rank[o]
    BY <1>1, EarliestInLane
<1>6. \A l \in Lane, o \in Pending : Member(o, l) => Awaits(o, l)
    BY DEF Awaits
<1>7. InOrder(rank, n)'
  <2>1. /\ \A o \in Pending' : rank[o] < n
        /\ \A o, q \in Pending' : rank[o] = rank[q] => o = q
      BY <1>1, <1>2 DEF InOrder
  <2>2. ASSUME NEW l \in Lane, NEW o \in Pending', NEW q \in Pending',
               Member(o, l)', Awaits(q, l)', rank[o] < rank[q]
        PROVE  /\ op'[q].phase = "queued"
               /\ \E p \in op'[q].waits \cap Pending' :
                    Member(p, l)' /\ rank[o] <= rank[p] /\ rank[p] < rank[q]
    <3>1. o \in Pending /\ q \in Pending /\ Member(o, l) /\ Awaits(q, l)
        BY <1>2, <1>3, <2>2
    <3>2. q # x
        BY <1>4, <1>5, <2>2, <3>1
    <3>3. op[q].phase = "queued" /\ op'[q] = op[q]
        BY <1>1, <1>2, <2>2, <3>1, <3>2 DEF InOrder
    <3>4. PICK p \in op[q].waits \cap Pending :
                  Member(p, l) /\ rank[o] <= rank[p] /\ rank[p] < rank[q]
        BY <1>1, <2>2, <3>1 DEF InOrder
    <3>5. p \in Pending'
      <4>1. CASE p = x
        <5>1. rank[o] = rank[x]
            BY <1>4, <1>5, <1>6, <3>1, <3>4, <4>1
        <5>2. o = x
            BY <1>1, <3>1, <5>1 DEF InOrder
        <5> QED
            BY <4>1, <5>2
      <4> QED
          BY <1>2, <3>4, <4>1
    <3> QED
        BY <1>3, <3>3, <3>4, <3>5
  <2>3. ASSUME NEW l \in Lane, NEW o \in Pending', Member(o, l)'
        PROVE  /\ TailOf(l)' \in Pending' /\ Member(TailOf(l), l)'
               /\ rank[o] <= rank[TailOf(l)']
    <3>1. o \in Pending /\ Member(o, l)
        BY <1>2, <1>3, <2>3
    <3>2. TailOf(l) \in Pending /\ Member(TailOf(l), l) /\ rank[o] <= rank[TailOf(l)]
        BY <1>1, <3>1 DEF InOrder
    <3>3. TailOf(l) \in Pending'
      <4>1. CASE TailOf(l) = x
        <5>1. rank[o] = rank[x]
            BY <1>4, <1>5, <1>6, <3>1, <3>2, <4>1
        <5>2. o = x
            BY <1>1, <3>1, <5>1 DEF InOrder
        <5> QED
            BY <4>1, <5>2
      <4> QED
          BY <1>2, <3>2, <4>1
    <3>4. Member(TailOf(l), l)'
      <4>1. TailOf(l)' = TailOf(l)
          BY <1>3
      <4>2. op'[TailOf(l)].tab = op[TailOf(l)].tab /\ op'[TailOf(l)].task = op[TailOf(l)].task
            /\ op'[TailOf(l)].class = op[TailOf(l)].class
          BY <1>2, <3>2
      <4> QED
          BY <3>2, <4>1, <4>2 DEF Member
    <3> QED
        BY <1>3, <3>2, <3>3, <3>4
  <2> QED
      BY <2>1, <2>2, <2>3 DEF InOrder
<1>8. Ordered'
    BY <1>7 DEF Ordered
<1>9. Shaped'
    BY <1>2 DEF Shaped, ShapeOK
<1> QED
    BY <1>8, <1>9

(* Forgetting a tail that settled loses nothing that is pending.            *)
LEMMA OrderForget ==
    ASSUME Shaped, Ordered, UNCHANGED op,
           \A l \in Lane : TailOf(l)' = TailOf(l) \/ TailOf(l) \notin Pending
    PROVE  Shaped' /\ Ordered'
<1>1. PICK rank \in [Op -> Nat], n \in Nat : InOrder(rank, n)
    BY DEF Ordered
<1>2. Pending' = Pending
    BY DEF Pending, In
<1>3. \A q \in Pending, l \in Lane : /\ Member(q, l)' <=> Member(q, l)
                                     /\ Awaits(q, l)' <=> Awaits(q, l)
    BY DEF Member, Awaits
<1>4. ASSUME NEW l \in Lane, NEW o \in Pending, Member(o, l)
      PROVE  /\ TailOf(l)' \in Pending /\ Member(TailOf(l), l)'
             /\ rank[o] <= rank[TailOf(l)']
  <2>1. TailOf(l) \in Pending /\ Member(TailOf(l), l) /\ rank[o] <= rank[TailOf(l)]
      BY <1>1, <1>4 DEF InOrder
  <2>2. TailOf(l)' = TailOf(l)
      BY <2>1
  <2>3. Member(TailOf(l), l)'
      BY <2>1, <2>2 DEF Member
  <2> QED
      BY <2>1, <2>2, <2>3
<1>5. InOrder(rank, n)'
    BY <1>1, <1>2, <1>3, <1>4 DEF InOrder
<1> QED
    BY <1>2, <1>5 DEF Ordered, Shaped, ShapeOK

--------------------------------
LEMMA ChainEnqueue ==
    ASSUME Types, Shaped, Ordered, NEW o \in Op,
           \/ \E a \in Task, b \in Tab : EnqueueTab(o, a, b)
           \/ \E b \in Tab : ReadAfterWrites(o, b)
           \/ EnqueueGlobal(o)
           \/ \E class \in Profile : EnqueueProfile(o, class)
    PROVE  Shaped' /\ Ordered'
<1> USE SchedulerAssumption
<1>1. CASE \E a \in Task, b \in Tab : EnqueueTab(o, a, b)
  <2>1. PICK a \in Task, b \in Tab : EnqueueTab(o, a, b)
      BY <1>1
  <2>2. /\ \A q \in Op : q # o => op'[q] = op[q]
        /\ op'[o].phase = "queued" /\ op'[o].class = "tab" /\ op'[o].task = a
        /\ op'[o].tab = b
        /\ op'[o].waits = Unsettled({globalTail, taskTail[a], tabTail[b]})
      BY <2>1, EnqueuedFacts DEF EnqueueTab, Class
  <2>3. /\ tabTail' = [tabTail EXCEPT ![b] = o] /\ taskTail' = [taskTail EXCEPT ![a] = o]
        /\ globalTail' = globalTail
        /\ tabTail \in [Tab -> Op \cup {None}] /\ taskTail \in [Task -> Op \cup {None}]
      BY <2>1 DEF EnqueueTab, Types, TypeOK
  <2>4. ASSUME NEW l \in Lane
        PROVE  /\ Awaits(o, l)' /\ TailOf(l) \in Pending => TailOf(l) \in op'[o].waits
               /\ TailOf(l)' = IF Member(o, l)' THEN o ELSE TailOf(l)
    <3>1. CASE l \in [kind : {"global"}, of : {None}]
        BY <2>2, <2>3, <3>1 DEF Awaits, Member, TailOf, Unsettled, GlobalWork
    <3>2. CASE l \in [kind : {"tab"}, of : Tab]
        BY <2>2, <2>3, <3>2 DEF Awaits, Member, TailOf, Unsettled, GlobalWork
    <3>3. CASE l \in [kind : {"task"}, of : Task]
        BY <2>2, <2>3, <3>3 DEF Awaits, Member, TailOf, Unsettled, GlobalWork
    <3> QED
        BY <3>1, <3>2, <3>3 DEF Lane
  <2>5. op[o].phase = "none" /\ ShapeOK(op'[o])
      BY <2>1, <2>2 DEF EnqueueTab, ShapeOK
  <2> QED
      BY <2>2, <2>4, <2>5, OrderEnqueue
<1>2. CASE \E b \in Tab : ReadAfterWrites(o, b)
  <2>1. PICK b \in Tab : ReadAfterWrites(o, b)
      BY <1>2
  <2>2. /\ \A q \in Op : q # o => op'[q] = op[q]
        /\ op'[o].phase = "queued" /\ op'[o].class = "read" /\ op'[o].task = None
        /\ op'[o].tab = b
        /\ op'[o].waits = Unsettled({globalTail, tabTail[b]})
      BY <2>1, EnqueuedFacts DEF ReadAfterWrites, Class
  <2>3. /\ tabTail' = [tabTail EXCEPT ![b] = o] /\ taskTail' = taskTail
        /\ globalTail' = globalTail
        /\ tabTail \in [Tab -> Op \cup {None}]
      BY <2>1 DEF ReadAfterWrites, Types, TypeOK
  <2>4. ASSUME NEW l \in Lane
        PROVE  /\ Awaits(o, l)' /\ TailOf(l) \in Pending => TailOf(l) \in op'[o].waits
               /\ TailOf(l)' = IF Member(o, l)' THEN o ELSE TailOf(l)
    <3>1. CASE l \in [kind : {"global"}, of : {None}]
        BY <2>2, <2>3, <3>1 DEF Awaits, Member, TailOf, Unsettled, GlobalWork
    <3>2. CASE l \in [kind : {"tab"}, of : Tab]
        BY <2>2, <2>3, <3>2 DEF Awaits, Member, TailOf, Unsettled, GlobalWork
    <3>3. CASE l \in [kind : {"task"}, of : Task]
        BY <2>2, <2>3, <3>3 DEF Awaits, Member, TailOf, Unsettled, GlobalWork
    <3> QED
        BY <3>1, <3>2, <3>3 DEF Lane
  <2>5. op[o].phase = "none" /\ ShapeOK(op'[o])
      BY <2>1, <2>2 DEF ReadAfterWrites, ShapeOK
  <2> QED
      BY <2>2, <2>4, <2>5, OrderEnqueue
<1>3. ASSUME NEW class \in GlobalWork, NEW waits, Enqueued(o, class, None, None, waits),
             op[o].phase = "none", globalTail' = o, UNCHANGED <<tabTail, taskTail>>,
             globalTail \in waits, class # "profileRead" => TabTails \subseteq waits
      PROVE  Shaped' /\ Ordered'
  <2>1. class \in Class /\ class # "tab"
      BY DEF GlobalWork, Class
  <2>2. /\ \A q \in Op : q # o => op'[q] = op[q]
        /\ op'[o].phase = "queued" /\ op'[o].class = class /\ op'[o].task = None
        /\ op'[o].tab = None /\ op'[o].waits = Unsettled(waits)
      BY <1>3, <2>1, EnqueuedFacts
  <2>3. ASSUME NEW l \in Lane
        PROVE  /\ Awaits(o, l)' /\ TailOf(l) \in Pending => TailOf(l) \in op'[o].waits
               /\ TailOf(l)' = IF Member(o, l)' THEN o ELSE TailOf(l)
    <3>1. CASE l \in [kind : {"global"}, of : {None}]
        BY <1>3, <2>2, <3>1 DEF Awaits, Member, TailOf, Unsettled
    <3>2. CASE l \in [kind : {"tab"}, of : Tab]
        BY <1>3, <2>2, <3>2 DEF Awaits, Member, TailOf, Unsettled, GlobalWork, TabTails
    <3>3. CASE l \in [kind : {"task"}, of : Task]
        BY <1>3, <2>2, <3>3 DEF Awaits, Member, TailOf, Unsettled
    <3> QED
        BY <3>1, <3>2, <3>3 DEF Lane
  <2> QED
      BY <1>3, <2>2, <2>3, OrderEnqueue DEF ShapeOK
<1>4. CASE EnqueueGlobal(o)
  <2>1. "global" \in GlobalWork
      BY DEF GlobalWork
  <2> QED
      BY <1>3, <1>4, <2>1 DEF EnqueueGlobal
<1>5. CASE \E class \in Profile : EnqueueProfile(o, class)
  <2>1. PICK class \in Profile : EnqueueProfile(o, class)
      BY <1>5
  <2>2. class \in GlobalWork /\ (class # "profileRead" => class = "profileWrite")
      BY DEF GlobalWork, Profile
  <2> QED
      BY <1>3, <2>1, <2>2 DEF EnqueueProfile
<1> QED
    BY <1>1, <1>2, <1>4, <1>5

LEMMA ChainStep == ChainInv /\ [Next]_vars => ChainInv'
<1> SUFFICES ASSUME ChainInv, [Next]_vars PROVE Shaped' /\ Ordered'
    BY TypesStep DEF ChainInv
<1> USE DEF ChainInv
<1>1. ASSUME NEW o \in Op,
             \/ \E a \in Task, b \in Tab : EnqueueTab(o, a, b)
             \/ \E b \in Tab : ReadAfterWrites(o, b)
             \/ EnqueueGlobal(o)
             \/ \E class \in Profile : EnqueueProfile(o, class)
      PROVE  Shaped' /\ Ordered'
    BY <1>1, ChainEnqueue
<1>2. ASSUME NEW o \in Op, Dispatch(o) PROVE Shaped' /\ Ordered'
  <2>1. o \in Pending /\ Unsettled(op[o].waits) = {} /\ UNCHANGED tails
      BY <1>2, PendingIs DEF Dispatch
  <2> QED
      BY <1>2, <2>1, DispatchFacts, OrderSettle
<1>3. ASSUME NEW o \in Op, Settle(o) PROVE Shaped' /\ Ordered'
  <2>1. o \in Pending /\ op[o].phase = "running" /\ UNCHANGED tails
      BY <1>3, PendingIs DEF Settle
  <2> QED
      BY <1>3, <2>1, SettleFacts, OrderSettle
<1>4. ASSUME UNCHANGED <<op, tails>> PROVE Shaped' /\ Ordered'
    BY <1>4, OrderForget DEF TailOf, tails
<1>5. ASSUME NEW b \in Tab, ForgetTab(b) PROVE Shaped' /\ Ordered'
  <2>1. /\ UNCHANGED <<op, taskTail, globalTail>> /\ tabTail[b] \notin Pending
        /\ tabTail' = [tabTail EXCEPT ![b] = None] /\ tabTail \in [Tab -> Op \cup {None}]
      BY <1>5 DEF ForgetTab, Types, TypeOK, Pending, In
  <2>2. \A l \in Lane : TailOf(l)' = TailOf(l) \/ TailOf(l) \notin Pending
      BY <2>1 DEF Lane, TailOf
  <2> QED
      BY <2>1, <2>2, OrderForget
<1>6. ASSUME NEW a \in Task, ForgetTask(a) PROVE Shaped' /\ Ordered'
  <2>1. /\ UNCHANGED <<op, tabTail, globalTail>> /\ taskTail[a] \notin Pending
        /\ taskTail' = [taskTail EXCEPT ![a] = None] /\ taskTail \in [Task -> Op \cup {None}]
      BY <1>6 DEF ForgetTask, Types, TypeOK, Pending, In
  <2>2. \A l \in Lane : TailOf(l)' = TailOf(l) \/ TailOf(l) \notin Pending
      BY <2>1 DEF Lane, TailOf
  <2> QED
      BY <2>1, <2>2, OrderForget
<1>7. ASSUME NEW b \in Tab, InvalidateTab(b) PROVE UNCHANGED <<op, tails>>
    BY <1>7 DEF InvalidateTab
<1>8. CASE RevokePermissions \/ RestorePermissions \/ Drained \/ PausePersists
           \/ ResumePersists \/ Connect \/ ReadyDrained \/ ReadyPersists \/ ReadyReads
    BY <1>4, <1>8 DEF RevokePermissions, RestorePermissions, Drained, PausePersists,
        ResumePersists, Connect, ReadyDrained, ReadyPersists, ReadyReads
<1>9. CASE PauseBegins \/ Disconnect \/ ReadyPaused \/ ResumeEnds \/ ReadyResumes
    BY <1>4, <1>9 DEF PauseBegins, Disconnect, ReadyPaused, ResumeEnds, ReadyResumes,
        Stopped, Resumed
<1>10. CASE UNCHANGED vars
    BY <1>4, <1>10 DEF vars
<1> QED
    BY <1>1, <1>2, <1>3, <1>4, <1>5, <1>6, <1>7, <1>8, <1>9, <1>10 DEF Next

(* Two operations that each await a lane of the other never run together:   *)
(* the later one is still queued.                                           *)
LEMMA LaterWaits ==
    ASSUME Ordered, NEW o \in In("running"), NEW q \in In("running"),
           NEW l \in Lane, Member(o, l), Awaits(q, l),
           NEW k \in Lane, Member(q, k), Awaits(o, k)
    PROVE  o = q
<1>1. PICK rank \in [Op -> Nat], n \in Nat : InOrder(rank, n)
    BY DEF Ordered
<1>2. o \in Pending /\ q \in Pending /\ op[o].phase = "running" /\ op[q].phase = "running"
    BY DEF Pending, In
<1>3. rank[o] \in Nat /\ rank[q] \in Nat
    BY <1>2 DEF Pending, In
<1>4. ~(rank[o] < rank[q]) /\ ~(rank[q] < rank[o])
    BY <1>1, <1>2 DEF InOrder
<1>5. rank[o] = rank[q]
    BY <1>3, <1>4
<1> QED
    BY <1>1, <1>2, <1>5 DEF InOrder

LEMMA ChainGivesRunsAsDeclared == ChainInv => RunsAsDeclared
<1> SUFFICES ASSUME ChainInv PROVE TabAndTaskSerial /\ GlobalAlone
    BY DEF ChainInv, Types, RunsAsDeclared
<1> USE SchedulerAssumption DEF ChainInv
<1>1. \A o \in In("running") : ShapeOK(op[o])
    BY DEF Shaped, Pending
<1>2. TabAndTaskSerial
  <2> SUFFICES ASSUME NEW o \in In("running"), NEW q \in In("running"),
                      \/ op[o].tab # None /\ op[o].tab = op[q].tab
                      \/ op[o].task # None /\ op[o].task = op[q].task
               PROVE  o = q
      BY DEF TabAndTaskSerial
  <2> DEFINE tab == [kind |-> "tab", of |-> op[o].tab]
             task == [kind |-> "task", of |-> op[o].task]
  <2>1. CASE op[o].tab # None /\ op[o].tab = op[q].tab
    <3>1. tab \in Lane /\ tab.kind = "tab" /\ tab.of = op[o].tab
        BY <1>1, <2>1 DEF ShapeOK, Lane
    <3> HIDE DEF tab
    <3>2. Member(o, tab) /\ Member(q, tab) /\ Awaits(o, tab) /\ Awaits(q, tab)
        BY <2>1, <3>1 DEF Member, Awaits
    <3> QED
        BY <3>1, <3>2, LaterWaits
  <2>2. CASE op[o].task # None /\ op[o].task = op[q].task
    <3>1. task \in Lane /\ task.kind = "task" /\ task.of = op[o].task
        BY <1>1, <2>2 DEF ShapeOK, Lane
    <3> HIDE DEF task
    <3>2. Member(o, task) /\ Member(q, task) /\ Awaits(o, task) /\ Awaits(q, task)
        BY <2>2, <3>1 DEF Member, Awaits
    <3> QED
        BY <3>1, <3>2, LaterWaits
  <2> QED
      BY <2>1, <2>2
<1>3. GlobalAlone
  <2> SUFFICES ASSUME NEW o \in In("running"), NEW q \in In("running"),
                      op[o].class \in {"global", "profileWrite"}
               PROVE  o = q
      BY DEF GlobalAlone
  <2> DEFINE all == [kind |-> "global", of |-> None]
             tab == [kind |-> "tab", of |-> op[q].tab]
  <2>1. all \in Lane /\ Member(o, all) /\ Awaits(o, all) /\ Awaits(q, all)
      BY DEF Lane, Member, Awaits, GlobalWork
  <2>2. CASE op[q].class \in GlobalWork
    <3>1. Member(q, all)
        BY <2>2 DEF Member
    <3> HIDE DEF all
    <3> QED
        BY <2>1, <3>1, LaterWaits
  <2>3. CASE op[q].class \notin GlobalWork
    <3>1. tab \in Lane /\ Member(q, tab) /\ Awaits(o, tab)
        BY <1>1, <2>3 DEF ShapeOK, Lane, Member, Awaits
    <3> HIDE DEF all, tab
    <3> QED
        BY <2>1, <3>1, LaterWaits
  <2> QED
      BY <2>2, <2>3
<1> QED
    BY <1>2, <1>3

(* Operations of one tab, and mutations of one task, run one at a time, and *)
(* global work and profile writes run alone, for any number of operations   *)
(* (the chains of promises of MutationScheduler).                           *)
THEOREM OneAtATime == Spec => []RunsAsDeclared
<1>1. Init => ChainInv
    BY TypesInit, ChainInit DEF ChainInv
<1>2. ChainInv /\ [Next]_vars => ChainInv'
    BY ChainStep
<1>3. Spec => []ChainInv
    BY <1>1, <1>2, PTL DEF Spec
<1> QED
    BY <1>3, ChainGivesRunsAsDeclared, PTL

--------------------------------
(* What was stopped: admission only moves away from the epoch and the       *)
(* generation an operation was accepted with.                               *)

EpochFor(o) == IF op[o].class \in Profile THEN lifecycleEpoch ELSE epoch

(* No queued operation is ahead of the admission it will be checked against. *)
NotAhead ==
    \A o \in In("queued") :
        /\ op[o].epoch <= EpochFor(o)
        /\ op[o].class = "tab" => op[o].generation <= generation[op[o].tab]

Stale(o) ==
    \/ op[o].epoch < EpochFor(o)
    \/ op[o].class = "tab" /\ op[o].generation < generation[op[o].tab]

BarredIsStale ==
    \A o \in barred : \/ op[o].phase = "settled"
                      \/ op[o].phase = "queued" /\ Stale(o)

DownIsClosed == drain = "down" => ~lifecycle /\ In("running") = {}

AdmissionInv == NotAhead /\ BarredIsStale /\ DownIsClosed

(* The tail of a tab with a queued operation is pending, so its generation  *)
(* is not forgotten.                                                        *)
LEMMA QueuedHoldsTail ==
    ASSUME ChainInv, NEW o \in In("queued"), op[o].class = "tab"
    PROVE  op[o].tab \in Tab /\ tabTail[op[o].tab] \in Pending
<1> DEFINE l == [kind |-> "tab", of |-> op[o].tab]
<1>1. o \in Pending /\ op[o].tab \in Tab
    BY DEF ChainInv, Shaped, ShapeOK, Pending, GlobalWork
<1>2. l \in Lane /\ Member(o, l) /\ TailOf(l) = tabTail[op[o].tab]
    BY <1>1 DEF Lane, Member, TailOf
<1> HIDE DEF l
<1> QED
    BY <1>1, <1>2 DEF ChainInv, Ordered, InOrder

(* Steps that leave the operations alone.                                   *)
LEMMA AdmissionMoves ==
    ASSUME Types, ChainInv, AdmissionInv, Types', UNCHANGED op,
           epoch <= epoch', lifecycleEpoch <= lifecycleEpoch',
           \A b \in Tab : tabTail[b] \in Pending => generation[b] <= generation'[b],
           \A o \in barred' : o \in barred \/ (o \in In("queued") /\ Stale(o)'),
           drain' = "down" => ~lifecycle' /\ In("running") = {}
    PROVE  AdmissionInv'
<1>1. /\ epoch \in Nat /\ epoch' \in Nat /\ lifecycleEpoch \in Nat /\ lifecycleEpoch' \in Nat
      /\ generation \in [Tab -> Nat] /\ generation' \in [Tab -> Nat] /\ op \in [Op -> Call]
      /\ barred \subseteq Op /\ barred' \subseteq Op
    BY SchedulerAssumption DEF Types, TypeOK
<1>2. \A o \in Op : op[o].epoch \in Nat /\ op[o].generation \in Nat
    BY <1>1 DEF Call
<1>3. ASSUME NEW o \in In("queued")
      PROVE  /\ o \in Op /\ EpochFor(o) \in Nat /\ EpochFor(o)' \in Nat
             /\ EpochFor(o) <= EpochFor(o)'
             /\ op[o].class = "tab" =>
                  /\ op[o].tab \in Tab
                  /\ generation[op[o].tab] \in Nat /\ generation'[op[o].tab] \in Nat
                  /\ generation[op[o].tab] <= generation'[op[o].tab]
    BY <1>1, <1>3, QueuedHoldsTail DEF EpochFor, In
<1>4. /\ \A phase : In(phase)' = In(phase)
      /\ \A o \in Op : op'[o] = op[o]
    BY DEF In
<1>5. NotAhead'
  <2> SUFFICES ASSUME NEW o \in In("queued")
               PROVE  /\ op'[o].epoch <= EpochFor(o)'
                      /\ op'[o].class = "tab" => op'[o].generation <= generation'[op'[o].tab]
      BY <1>4 DEF NotAhead
  <2>1. /\ op[o].epoch <= EpochFor(o)
        /\ op[o].class = "tab" => op[o].generation <= generation[op[o].tab]
      BY DEF AdmissionInv, NotAhead
  <2> QED
      BY <1>2, <1>3, <1>4, <2>1
<1>6. ASSUME NEW o \in In("queued"), Stale(o) PROVE Stale(o)'
    BY <1>2, <1>3, <1>4, <1>6 DEF Stale
<1>7. BarredIsStale'
  <2> SUFFICES ASSUME NEW o \in barred'
               PROVE  op'[o].phase = "settled" \/ (op'[o].phase = "queued" /\ Stale(o)')
      BY DEF BarredIsStale
  <2>1. CASE o \in barred
      BY <1>1, <1>4, <1>6, <2>1 DEF AdmissionInv, BarredIsStale, In
  <2>2. CASE o \in In("queued") /\ Stale(o)'
      BY <1>4, <2>2 DEF In
  <2> QED
      BY <2>1, <2>2
<1>8. DownIsClosed'
    BY <1>4 DEF DownIsClosed
<1> QED
    BY <1>5, <1>7, <1>8 DEF AdmissionInv

(* Steps that move one operation.                                           *)
LEMMA AdmissionOfOne ==
    ASSUME Types, AdmissionInv, NEW x \in Op,
           \A q \in Op : q # x => op'[q] = op[q],
           UNCHANGED <<admission, generation, drain, barred>>,
           \/ /\ op[x].phase = "none" /\ op'[x].phase = "queued"
              /\ op'[x].epoch = (IF op'[x].class \in Profile THEN lifecycleEpoch ELSE epoch)
              /\ op'[x].class = "tab" => op'[x].tab \in Tab
                                         /\ op'[x].generation = generation[op'[x].tab]
           \/ op[x].phase = "queued" /\ op'[x].phase = "running" /\ Admitted(x)
           \/ op'[x].phase = "settled"
    PROVE  AdmissionInv'
<1>1. /\ epoch \in Nat /\ lifecycleEpoch \in Nat /\ generation \in [Tab -> Nat]
      /\ barred \subseteq Op /\ op \in [Op -> Call]
      /\ accepting => lifecycle
      /\ \A o \in Op : op[o].epoch \in Nat /\ op[o].generation \in Nat
    BY SchedulerAssumption DEF Types, TypeOK, Call
<1>2. \A q \in Op : q # x => /\ Stale(q)' <=> Stale(q)
                             /\ EpochFor(q)' = EpochFor(q)
    BY DEF Stale, EpochFor, admission
<1>3. x \in barred => op[x].phase # "none"
    BY DEF AdmissionInv, BarredIsStale
<1>4. x \in barred /\ op[x].phase = "queued" => ~Admitted(x)
  <2> SUFFICES ASSUME Stale(x), Admitted(x), op[x].phase = "queued" PROVE FALSE
      BY DEF AdmissionInv, BarredIsStale
  <2>1. op[x].epoch = EpochFor(x) /\ (op[x].class = "tab" =>
                                        generation[op[x].tab] = op[x].generation)
      BY DEF Admitted, EpochFor, Profile
  <2> QED
      BY <1>1, <2>1 DEF Stale
<1>5. NotAhead'
  <2> SUFFICES ASSUME NEW o \in Op, op'[o].phase = "queued"
               PROVE  /\ op'[o].epoch <= EpochFor(o)'
                      /\ op'[o].class = "tab" => op'[o].generation <= generation'[op'[o].tab]
      BY DEF NotAhead, In
  <2>1. CASE o = x
      BY <1>1, <2>1 DEF EpochFor, admission
  <2>2. CASE o # x
      BY <1>1, <1>2, <2>2 DEF AdmissionInv, NotAhead, In
  <2> QED
      BY <2>1, <2>2
<1>6. BarredIsStale'
  <2> SUFFICES ASSUME NEW o \in barred
               PROVE  op'[o].phase = "settled" \/ (op'[o].phase = "queued" /\ Stale(o)')
      BY DEF BarredIsStale
  <2>1. CASE o = x
      BY <1>3, <1>4, <2>1 DEF AdmissionInv, BarredIsStale
  <2>2. CASE o # x
      BY <1>1, <1>2, <2>2 DEF AdmissionInv, BarredIsStale
  <2> QED
      BY <2>1, <2>2
<1>7. DownIsClosed'
  <2>1. Admitted(x) => lifecycle
    <3>1. CASE op[x].class \in Profile
        BY <3>1 DEF Admitted
    <3>2. CASE op[x].class \notin Profile
        BY <1>1, <3>2 DEF Admitted
    <3> QED
        BY <3>1, <3>2
  <2> QED
      BY <2>1 DEF AdmissionInv, DownIsClosed, In, admission
<1> QED
    BY <1>5, <1>6, <1>7 DEF AdmissionInv

LEMMA AdmissionEnqueue ==
    ASSUME Types, AdmissionInv, NEW o \in Op,
           \/ \E a \in Task, b \in Tab : EnqueueTab(o, a, b)
           \/ \E b \in Tab : ReadAfterWrites(o, b)
           \/ EnqueueGlobal(o)
           \/ \E class \in Profile : EnqueueProfile(o, class)
    PROVE  AdmissionInv'
<1>1. ASSUME NEW class \in Class, NEW task \in Task \cup {None},
             NEW tab \in Tab \cup {None}, class = "tab" => tab \in Tab, NEW waits,
             Enqueued(o, class, task, tab, waits), op[o].phase = "none",
             UNCHANGED <<admission, generation, drain, barred>>
      PROVE  AdmissionInv'
  <2>1. /\ \A q \in Op : q # o => op'[q] = op[q]
        /\ op'[o].phase = "queued" /\ op'[o].class = class /\ op'[o].tab = tab
        /\ op'[o].epoch = (IF class \in Profile THEN lifecycleEpoch ELSE epoch)
        /\ class = "tab" => op'[o].generation = generation[tab]
      BY <1>1, EnqueuedFacts
  <2> QED
      BY <1>1, <2>1, AdmissionOfOne
<1>2. CASE \E a \in Task, b \in Tab : EnqueueTab(o, a, b)
  <2>1. PICK a \in Task, b \in Tab : EnqueueTab(o, a, b)
      BY <1>2
  <2> QED
      BY <1>1, <2>1 DEF EnqueueTab, Class
<1>3. CASE \E b \in Tab : ReadAfterWrites(o, b)
  <2>1. PICK b \in Tab : ReadAfterWrites(o, b)
      BY <1>3
  <2> QED
      BY <1>1, <2>1 DEF ReadAfterWrites, Class
<1>4. CASE EnqueueGlobal(o)
    BY <1>1, <1>4 DEF EnqueueGlobal, Class
<1>5. CASE \E class \in Profile : EnqueueProfile(o, class)
  <2>1. PICK class \in Profile : EnqueueProfile(o, class)
      BY <1>5
  <2>2. class \in Class /\ class # "tab"
      BY DEF Class, Profile
  <2> QED
      BY <1>1, <2>1, <2>2 DEF EnqueueProfile
<1> QED
    BY <1>2, <1>3, <1>4, <1>5

(* What a stop bars is behind the epochs that the stop advances.            *)
LEMMA StopBars ==
    ASSUME Types, AdmissionInv, NEW o \in In("queued"), UNCHANGED op,
           \/ Stopped
           \/ RevokePermissions /\ op[o].class \notin Profile
    PROVE  Stale(o)'
<1>1. /\ epoch \in Nat /\ lifecycleEpoch \in Nat /\ op[o].epoch \in Nat
      /\ op[o].epoch <= EpochFor(o)
    BY SchedulerAssumption DEF Types, TypeOK, Call, AdmissionInv, NotAhead, In
<1> QED
    BY <1>1 DEF Stopped, RevokePermissions, EpochFor, Stale

LEMMA AdmissionStep ==
    ChainInv /\ AdmissionInv /\ [Next]_vars => AdmissionInv'
<1> SUFFICES ASSUME ChainInv, AdmissionInv, [Next]_vars PROVE AdmissionInv'
    OBVIOUS
<1>1. Types /\ Types'
    BY TypesStep DEF ChainInv
<1>2. /\ epoch \in Nat /\ lifecycleEpoch \in Nat /\ generation \in [Tab -> Nat]
      /\ \A o \in Op : op[o].phase \in {"none", "queued", "running", "settled"}
    BY <1>1, SchedulerAssumption DEF Types, TypeOK, Call
<1>3. /\ epoch <= epoch /\ lifecycleEpoch <= lifecycleEpoch
      /\ \A b \in Tab : generation[b] <= generation[b]
    BY <1>2
<1>4. drain = "down" => ~lifecycle /\ In("running") = {}
    BY DEF AdmissionInv, DownIsClosed
<1>5. ASSUME NEW o \in Op, Dispatch(o) PROVE AdmissionInv'
  <2>1. /\ op[o].phase = "queued"
        /\ UNCHANGED <<admission, generation, drain, barred>>
      BY <1>5 DEF Dispatch
  <2> QED
      BY <1>1, <1>5, <2>1, DispatchFacts, AdmissionOfOne
<1>6. ASSUME NEW o \in Op, Settle(o) PROVE AdmissionInv'
    BY <1>1, <1>6, SettleFacts, AdmissionOfOne DEF Settle
<1>7. ASSUME NEW b \in Tab, ForgetTab(b) PROVE AdmissionInv'
  <2>1. /\ UNCHANGED <<op, admission, drain, barred>> /\ tabTail[b] \notin Pending
        /\ generation' = [generation EXCEPT ![b] = 0]
      BY <1>7 DEF ForgetTab, Pending, In
  <2>2. \A c \in Tab : tabTail[c] \in Pending => generation[c] <= generation'[c]
      BY <1>2, <2>1
  <2> QED
      BY <1>1, <1>3, <1>4, <2>1, <2>2, AdmissionMoves DEF admission
<1>8. ASSUME NEW b \in Tab, InvalidateTab(b) PROVE AdmissionInv'
  <2>1. /\ UNCHANGED <<op, admission, drain>>
        /\ generation' = [generation EXCEPT ![b] = IF tabTail[b] = None THEN 0
                                                   ELSE generation[b] + 1]
        /\ barred' = barred \cup {o \in In("queued") : op[o].class = "tab" /\ op[o].tab = b}
      BY <1>8 DEF InvalidateTab
  <2>2. None \notin Pending
      BY SchedulerAssumption DEF Pending, In
  <2>3. \A c \in Tab : tabTail[c] \in Pending =>
          /\ generation[c] <= generation'[c]
          /\ c = b => generation'[c] = generation[c] + 1
      BY <1>2, <2>1, <2>2
  <2>4. ASSUME NEW o \in In("queued"), op[o].class = "tab", op[o].tab = b
        PROVE  Stale(o)'
    <3>1. tabTail[b] \in Pending
        BY <2>4, QueuedHoldsTail
    <3>2. op[o].generation <= generation[b] /\ op[o].generation \in Nat
        BY <1>1, <2>4 DEF AdmissionInv, NotAhead, Types, TypeOK, Call, In
    <3> QED
        BY <1>2, <2>1, <2>3, <2>4, <3>1, <3>2 DEF Stale
  <2> QED
      BY <1>1, <1>3, <1>4, <2>1, <2>3, <2>4, AdmissionMoves DEF admission
<1>9. CASE RevokePermissions
  <2>1. /\ UNCHANGED <<op, generation, drain, lifecycle, lifecycleEpoch>> /\ epoch <= epoch'
        /\ barred' = barred \cup {o \in In("queued") : op[o].class \notin Profile}
      BY <1>2, <1>9 DEF RevokePermissions
  <2> QED
      BY <1>1, <1>3, <1>4, <1>9, <2>1, StopBars, AdmissionMoves
<1>10. CASE PauseBegins \/ Disconnect \/ ReadyPaused
  <2>1. /\ UNCHANGED <<op, generation>> /\ epoch <= epoch' /\ lifecycleEpoch <= lifecycleEpoch'
        /\ Stopped /\ barred' = barred \cup In("queued") /\ lifecycle' = FALSE
        /\ drain' = "draining" \/ drain' = drain
      BY <1>2, <1>10 DEF PauseBegins, Disconnect, ReadyPaused, Stopped
  <2> QED
      BY <1>1, <1>3, <1>4, <2>1, StopBars, AdmissionMoves
<1>11. CASE ResumeEnds \/ ReadyResumes
  <2>1. CASE Resumed
    <3>1. /\ UNCHANGED <<op, generation, epoch, lifecycleEpoch, barred>> /\ drain' # "down"
        BY <2>1 DEF Resumed
    <3> QED
        BY <1>1, <1>3, <3>1, AdmissionMoves
  <2>2. CASE UNCHANGED <<admission, generation, op, drain, barred>>
      BY <1>1, <1>3, <1>4, <2>2, AdmissionMoves DEF admission
  <2> QED
      BY <1>11, <2>1, <2>2 DEF ResumeEnds, ReadyResumes
<1>12. CASE RestorePermissions
  <2>1. UNCHANGED <<lifecycle, epoch, lifecycleEpoch, generation, op, drain, barred>>
      BY <1>12 DEF RestorePermissions
  <2> QED
      BY <1>1, <1>3, <1>4, <2>1, AdmissionMoves
<1>13. CASE Drained
  <2>1. /\ UNCHANGED <<admission, generation, op, barred>> /\ Pending = {}
        /\ drain' = "down" => ~lifecycle
      BY <1>13 DEF Drained
  <2> QED
      BY <1>1, <1>3, <2>1, AdmissionMoves DEF admission, Pending
<1>14. ASSUME UNCHANGED <<admission, generation, op, drain, barred>> PROVE AdmissionInv'
    BY <1>1, <1>3, <1>4, <1>14, AdmissionMoves DEF admission
<1>15. ASSUME NEW a \in Task, ForgetTask(a) PROVE AdmissionInv'
    BY <1>14, <1>15 DEF ForgetTask
<1>16. CASE PausePersists \/ ResumePersists \/ Connect \/ ReadyDrained \/ ReadyPersists
            \/ ReadyReads \/ UNCHANGED vars
    BY <1>14, <1>16 DEF PausePersists, ResumePersists, Connect, ReadyDrained,
        ReadyPersists, ReadyReads, vars
<1> QED
    BY <1>1, <1>5, <1>6, <1>7, <1>8, <1>9, <1>10, <1>11, <1>12, <1>13, <1>15, <1>16,
       AdmissionEnqueue DEF Next

(* An operation that was queued when the user paused, the host went away,   *)
(* permissions were revoked or its tab was invalidated never starts, and    *)
(* nothing runs between the end of a pause and a resume, for any number of  *)
(* operations (MutationScheduler's admission and tab epochs).               *)
THEOREM StoppedStaysStopped == Spec => []AdmissionKept
<1>1. Init => ChainInv /\ AdmissionInv
  <2>1. Init => ChainInv
      BY TypesInit, ChainInit DEF ChainInv
  <2>2. Init => AdmissionInv
      BY DEF Init, AdmissionInv, NotAhead, BarredIsStale, DownIsClosed, In
  <2> QED
      BY <2>1, <2>2
<1>2. ChainInv /\ AdmissionInv /\ [Next]_vars => (ChainInv /\ AdmissionInv)'
    BY ChainStep, AdmissionStep
<1>3. Spec => [](ChainInv /\ AdmissionInv)
    BY <1>1, <1>2, PTL DEF Spec
<1>4. AdmissionInv => AdmissionKept
    BY DEF AdmissionInv, BarredIsStale, DownIsClosed, AdmissionKept, StoppedNeverStarts,
        QuietWhenDown, In
<1> QED
    BY <1>3, <1>4, PTL

================================
